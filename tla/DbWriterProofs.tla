--------------------------- MODULE DbWriterProofs ---------------------------
(***************************************************************************)
(* The writer's steps keep its types, whoever its clients C are.  The      *)
(* modules that put clients around the writer cite these lemmas.           *)
(***************************************************************************)
EXTENDS DbWriter, TLAPS

\* The rows a batch adds are rows.
LEMMA InsertRecordType ==
  ASSUME NEW t \in Tables, NEW b \in Batches, NEW s \in Ssns, NEW d \in Clock(t)
  PROVE  InsertRecord(t, b, s, d) \in Tables
<1>1. d \in 0 .. MaxDate
  BY DEF Clock
<1>2. NewRow(s, d) \in Row
  BY <1>1 DEF NewRow, Row
<1> DEFINE envs == IF DupEnvelope(t, s, d) THEN t.envs ELSE Append(t.envs, NewRow(s, d))
<1>3. envs \in Seq(Row)
  BY <1>2 DEF Tables
<1>4. /\ t.accts \cup {s} \in SUBSET Ssns
      /\ t.relat \cup {<<b, s>>} \in SUBSET (Batches \X Ssns)
  BY DEF Tables
<1>5. InsertRecord(t, b, s, d) =
        [t EXCEPT !.accts = t.accts \cup {s}, !.relat = t.relat \cup {<<b, s>>},
                  !.envs = envs]
  BY DEF InsertRecord
<1> HIDE DEF envs
<1> QED
  BY <1>3, <1>4, <1>5 DEF Tables

\* The duplicates of one record are a number.
LEMMA DuplicatesType ==
  ASSUME NEW t, NEW b, NEW s, NEW d
  PROVE  Duplicates(t, b, s, d) \in Nat
BY DEF Duplicates

\* An update writes columns of the right types.
LEMMA RevisedType ==
  ASSUME NEW C, NEW e \in Row, NEW r \in StatusReq(C) \cup IdReq(C)
  PROVE  Revised(e, r) \in Row
<1>1. CASE r \in StatusReq(C)
  BY <1>1 DEF StatusReq, Revised, Row
<1>2. CASE r \in IdReq(C)
  BY <1>2 DEF IdReq, Revised, Row
<1> QED
  BY <1>1, <1>2

\* Answers go to clients.
LEMMA AnswerType ==
  ASSUME NEW C, awaiting \subseteq C,
         replies \subseteq [to : C, res : Result, dups : Nat],
         NEW c, NEW res \in Result, NEW dups \in Nat,
         Answer(c, res, dups)
  PROVE  replies' \subseteq [to : C, res : Result, dups : Nat]
BY DEF Answer

LEMMA SubmitType ==
  ASSUME NEW C, WriterTypeOK(C), NEW r \in Request(C), Submit(r)
  PROVE  WriterTypeOK(C)'
<1>1. r.from \in C \cup {None}
  BY DEF Request, BatchReq, StatusReq, IdReq, OtherReq
<1>2. wq' \in Seq(Request(C))
  BY DEF Submit, WriterTypeOK
<1>3. awaiting' \subseteq C
  BY <1>1 DEF Submit, WriterTypeOK
<1> QED
  BY <1>2, <1>3 DEF Submit, WriterTypeOK

LEMMA TakeReplyType ==
  ASSUME NEW C, WriterTypeOK(C), NEW a, TakeReply(a)
  PROVE  WriterTypeOK(C)'
BY DEF TakeReply, WriterTypeOK

LEMMA AbandonType ==
  ASSUME NEW C, WriterTypeOK(C), NEW cs, Abandon(cs)
  PROVE  /\ awaiting' \subseteq C
         /\ replies' \subseteq [to : C, res : Result, dups : Nat]
BY DEF Abandon, WriterTypeOK

\* The request at the head of the channel, and the channel without it.
LEMMA HeadType ==
  ASSUME NEW C, WriterTypeOK(C), wq # << >>
  PROVE  Head(wq) \in Request(C) /\ Tail(wq) \in Seq(Request(C))
BY DEF WriterTypeOK

\* Each step of the writer keeps its types.
LEMMA BeginBatchType ==
  ASSUME NEW C, WriterTypeOK(C), BeginBatch
  PROVE  WriterTypeOK(C)'
<1> DEFINE r == Head(wq)
<1>1. r \in BatchReq(C) /\ wq' \in Seq(Request(C))
  BY HeadType DEF BeginBatch, Serving, Request, BatchReq, StatusReq, IdReq, OtherReq
<1>2. CASE r.batch \in tables.batches
  <2>1. Answer(r.from, "Duplicate", 0) /\ UNCHANGED <<txn, tables, awaiting, faults>>
    BY <1>2 DEF BeginBatch
  <2>2. replies' \subseteq [to : C, res : Result, dups : Nat]
    BY <2>1, AnswerType DEF WriterTypeOK, Result
  <2> QED
    BY <1>1, <2>1, <2>2 DEF WriterTypeOK
<1>3. CASE r.batch \notin tables.batches
  <2> DEFINE work == [tables EXCEPT !.batches = @ \cup {r.batch}]
  <2>1. /\ txn' = [req |-> r, next |-> 1, dups |-> 0, work |-> work]
        /\ UNCHANGED <<tables, awaiting, replies, faults>>
    BY <1>3 DEF BeginBatch
  <2>2. work \in Tables
    BY <1>1 DEF WriterTypeOK, Tables, BatchReq
  <2>3. txn' \in Txn(C)
    BY <1>1, <2>1, <2>2 DEF Txn
  <2> QED
    BY <1>1, <2>1, <2>3 DEF WriterTypeOK
<1> QED
  BY <1>2, <1>3

LEMMA InsertedTxn ==
  ASSUME NEW C, WriterTypeOK(C), InsertNext
  PROVE  txn' \in Txn(C)
<1>1. txn \in Txn(C)
  BY DEF InsertNext, WriterTypeOK
<1> DEFINE b == txn.req.batch
           s == txn.req.recs[txn.next]
<1>2. b \in Batches /\ s \in Ssns /\ txn.work \in Tables
  BY <1>1 DEF InsertNext, Txn, BatchReq
<1>3. PICK d \in Clock(txn.work) :
        txn' = [txn EXCEPT !.work = InsertRecord(txn.work, b, s, d),
                           !.next = txn.next + 1,
                           !.dups = txn.dups + Duplicates(txn.work, b, s, d)]
  BY DEF InsertNext
<1> DEFINE work == InsertRecord(txn.work, b, s, d)
           more == Duplicates(txn.work, b, s, d)
<1>4. work \in Tables /\ more \in Nat
  BY <1>2, InsertRecordType, DuplicatesType
<1>5. txn' = [txn EXCEPT !.work = work, !.next = txn.next + 1, !.dups = txn.dups + more]
  BY <1>3
<1> HIDE DEF b, s, work, more
<1>6. txn.next + 1 \in Nat \ {0} /\ txn.dups + more \in Nat
  BY <1>1, <1>4 DEF Txn
<1>7. /\ txn'.req = txn.req /\ txn'.work = work
      /\ txn'.next = txn.next + 1 /\ txn'.dups = txn.dups + more
      /\ txn' = [req |-> txn'.req, work |-> txn'.work, next |-> txn'.next,
                 dups |-> txn'.dups]
  BY <1>1, <1>5 DEF Txn
<1> QED
  BY <1>1, <1>4, <1>6, <1>7 DEF Txn

LEMMA InsertNextType ==
  ASSUME NEW C, WriterTypeOK(C), InsertNext
  PROVE  WriterTypeOK(C)'
BY InsertedTxn DEF InsertNext, WriterTypeOK

LEMMA CommitBatchType ==
  ASSUME NEW C, WriterTypeOK(C), CommitBatch
  PROVE  WriterTypeOK(C)'
<1>1. txn \in Txn(C)
  BY DEF CommitBatch, WriterTypeOK
<1>2. tables' \in Tables
  BY <1>1 DEF CommitBatch, Txn
<1>3. replies' \subseteq [to : C, res : Result, dups : Nat]
  BY <1>1, AnswerType DEF CommitBatch, WriterTypeOK, Txn, Result
<1> QED
  BY <1>2, <1>3 DEF CommitBatch, WriterTypeOK

LEMMA UpdateRowType ==
  ASSUME NEW C, WriterTypeOK(C), UpdateRow
  PROVE  WriterTypeOK(C)'
<1> DEFINE r == Head(wq)
<1>1. r \in StatusReq(C) \cup IdReq(C) /\ wq' \in Seq(Request(C))
  BY HeadType DEF UpdateRow, Serving, Request, BatchReq, StatusReq, IdReq, OtherReq
<1>2. /\ tables' \in Tables
      /\ replies' \subseteq [to : C, res : Result, dups : Nat]
  <2>1. CASE UNCHANGED tables /\ \E res \in Result : Answer(r.from, res, 0)
    BY <2>1, AnswerType DEF WriterTypeOK
  <2>2. ASSUME NEW i \in Targets(tables, r),
               tables' = [tables EXCEPT !.envs[i] = Revised(tables.envs[i], r)],
               Answer(r.from, "Ok", 0)
        PROVE  /\ tables' \in Tables
               /\ replies' \subseteq [to : C, res : Result, dups : Nat]
    <3>1. i \in DOMAIN tables.envs /\ tables.envs[i] \in Row
      BY DEF Targets, WriterTypeOK, Tables
    <3>2. Revised(tables.envs[i], r) \in Row
      BY <1>1, <3>1, RevisedType
    <3>3. [tables.envs EXCEPT ![i] = Revised(tables.envs[i], r)] \in Seq(Row)
      BY <3>1, <3>2 DEF WriterTypeOK, Tables
    <3>4. tables' \in Tables
      BY <2>2, <3>3 DEF WriterTypeOK, Tables
    <3> QED
      BY <2>2, <3>4, AnswerType DEF WriterTypeOK, Result
  <2> QED
    BY <2>1, <2>2 DEF UpdateRow, Result
<1> QED
  BY <1>1, <1>2 DEF UpdateRow, WriterTypeOK

LEMMA WriteFailsType ==
  ASSUME NEW C, WriterTypeOK(C), WriteFails
  PROVE  WriterTypeOK(C)'
<1>1. faults' \in Nat
  BY DEF WriteFails, WriterTypeOK
<1>2. CASE txn # None /\ txn' = None /\ Answer(txn.req.from, "DbError", 0) /\ UNCHANGED wq
  BY <1>1, <1>2, AnswerType DEF WriteFails, WriterTypeOK, Result
<1>3. CASE wq # << >> /\ wq' = Tail(wq) /\ Answer(Head(wq).from, "DbError", 0)
             /\ UNCHANGED txn
  BY <1>1, <1>3, HeadType, AnswerType DEF WriteFails, WriterTypeOK, Result
<1> QED
  BY <1>2, <1>3 DEF WriteFails

LEMMA WriterCrashType ==
  ASSUME NEW C, WriterTypeOK(C), WriterCrash
  PROVE  WriterTypeOK(C)'
BY DEF WriterCrash, WriterTypeOK

\* The steps of the writer together.
LEMMA WriterStepType ==
  ASSUME NEW C, WriterTypeOK(C), WriterStep
  PROVE  WriterTypeOK(C)'
BY BeginBatchType, InsertNextType, CommitBatchType, UpdateRowType DEF WriterStep

LEMMA WriterInitType ==
  ASSUME NEW C, WriterInit
  PROVE  WriterTypeOK(C)
BY DEF WriterInit, WriterTypeOK, EmptyTables, Tables
=============================================================================
