-------------------------- MODULE DbRequestsProofs --------------------------
(***************************************************************************)
(* Theorems about the writer under any clients: it implements AtomicStore, *)
(* and no sequence of requests, faults and crashes breaks the tables' rules*)
(* that its UPDATEs and INSERTs are meant to keep.                         *)
(***************************************************************************)
EXTENDS DbRequests, DbWriterProofs, FiniteSetTheorems

(***************************************************************************)
(* The inductive invariant of the refinement.  A client has one request or *)
(* one answer under way; and a transaction has stored, of its batch, what  *)
(* AtomicStore asks for, for the records up to `next'.                     *)
(***************************************************************************)

\* c has no answer to take.
NoReply(c) == \A a \in replies : a.to # c

OneEachInv ==
  /\ \A a \in replies : a.to \in awaiting
  /\ \A a, b \in replies : a.to = b.to => a = b
  /\ \A k \in DOMAIN wq : NoReply(wq[k].from)
  /\ \A k, n \in DOMAIN wq : wq[k].from = wq[n].from => k = n
  /\ txn # None =>
       /\ NoReply(txn.req.from)
       /\ \A k \in DOMAIN wq : wq[k].from # txn.req.from

Active(t, s) == \E i \in DOMAIN t.envs : t.envs[i].ssn = s /\ IsActive(t.envs[i])

\* The records of recs before the n-th.
Before(recs, n) == {recs[m] : m \in {k \in DOMAIN recs : k < n}}

\* u is t with people stored under batch b.
StoredUpTo(t, u, b, people) ==
  /\ b \notin t.batches
  /\ u.batches = t.batches \cup {b}
  /\ u.accts = t.accts \cup people
  /\ u.relat = t.relat \cup ({b} \X people)
  /\ u.pdfs = t.pdfs
  /\ \A i \in DOMAIN t.envs : i \in DOMAIN u.envs /\ u.envs[i] = t.envs[i]
  /\ \A i \in DOMAIN u.envs \ DOMAIN t.envs :
       /\ u.envs[i].ssn \in people
       /\ ~ Active(t, u.envs[i].ssn)
       /\ u.envs[i] = NewRow(u.envs[i].ssn, u.envs[i].date)
  /\ \A i, j \in DOMAIN u.envs \ DOMAIN t.envs : u.envs[i].ssn = u.envs[j].ssn => i = j
  /\ \A s \in people :
       \/ Active(u, s)
       \/ \E i \in DOMAIN t.envs :
            /\ t.envs[i].ssn = s
            /\ \A j \in DOMAIN t.envs : t.envs[j].date <= t.envs[i].date

TxnStoredInv ==
  txn # None =>
    StoredUpTo(tables, txn.work, txn.req.batch, Before(txn.req.recs, txn.next))

DbTypeOK == WriterTypeOK(Clients)

DbInv == DbTypeOK /\ OneEachInv /\ TxnStoredInv

-----------------------------------------------------------------------------
(***************************************************************************)
(* Types.                                                                  *)
(***************************************************************************)

LEMMA RequestsType ==
  ASSUME NEW c \in Clients, NEW r \in Requests(c)
  PROVE  r \in Request(Clients) /\ r.from = c /\ r.from # None
<1>1. r.from = c
  BY DEF Requests
<1>2. CASE r \in [op : {"NewBatch"}, batch : Batches, recs : Lists, from : {c}]
  BY <1>1, ClientsAssumption, <1>2, ListsAssumption DEF Request, BatchReq
<1>3. CASE r \in [op : {"UpdateStatus"}, gid : Gids, status : Statuses,
                  reason : BOOLEAN, apiErr : {FALSE}, from : {c}]
  BY <1>1, ClientsAssumption, <1>3, RequestsAssumption DEF Request, StatusReq
<1>4. CASE r \in [op : {"UpdateStatusWithId"}, id : Ids, gid : Gids \cup {None},
                  status : Statuses, reason : {FALSE}, apiErr : {FALSE}, from : {c}]
  BY <1>1, ClientsAssumption, <1>4, RequestsAssumption DEF Request, IdReq
<1>5. CASE r \in [op : {"CompleteEnvelope"}, gid : Gids, status : Statuses, from : {c}]
  BY <1>1, ClientsAssumption, <1>5, RequestsAssumption DEF Request, OtherReq
<1>6. CASE r \in [op : {"UpdateAcct"}, from : {c}]
  BY <1>1, ClientsAssumption, <1>6 DEF Request, OtherReq
<1> QED
  BY <1>1, <1>2, <1>3, <1>4, <1>5, <1>6, ClientsAssumption DEF Requests

LEMMA CompleteRowType ==
  ASSUME NEW C, WriterTypeOK(C), CompleteRow
  PROVE  WriterTypeOK(C)'
<1> DEFINE r == Head(wq)
<1>1. /\ r \in [op : {"CompleteEnvelope"}, gid : Nat, status : Status, from : C]
      /\ wq' \in Seq(Request(C))
  BY HeadType DEF CompleteRow, Serving, Request, BatchReq, StatusReq, IdReq, OtherReq
<1>2. CASE Answer(r.from, "DbError", 0) /\ UNCHANGED tables
  BY <1>1, <1>2, AnswerType DEF CompleteRow, WriterTypeOK, Result
<1>3. ASSUME NEW i \in Targets(tables, r),
             tables' = [tables EXCEPT !.envs[i].status = r.status,
                                      !.pdfs = @ \cup {r.gid}],
             Answer(r.from, "Ok", 0)
      PROVE  WriterTypeOK(C)'
  <2>1. i \in DOMAIN tables.envs /\ tables.envs \in Seq(Row) /\ tables.envs[i] \in Row
    BY DEF Targets, WriterTypeOK, Tables
  <2> DEFINE e == [tables.envs[i] EXCEPT !.status = r.status]
  <2>2. e \in Row
    BY <1>1, <2>1 DEF Row
  <2>3. tables' = [tables EXCEPT !.envs = [tables.envs EXCEPT ![i] = e],
                                 !.pdfs = tables.pdfs \cup {r.gid}]
    BY <1>3, <2>1 DEF WriterTypeOK, Tables
  <2> HIDE DEF e
  <2>4. [tables.envs EXCEPT ![i] = e] \in Seq(Row)
    BY <2>1, <2>2
  <2>5. tables' \in Tables
    BY <1>1, <2>3, <2>4 DEF WriterTypeOK, Tables
  <2> QED
    BY <1>1, <1>3, <2>5, AnswerType DEF CompleteRow, WriterTypeOK, Result
<1> QED
  BY <1>2, <1>3 DEF CompleteRow

LEMMA AcctFailsType ==
  ASSUME NEW C, WriterTypeOK(C), AcctFails
  PROVE  WriterTypeOK(C)'
<1>1. /\ Head(wq) \in [op : {"UpdateAcct"}, from : C]
      /\ wq' \in Seq(Request(C))
  BY HeadType DEF AcctFails, Serving, Request, BatchReq, StatusReq, IdReq, OtherReq
<1> QED
  BY <1>1, AnswerType DEF AcctFails, WriterTypeOK, Result

LEMMA DbNextType ==
  ASSUME DbTypeOK, [DbNext]_dbVars
  PROVE  DbTypeOK'
<1>1. ASSUME NEW c \in Clients, Send(c)
      PROVE  DbTypeOK'
  BY <1>1, RequestsType, SubmitType DEF Send, DbTypeOK
<1>2. ASSUME NEW c \in Clients, Receive(c)
      PROVE  DbTypeOK'
  BY <1>2, TakeReplyType DEF Receive, DbTypeOK
<1>3. ASSUME NEW c \in Clients, GiveUp(c)
      PROVE  DbTypeOK'
  <2>1. /\ awaiting' \subseteq Clients
        /\ replies' \subseteq [to : Clients, res : Result, dups : Nat]
    BY <1>3, AbandonType DEF GiveUp, DbTypeOK
  <2> QED
    BY <1>3, <2>1 DEF GiveUp, DbTypeOK, WriterTypeOK
<1>4. CASE AllServed \/ UNCHANGED dbVars
  BY <1>4 DEF AllServed, dbVars, writerVars, DbTypeOK, WriterTypeOK
<1> QED
  BY <1>1, <1>2, <1>3, <1>4, WriterStepType, CompleteRowType, AcctFailsType,
     WriteFailsType, WriterCrashType DEF DbNext, DbTypeOK

-----------------------------------------------------------------------------
(***************************************************************************)
(* One request or one answer per client.                                   *)
(***************************************************************************)

\* Request r leaves the queue or the transaction and is answered, or not.
LEMMA ServedOneEach ==
  ASSUME DbTypeOK, OneEachInv, UNCHANGED awaiting,
         NEW r, NEW res, NEW dups, Answer(r.from, res, dups),
         txn' = None,
         \/ txn = None /\ wq # << >> /\ r = Head(wq) /\ wq' = Tail(wq)
         \/ txn # None /\ r = txn.req /\ UNCHANGED wq
  PROVE  OneEachInv'
<1>1. PICK a0 : a0.to = r.from
                /\ replies' = IF r.from \in awaiting THEN replies \cup {a0} ELSE replies
  <2>1. [to |-> r.from, res |-> res, dups |-> dups].to = r.from
    OBVIOUS
  <2> QED
    BY <2>1 DEF Answer
<1>2. wq \in Seq(Request(Clients))
  BY DEF DbTypeOK, WriterTypeOK
<1>3. /\ NoReply(r.from)
      /\ \E d \in {0, 1} : \A k \in DOMAIN wq' :
           k \in Nat /\ k + d \in DOMAIN wq /\ wq'[k] = wq[k + d] /\ wq[k + d].from # r.from
  <2>1. CASE txn = None /\ wq # << >> /\ r = Head(wq) /\ wq' = Tail(wq)
    <3>1. /\ 1 \in DOMAIN wq /\ r = wq[1]
          /\ \A k \in DOMAIN wq' : k \in Nat /\ k + 1 \in DOMAIN wq
                                   /\ wq'[k] = wq[k + 1] /\ k + 1 # 1
      BY <1>2, <2>1
    <3> QED
      BY <3>1 DEF OneEachInv
  <2>2. CASE txn # None /\ r = txn.req /\ UNCHANGED wq
    <3>1. \A k \in DOMAIN wq : k \in Nat /\ k + 0 = k
      BY <1>2
    <3> QED
      BY <2>2, <3>1 DEF OneEachInv
  <2> QED
    BY <2>1, <2>2
<1>4. PICK d \in {0, 1} : \A k \in DOMAIN wq' :
        k \in Nat /\ k + d \in DOMAIN wq /\ wq'[k] = wq[k + d] /\ wq[k + d].from # r.from
  BY <1>3
<1>5. \A k \in DOMAIN wq' : NoReply(wq[k].from)'
  BY <1>1, <1>4 DEF OneEachInv, NoReply
<1>6. \A k, n \in DOMAIN wq' : wq'[k].from = wq'[n].from => k = n
  <2> SUFFICES ASSUME NEW k \in DOMAIN wq', NEW n \in DOMAIN wq',
                      wq'[k].from = wq'[n].from
               PROVE  k = n
    OBVIOUS
  <2>1. k + d = n + d
    BY <1>4 DEF OneEachInv
  <2> QED
    BY <1>4, <2>1
<1>7. /\ \A a \in replies' : a.to \in awaiting'
      /\ \A a, b \in replies' : a.to = b.to => a = b
  BY <1>1, <1>3 DEF OneEachInv, NoReply
<1> QED
  BY <1>5, <1>6, <1>7 DEF OneEachInv

LEMMA SendOneEach ==
  ASSUME DbTypeOK, OneEachInv, NEW c \in Clients, Send(c)
  PROVE  OneEachInv'
<1>1. PICK r \in Requests(c) : Submit(r)
  BY DEF Send
<1>2. r \in Request(Clients) /\ r.from = c /\ r.from # None
  BY <1>1, RequestsType
<1>3. /\ wq' = Append(wq, r) /\ wq \in Seq(Request(Clients))
      /\ awaiting' = awaiting \cup {c} /\ UNCHANGED <<txn, replies>>
  BY <1>1, <1>2 DEF Submit, DbTypeOK, WriterTypeOK
<1>4. /\ \A k \in DOMAIN wq' : k \in DOMAIN wq \/ k = Len(wq) + 1
      /\ \A k \in DOMAIN wq : wq'[k] = wq[k] /\ k # Len(wq) + 1
      /\ wq'[Len(wq) + 1] = r
  BY <1>2, <1>3
<1>5. /\ NoReply(c) /\ \A k \in DOMAIN wq : wq[k].from # c
      /\ txn # None => txn.req.from # c
  BY DEF Send, OneEachInv, NoReply
<1> QED
  BY <1>2, <1>3, <1>4, <1>5 DEF OneEachInv, NoReply

LEMMA NextOneEach ==
  ASSUME DbTypeOK, OneEachInv, [DbNext]_dbVars
  PROVE  OneEachInv'
<1>1. ASSUME NEW c \in Clients, Receive(c) \/ GiveUp(c)
      PROVE  OneEachInv'
  <2>1. /\ UNCHANGED <<wq, txn>> /\ replies' \subseteq replies
        /\ awaiting' = awaiting \ {c} /\ \A a \in replies' : a.to # c
    BY <1>1 DEF Receive, GiveUp, TakeReply, Abandon, OneEachInv
  <2> QED
    BY <2>1 DEF OneEachInv, NoReply
<1>2. CASE BeginBatch
  <2>1. CASE Answer(Head(wq).from, "Duplicate", 0) /\ UNCHANGED txn
    BY <1>2, <2>1, ServedOneEach DEF BeginBatch, Serving
  <2>2. CASE /\ txn' = [req |-> Head(wq), next |-> 1, dups |-> 0,
                        work |-> [tables EXCEPT !.batches = @ \cup {Head(wq).batch}]]
             /\ UNCHANGED replies
    <3>1. txn'.req = Head(wq)
      BY <2>2
    <3>2. /\ 1 \in DOMAIN wq /\ Head(wq) = wq[1]
          /\ \A k \in DOMAIN wq' : k \in Nat /\ k + 1 \in DOMAIN wq
                                   /\ wq'[k] = wq[k + 1] /\ k + 1 # 1
      BY <1>2 DEF BeginBatch, Serving, DbTypeOK, WriterTypeOK
    <3>3. \A k, n \in DOMAIN wq' : wq'[k].from = wq'[n].from => k = n
      <4> SUFFICES ASSUME NEW k \in DOMAIN wq', NEW n \in DOMAIN wq',
                          wq'[k].from = wq'[n].from
                   PROVE  k = n
        OBVIOUS
      <4>1. k + 1 = n + 1
        BY <3>2 DEF OneEachInv
      <4> QED
        BY <3>2, <4>1
    <3>4. UNCHANGED awaiting
      BY <1>2 DEF BeginBatch
    <3> QED
      BY <2>2, <3>1, <3>2, <3>3, <3>4 DEF OneEachInv, NoReply
  <2> QED
    BY <1>2, <2>1, <2>2 DEF BeginBatch
<1>3. CASE InsertNext
  <2>1. txn \in Txn(Clients)
    BY <1>3 DEF InsertNext, DbTypeOK, WriterTypeOK
  <2>2. txn'.req = txn.req /\ txn # None
    BY <1>3, <2>1 DEF InsertNext, Txn
  <2> QED
    BY <1>3, <2>2 DEF InsertNext, OneEachInv, NoReply
<1>4. CASE CommitBatch
  BY <1>4, ServedOneEach DEF CommitBatch
<1>5. CASE UpdateRow \/ CompleteRow \/ AcctFails
  <2>1. \E res \in Result : Answer(Head(wq).from, res, 0)
    BY <1>5 DEF UpdateRow, CompleteRow, AcctFails, Result
  <2> QED
    BY <1>5, <2>1, ServedOneEach DEF UpdateRow, CompleteRow, AcctFails, Serving
<1>6. CASE WriteFails
  BY <1>6, ServedOneEach DEF WriteFails
<1>7. CASE WriterCrash
  BY <1>7 DEF WriterCrash, OneEachInv
<1>8. CASE AllServed \/ UNCHANGED dbVars
  BY <1>8 DEF AllServed, dbVars, writerVars, OneEachInv, NoReply
<1> QED
  BY <1>1, <1>2, <1>3, <1>4, <1>5, <1>6, <1>7, <1>8, SendOneEach DEF DbNext, WriterStep

-----------------------------------------------------------------------------
(***************************************************************************)
(* What a transaction has stored.                                          *)
(***************************************************************************)

LEMMA NewRowActive ==
  ASSUME NEW s, NEW d
  PROVE  IsActive(NewRow(s, d)) /\ NewRow(s, d).ssn = s /\ NewRow(s, d).date = d
         /\ NewRow(s, d).gid = None
BY NoneAssumption DEF IsActive, NewRow, Terminal, Status

LEMMA NothingStored ==
  ASSUME NEW t \in Tables, NEW b \in Batches, b \notin t.batches
  PROVE  StoredUpTo(t, [t EXCEPT !.batches = @ \cup {b}], b, {})
BY DEF StoredUpTo, Tables

\* The rows of u after one more record.
LEMMA RecordRows ==
  ASSUME NEW u \in Tables, NEW b \in Batches, NEW s \in Ssns, NEW d \in Clock(u),
         NEW v, v = InsertRecord(u, b, s, d)
  PROVE  /\ v.batches = u.batches /\ v.pdfs = u.pdfs
         /\ v.accts = u.accts \cup {s} /\ v.relat = u.relat \cup {<<b, s>>}
         /\ u.envs \in Seq(Row)
         /\ \/ DupEnvelope(u, s, d) /\ v.envs = u.envs
            \/ /\ ~ DupEnvelope(u, s, d)
               /\ DOMAIN v.envs = DOMAIN u.envs \cup {Len(u.envs) + 1}
               /\ Len(u.envs) + 1 \notin DOMAIN u.envs
               /\ \A i \in DOMAIN u.envs : v.envs[i] = u.envs[i]
               /\ v.envs[Len(u.envs) + 1] = NewRow(s, d)
<1> DEFINE envs == IF DupEnvelope(u, s, d) THEN u.envs ELSE Append(u.envs, NewRow(s, d))
<1>1. v = [u EXCEPT !.accts = u.accts \cup {s}, !.relat = u.relat \cup {<<b, s>>},
                    !.envs = envs]
  BY DEF InsertRecord
<1>2. /\ DupEnvelope(u, s, d) => envs = u.envs
      /\ ~ DupEnvelope(u, s, d) => envs = Append(u.envs, NewRow(s, d))
  OBVIOUS
<1> HIDE DEF envs
<1>3. /\ v.batches = u.batches /\ v.pdfs = u.pdfs /\ v.envs = envs
      /\ v.accts = u.accts \cup {s} /\ v.relat = u.relat \cup {<<b, s>>}
      /\ u.envs \in Seq(Row)
  BY <1>1 DEF Tables
<1>4. CASE DupEnvelope(u, s, d)
  BY <1>2, <1>3, <1>4
<1>5. CASE ~ DupEnvelope(u, s, d)
  <2>1. d \in 0 .. MaxDate
    BY DEF Clock
  <2>2. NewRow(s, d) \in Row
    BY <2>1 DEF NewRow, Row
  <2> HIDE DEF NewRow
  <2> QED
    BY <1>2, <1>3, <1>5, <2>2
<1> QED
  BY <1>4, <1>5

LEMMA OneMoreStored ==
  ASSUME NEW t \in Tables, NEW u \in Tables, NEW b \in Batches, NEW people,
         StoredUpTo(t, u, b, people), NEW s \in Ssns, NEW d \in Clock(u)
  PROVE  StoredUpTo(t, InsertRecord(u, b, s, d), b, people \cup {s})
<1> DEFINE v == InsertRecord(u, b, s, d)
           n == Len(u.envs) + 1
<1>1. /\ v.batches = u.batches /\ v.pdfs = u.pdfs
      /\ v.accts = u.accts \cup {s} /\ v.relat = u.relat \cup {<<b, s>>}
      /\ \/ DupEnvelope(u, s, d) /\ v.envs = u.envs
         \/ /\ ~ DupEnvelope(u, s, d)
            /\ DOMAIN v.envs = DOMAIN u.envs \cup {n}
            /\ n \notin DOMAIN u.envs
            /\ \A i \in DOMAIN u.envs : v.envs[i] = u.envs[i]
            /\ v.envs[n] = NewRow(s, d)
  BY RecordRows
<1> HIDE DEF v, n
<1>2. \A i \in DOMAIN u.envs \ DOMAIN t.envs : IsActive(u.envs[i])
  BY NewRowActive DEF StoredUpTo
<1>3. /\ b \notin t.batches
      /\ v.batches = t.batches \cup {b}
      /\ v.accts = t.accts \cup (people \cup {s})
      /\ v.relat = t.relat \cup ({b} \X (people \cup {s}))
      /\ v.pdfs = t.pdfs
  BY <1>1 DEF StoredUpTo
<1>4. ASSUME DupEnvelope(u, s, d) /\ v.envs = u.envs
      PROVE  StoredUpTo(t, v, b, people \cup {s})
  <2>1. \/ Active(v, s)
        \/ \E i \in DOMAIN t.envs :
             /\ t.envs[i].ssn = s
             /\ \A j \in DOMAIN t.envs : t.envs[j].date <= t.envs[i].date
    <3>1. PICK i \in DOMAIN u.envs : u.envs[i].ssn = s
                                     /\ (IsActive(u.envs[i]) \/ u.envs[i].date = d)
      BY <1>4 DEF DupEnvelope
    <3>2. CASE IsActive(u.envs[i])
      BY <1>4, <3>1, <3>2 DEF Active
    <3>3. CASE i \in DOMAIN t.envs /\ u.envs[i].date = d
      <4>1. \A j \in DOMAIN t.envs : t.envs[j].date <= d
        BY DEF StoredUpTo, Clock
      <4> QED
        BY <3>1, <3>3, <4>1 DEF StoredUpTo
    <3> QED
      BY <1>2, <3>1, <3>2, <3>3
  <2>2. \A p : Active(u, p) => Active(v, p)
    BY <1>4 DEF Active
  <2> QED
    BY <1>3, <1>4, <2>1, <2>2 DEF StoredUpTo
<1>5. ASSUME /\ ~ DupEnvelope(u, s, d)
             /\ DOMAIN v.envs = DOMAIN u.envs \cup {n}
             /\ n \notin DOMAIN u.envs
             /\ \A i \in DOMAIN u.envs : v.envs[i] = u.envs[i]
             /\ v.envs[n] = NewRow(s, d)
      PROVE  StoredUpTo(t, v, b, people \cup {s})
  <2>1. /\ IsActive(v.envs[n]) /\ v.envs[n].ssn = s
        /\ v.envs[n] = NewRow(v.envs[n].ssn, v.envs[n].date)
    BY <1>5, NewRowActive
  <2>2. \A i \in DOMAIN u.envs : u.envs[i].ssn = s => ~ IsActive(u.envs[i])
    BY <1>5 DEF DupEnvelope
  <2>3. \A i \in DOMAIN t.envs : i \in DOMAIN u.envs /\ u.envs[i] = t.envs[i]
    BY DEF StoredUpTo
  <2>4. ~ Active(t, s)
    BY <2>2, <2>3 DEF Active
  <2>5. \A i \in DOMAIN t.envs : i \in DOMAIN v.envs /\ v.envs[i] = t.envs[i]
    BY <1>5, <2>3
  <2>6. \A i \in DOMAIN v.envs \ DOMAIN t.envs :
          /\ v.envs[i].ssn \in people \cup {s}
          /\ ~ Active(t, v.envs[i].ssn)
          /\ v.envs[i] = NewRow(v.envs[i].ssn, v.envs[i].date)
    BY <1>5, <2>1, <2>4 DEF StoredUpTo
  <2>7. \A i, j \in DOMAIN v.envs \ DOMAIN t.envs :
          v.envs[i].ssn = v.envs[j].ssn => i = j
    BY <1>2, <1>5, <2>1, <2>2 DEF StoredUpTo
  <2>8. Active(v, s) /\ \A p : Active(u, p) => Active(v, p)
    BY <1>5, <2>1 DEF Active
  <2>9. \A p \in people \cup {s} :
          \/ Active(v, p)
          \/ \E i \in DOMAIN t.envs :
               /\ t.envs[i].ssn = p
               /\ \A j \in DOMAIN t.envs : t.envs[j].date <= t.envs[i].date
    BY <2>8 DEF StoredUpTo
  <2> QED
    BY <1>3, <2>5, <2>6, <2>7, <2>9 DEF StoredUpTo
<1>6. StoredUpTo(t, v, b, people \cup {s})
  BY <1>1, <1>4, <1>5
<1> QED
  BY <1>6 DEF v

LEMMA NextTxnStored ==
  ASSUME DbTypeOK, DbTypeOK', TxnStoredInv, [DbNext]_dbVars
  PROVE  TxnStoredInv'
<1>1. CASE UNCHANGED <<tables, txn>>
  BY <1>1 DEF TxnStoredInv, StoredUpTo, Active, Before
<1>2. CASE txn' = None
  BY <1>2 DEF TxnStoredInv
<1>3. CASE BeginBatch
  <2> DEFINE r == Head(wq)
  <2>1. CASE UNCHANGED txn
    BY <1>1, <1>3, <2>1 DEF BeginBatch
  <2>2. CASE /\ r.batch \notin tables.batches
             /\ txn' = [req |-> r, next |-> 1, dups |-> 0,
                        work |-> [tables EXCEPT !.batches = @ \cup {r.batch}]]
    <3>1. r \in BatchReq(Clients)
      BY <1>3, HeadType DEF BeginBatch, Serving, Request, BatchReq, StatusReq, IdReq,
                            OtherReq, DbTypeOK
    <3>2. StoredUpTo(tables, [tables EXCEPT !.batches = @ \cup {r.batch}], r.batch, {})
      BY <2>2, <3>1, NothingStored DEF BatchReq, DbTypeOK, WriterTypeOK
    <3>3. Before(r.recs, 1) = {}
      BY <3>1 DEF Before, BatchReq
    <3>4. /\ txn'.req = r /\ txn'.next = 1
          /\ txn'.work = [tables EXCEPT !.batches = @ \cup {r.batch}]
      BY <2>2
    <3>5. UNCHANGED tables
      BY <1>3 DEF BeginBatch
    <3> HIDE DEF r
    <3>6. StoredUpTo(tables', txn'.work, txn'.req.batch, Before(txn'.req.recs, txn'.next))
      BY <3>2, <3>3, <3>4, <3>5
    <3> QED
      BY <3>6 DEF TxnStoredInv, StoredUpTo, Active, Before
  <2> QED
    BY <1>3, <2>1, <2>2 DEF BeginBatch
<1>4. CASE InsertNext
  <2>1. txn \in Txn(Clients) /\ txn # None
    BY <1>4 DEF InsertNext, DbTypeOK, WriterTypeOK
  <2>2. PICK b, s, d : /\ b = txn.req.batch /\ s = txn.req.recs[txn.next]
                       /\ d \in Clock(txn.work)
                       /\ txn'.req = txn.req /\ txn'.next = txn.next + 1
                       /\ txn'.work = InsertRecord(txn.work, b, s, d)
    BY <1>4, <2>1 DEF InsertNext, Txn
  <2>3. /\ b \in Batches /\ s \in Ssns /\ txn.work \in Tables
        /\ txn.req.recs \in Seq(Ssns) /\ txn.next \in Nat
        /\ txn.next \in DOMAIN txn.req.recs
    BY <1>4, <2>1, <2>2 DEF InsertNext, Txn, BatchReq
  <2>4. Before(txn.req.recs, txn.next + 1) = Before(txn.req.recs, txn.next) \cup {s}
    <3>1. \A k \in DOMAIN txn.req.recs :
            k \in Nat /\ (k < txn.next + 1 <=> k < txn.next \/ k = txn.next)
      BY <2>3
    <3> QED
      BY <2>2, <2>3, <3>1 DEF Before
  <2>5. StoredUpTo(tables, txn'.work, b, Before(txn.req.recs, txn.next) \cup {s})
    <3>1. tables \in Tables
      BY DEF DbTypeOK, WriterTypeOK
    <3>2. StoredUpTo(tables, txn.work, b, Before(txn.req.recs, txn.next))
      BY <2>1, <2>2 DEF TxnStoredInv
    <3> QED
      BY <2>2, <2>3, <3>1, <3>2, OneMoreStored
  <2>6. tables' = tables
    BY <1>4 DEF InsertNext
  <2>7. StoredUpTo(tables', txn'.work, txn'.req.batch, Before(txn'.req.recs, txn'.next))
    BY <2>2, <2>4, <2>5, <2>6
  <2> QED
    BY <2>7 DEF TxnStoredInv, StoredUpTo, Active, Before
<1>5. CASE UpdateRow \/ CompleteRow \/ AcctFails \/ WriterCrash
  BY <1>2, <1>5 DEF UpdateRow, CompleteRow, AcctFails, Serving, WriterCrash
<1>6. CASE CommitBatch
  BY <1>2, <1>6 DEF CommitBatch
<1>7. CASE WriteFails
  BY <1>1, <1>2, <1>7 DEF WriteFails
<1>8. CASE AllServed \/ UNCHANGED dbVars
           \/ \E c \in Clients : Send(c) \/ Receive(c) \/ GiveUp(c)
  BY <1>1, <1>8 DEF AllServed, dbVars, writerVars, Send, Submit, Receive, TakeReply,
                    GiveUp
<1> QED
  BY <1>3, <1>4, <1>5, <1>6, <1>7, <1>8 DEF DbNext, WriterStep

-----------------------------------------------------------------------------
(***************************************************************************)
(* The rules the tables keep.                                              *)
(***************************************************************************)

\* TablesConsistent of tables t.
Consistent(t) ==
  /\ \A i \in DOMAIN t.envs :
       /\ RowOK(t, i, t.envs[i])
       /\ t.envs[i].ssn \in t.accts
       /\ \A j \in DOMAIN t.envs \ {i} :
            t.envs[i].ssn = t.envs[j].ssn => t.envs[i].date # t.envs[j].date
  /\ \A g \in t.pdfs : \E i \in DOMAIN t.envs : t.envs[i].gid = g
  /\ \A r \in t.relat : r[1] \in t.batches /\ r[2] \in t.accts

\* Neither the tables nor what is about to replace them breaks a rule.
RulesInv ==
  /\ Consistent(tables)
  /\ txn # None => Consistent(txn.work) /\ txn.req.batch \in txn.work.batches

\* t and its row i, which becomes e, give u.
RowReplaced(t, u, i, e) ==
  /\ i \in DOMAIN t.envs /\ DOMAIN u.envs = DOMAIN t.envs
  /\ u.envs[i] = e
  /\ \A j \in DOMAIN t.envs \ {i} : u.envs[j] = t.envs[j]
  /\ e.ssn = t.envs[i].ssn /\ e.date = t.envs[i].date
  /\ u.batches = t.batches /\ u.accts = t.accts /\ u.relat = t.relat

LEMMA ReplacedType ==
  ASSUME NEW t \in Tables, NEW i \in DOMAIN t.envs, NEW e, NEW u,
         e.ssn = t.envs[i].ssn, e.date = t.envs[i].date,
         \/ u = [t EXCEPT !.envs[i] = e]
         \/ \E g : u = [t EXCEPT !.envs[i] = e, !.pdfs = @ \cup {g}]
  PROVE  RowReplaced(t, u, i, e)
<1>1. /\ u.envs = [t.envs EXCEPT ![i] = e]
      /\ u.batches = t.batches /\ u.accts = t.accts /\ u.relat = t.relat
  BY DEF Tables
<1> QED
  BY <1>1 DEF RowReplaced, Tables

\* An UPDATE the constraints allow leaves a consistent table consistent.
LEMMA UpdateConsistent ==
  ASSUME NEW t, NEW u, NEW i, NEW e, Consistent(t), RowReplaced(t, u, i, e),
         RowOK(t, i, e), u.pdfs = t.pdfs
  PROVE  Consistent(u)
<1>1. \A k \in DOMAIN u.envs : RowOK(u, k, u.envs[k])
  <2> SUFFICES ASSUME NEW k \in DOMAIN u.envs
               PROVE  RowOK(u, k, u.envs[k])
    OBVIOUS
  <2>1. CASE k = i
    BY <2>1 DEF RowReplaced, RowOK
  <2>2. CASE k # i
    <3>1. RowOK(t, k, t.envs[k]) /\ u.envs[k] = t.envs[k] /\ k \in DOMAIN t.envs
      BY <2>2 DEF RowReplaced, Consistent
    <3>2. ASSUME NEW j \in DOMAIN u.envs \ {k}
          PROVE  /\ IsActive(u.envs[k]) /\ u.envs[j].ssn = u.envs[k].ssn
                      => ~ IsActive(u.envs[j])
                 /\ u.envs[k].gid # None => u.envs[j].gid # u.envs[k].gid
      <4>1. CASE j = i
        BY <2>2, <3>1, <4>1 DEF RowReplaced, RowOK
      <4>2. CASE j # i
        BY <3>1, <4>2 DEF RowReplaced, RowOK
      <4> QED
        BY <4>1, <4>2
    <3> QED
      BY <3>2 DEF RowOK
  <2> QED
    BY <2>1, <2>2
<1>2. \A g \in u.pdfs : \E k \in DOMAIN u.envs : u.envs[k].gid = g
  <2> SUFFICES ASSUME NEW g \in u.pdfs
               PROVE  \E k \in DOMAIN u.envs : u.envs[k].gid = g
    OBVIOUS
  <2>1. PICK k \in DOMAIN t.envs : t.envs[k].gid = g
    BY DEF Consistent
  <2>2. u.envs[k].gid = g
    BY <2>1 DEF RowReplaced, RowOK
  <2> QED
    BY <2>2 DEF RowReplaced
<1>3. \A k \in DOMAIN u.envs :
        /\ u.envs[k].ssn = t.envs[k].ssn /\ u.envs[k].date = t.envs[k].date
        /\ k \in DOMAIN t.envs
  BY DEF RowReplaced
<1> QED
  BY <1>1, <1>2, <1>3 DEF Consistent, RowReplaced

\* So does a completion with the document of the row.
LEMMA CompleteConsistent ==
  ASSUME NEW t, NEW u, NEW i, NEW e, Consistent(t), RowReplaced(t, u, i, e),
         e.gid = t.envs[i].gid, RowOK(t, i, e), u.pdfs = t.pdfs \cup {e.gid}
  PROVE  Consistent(u)
<1>1. \A k \in DOMAIN u.envs :
        /\ u.envs[k].ssn = t.envs[k].ssn /\ u.envs[k].date = t.envs[k].date
        /\ u.envs[k].gid = t.envs[k].gid /\ k \in DOMAIN t.envs
  BY DEF RowReplaced
<1>2. \A k \in DOMAIN u.envs : RowOK(u, k, u.envs[k])
  BY <1>1 DEF Consistent, RowOK, RowReplaced
<1>3. \A g \in u.pdfs : \E k \in DOMAIN u.envs : u.envs[k].gid = g
  BY <1>1 DEF Consistent, RowReplaced
<1> QED
  BY <1>1, <1>2, <1>3 DEF Consistent, RowReplaced

\* So does one more record of a batch the tables know.
LEMMA InsertConsistent ==
  ASSUME NEW t \in Tables, NEW b \in Batches, NEW s \in Ssns, NEW d \in Clock(t),
         Consistent(t), b \in t.batches
  PROVE  /\ Consistent(InsertRecord(t, b, s, d))
         /\ b \in InsertRecord(t, b, s, d).batches
<1> SUFFICES ASSUME NEW u, u = InsertRecord(t, b, s, d)
             PROVE  Consistent(u) /\ b \in u.batches
  OBVIOUS
<1> DEFINE n == Len(t.envs) + 1
<1>1. /\ u.batches = t.batches /\ u.pdfs = t.pdfs
      /\ u.accts = t.accts \cup {s} /\ u.relat = t.relat \cup {<<b, s>>}
      /\ \/ DupEnvelope(t, s, d) /\ u.envs = t.envs
         \/ /\ ~ DupEnvelope(t, s, d)
            /\ DOMAIN u.envs = DOMAIN t.envs \cup {n}
            /\ n \notin DOMAIN t.envs
            /\ \A i \in DOMAIN t.envs : u.envs[i] = t.envs[i]
            /\ u.envs[n] = NewRow(s, d)
  BY RecordRows
<1> HIDE DEF n
<1>2. \A r \in u.relat : r[1] \in u.batches /\ r[2] \in u.accts
  BY <1>1 DEF Consistent
<1>3. CASE DupEnvelope(t, s, d) /\ u.envs = t.envs
  BY <1>1, <1>2, <1>3 DEF Consistent, RowOK
<1>4. CASE /\ ~ DupEnvelope(t, s, d)
           /\ DOMAIN u.envs = DOMAIN t.envs \cup {n}
           /\ n \notin DOMAIN t.envs
           /\ \A i \in DOMAIN t.envs : u.envs[i] = t.envs[i]
           /\ u.envs[n] = NewRow(s, d)
  <2>1. u.envs[n].ssn = s /\ u.envs[n].date = d /\ u.envs[n].gid = None
    BY <1>4, NewRowActive
  <2>2. \A i \in DOMAIN t.envs : u.envs[i].ssn = s =>
          ~ IsActive(u.envs[i]) /\ u.envs[i].date # d
    BY <1>4 DEF DupEnvelope
  <2>3. None \notin u.pdfs
    BY <1>1, NoneAssumption DEF Tables
  <2>4. \A k \in DOMAIN u.envs : RowOK(u, k, u.envs[k])
    <3>1. ASSUME NEW k \in DOMAIN t.envs
          PROVE  RowOK(u, k, u.envs[k])
      <4>1. RowOK(t, k, t.envs[k])
        BY DEF Consistent
      <4> QED
        BY <1>4, <2>1, <2>2, <4>1 DEF RowOK
    <3>2. RowOK(u, n, u.envs[n])
      BY <1>4, <2>1, <2>2, <2>3 DEF RowOK
    <3> QED
      BY <1>4, <3>1, <3>2
  <2>5. \A k \in DOMAIN u.envs :
          /\ u.envs[k].ssn \in u.accts
          /\ \A j \in DOMAIN u.envs \ {k} :
               u.envs[k].ssn = u.envs[j].ssn => u.envs[k].date # u.envs[j].date
    BY <1>1, <1>4, <2>1, <2>2 DEF Consistent
  <2>6. \A g \in u.pdfs : \E k \in DOMAIN u.envs : u.envs[k].gid = g
    BY <1>1, <1>4 DEF Consistent
  <2> QED
    BY <1>1, <1>2, <2>4, <2>5, <2>6 DEF Consistent
<1> QED
  BY <1>1, <1>3, <1>4

LEMMA NextRules ==
  ASSUME DbTypeOK, RulesInv, [DbNext]_dbVars
  PROVE  RulesInv'
<1>1. CASE UNCHANGED <<tables, txn>>
  BY <1>1 DEF RulesInv, Consistent, RowOK, IsActive
<1>2. tables \in Tables
  BY DEF DbTypeOK, WriterTypeOK
<1>3. ASSUME txn' = None, Consistent(tables')
      PROVE  RulesInv'
  BY <1>3 DEF RulesInv, Consistent, RowOK, IsActive
<1>4. ASSUME UNCHANGED tables, Consistent(txn'.work), txn'.req.batch \in txn'.work.batches
      PROVE  RulesInv'
  BY <1>4 DEF RulesInv, Consistent, RowOK, IsActive
<1>5. CASE BeginBatch
  <2> DEFINE r == Head(wq)
             work == [tables EXCEPT !.batches = @ \cup {r.batch}]
  <2>1. CASE UNCHANGED txn
    BY <1>1, <1>5, <2>1 DEF BeginBatch
  <2>2. CASE txn' = [req |-> r, next |-> 1, dups |-> 0, work |-> work]
    <3>1. txn'.req.batch = r.batch /\ txn'.work = work /\ UNCHANGED tables
      BY <1>5, <2>2 DEF BeginBatch
    <3>2. /\ work.envs = tables.envs /\ work.pdfs = tables.pdfs
          /\ work.accts = tables.accts /\ work.relat = tables.relat
          /\ work.batches = tables.batches \cup {r.batch}
      BY <1>2 DEF Tables
    <3> HIDE DEF r, work
    <3>3. Consistent(work) /\ r.batch \in work.batches
      BY <3>2 DEF RulesInv, Consistent, RowOK
    <3> QED
      BY <1>4, <3>1, <3>3
  <2> QED
    BY <1>5, <2>1, <2>2 DEF BeginBatch
<1>6. CASE InsertNext
  <2>1. txn \in Txn(Clients) /\ txn # None
    BY <1>6 DEF InsertNext, DbTypeOK, WriterTypeOK
  <2>2. PICK b, s, d : /\ b = txn.req.batch /\ s = txn.req.recs[txn.next]
                       /\ d \in Clock(txn.work)
                       /\ txn'.req = txn.req
                       /\ txn'.work = InsertRecord(txn.work, b, s, d)
    BY <1>6, <2>1 DEF InsertNext, Txn
  <2>3. b \in Batches /\ s \in Ssns /\ txn.work \in Tables
    BY <1>6, <2>1, <2>2 DEF InsertNext, Txn, BatchReq
  <2>4. Consistent(txn.work) /\ b \in txn.work.batches
    BY <2>1, <2>2 DEF RulesInv
  <2> QED
    BY <1>4, <1>6, <2>2, <2>3, <2>4, InsertConsistent DEF InsertNext
<1>7. CASE CommitBatch
  BY <1>3, <1>7 DEF CommitBatch, RulesInv
<1>8. CASE UpdateRow
  <2> DEFINE r == Head(wq)
  <2>1. txn' = None
    BY <1>8 DEF UpdateRow, Serving
  <2>2. CASE UNCHANGED tables
    BY <1>3, <2>1, <2>2 DEF RulesInv
  <2>3. ASSUME NEW i \in Targets(tables, r), NEW e, e = Revised(tables.envs[i], r),
               RowOK(tables, i, e), tables' = [tables EXCEPT !.envs[i] = e]
        PROVE  RulesInv'
    <3>1. i \in DOMAIN tables.envs /\ tables.envs[i] \in Row
      BY <1>2 DEF Targets, Tables
    <3>2. e.ssn = tables.envs[i].ssn /\ e.date = tables.envs[i].date
      BY <2>3, <3>1 DEF Revised, Row
    <3>3. RowReplaced(tables, tables', i, e)
      BY <1>2, <2>3, <3>1, <3>2, ReplacedType
    <3>4. tables'.pdfs = tables.pdfs
      BY <1>2, <2>3 DEF Tables
    <3>5. Consistent(tables')
      <4>1. Consistent(tables) /\ RowOK(tables, i, e)
        BY <2>3 DEF RulesInv
      <4>2. PICK u : u = tables'
        OBVIOUS
      <4>3. RowReplaced(tables, u, i, e) /\ u.pdfs = tables.pdfs
        BY <3>3, <3>4, <4>2
      <4>4. Consistent(u)
        BY <4>1, <4>3, UpdateConsistent
      <4> QED
        BY <4>2, <4>4
    <3> QED
      BY <1>3, <2>1, <3>5
  <2> QED
    BY <1>8, <2>2, <2>3 DEF UpdateRow
<1>9. CASE CompleteRow
  <2> DEFINE r == Head(wq)
  <2>1. txn' = None
    BY <1>9 DEF CompleteRow, Serving
  <2>2. CASE UNCHANGED tables
    BY <1>3, <2>1, <2>2 DEF RulesInv
  <2>3. ASSUME NEW i \in Targets(tables, r), r.op = "CompleteEnvelope",
               RowOK(tables, i, [tables.envs[i] EXCEPT !.status = r.status]),
               tables' = [tables EXCEPT !.envs[i].status = r.status,
                                        !.pdfs = @ \cup {r.gid}]
        PROVE  RulesInv'
    <3>1. /\ i \in DOMAIN tables.envs /\ tables.envs[i] \in Row
          /\ tables.envs[i].gid = r.gid
      BY <1>2, <2>3 DEF Targets, Tables
    <3>2. PICK e : e = [tables.envs[i] EXCEPT !.status = r.status]
      OBVIOUS
    <3>3. /\ e.ssn = tables.envs[i].ssn /\ e.date = tables.envs[i].date
          /\ e.gid = r.gid /\ RowOK(tables, i, e)
      BY <2>3, <3>1, <3>2 DEF Row
    <3>4. tables' = [tables EXCEPT !.envs[i] = e, !.pdfs = tables.pdfs \cup {r.gid}]
      BY <1>2, <2>3, <3>1, <3>2 DEF Tables
    <3>5. RowReplaced(tables, tables', i, e)
      BY <1>2, <3>1, <3>3, <3>4, ReplacedType
    <3>6. tables'.pdfs = tables.pdfs \cup {e.gid}
      BY <1>2, <3>3, <3>4 DEF Tables
    <3>7. Consistent(tables')
      BY <3>1, <3>3, <3>5, <3>6, CompleteConsistent DEF RulesInv
    <3> QED
      BY <1>3, <2>1, <3>7
  <2> QED
    BY <1>9, <2>2, <2>3 DEF CompleteRow, Serving
<1>10. CASE WriteFails \/ WriterCrash
  BY <1>1, <1>3, <1>10 DEF WriteFails, WriterCrash, RulesInv
<1>11. CASE AllServed \/ UNCHANGED dbVars \/ AcctFails
            \/ \E c \in Clients : Send(c) \/ Receive(c) \/ GiveUp(c)
  BY <1>1, <1>11 DEF AllServed, AcctFails, dbVars, writerVars, Send, Submit, Receive, TakeReply,
                     GiveUp
<1> QED
  BY <1>5, <1>6, <1>7, <1>8, <1>9, <1>10, <1>11 DEF DbNext, WriterStep

LEMMA RulesAreConsistent ==
  ASSUME RulesInv
  PROVE  TablesConsistent
BY DEF RulesInv, Consistent, TablesConsistent

(***************************************************************************)
(* No legal or illegal sequence of requests, with failing statements and   *)
(* crashes anywhere, leaves the committed tables with two active rows of a *)
(* person, an envelope id twice, a document without its row, or a relation *)
(* to a batch or person that is not there.                                 *)
(***************************************************************************)
THEOREM TablesStayConsistent == DbSpec => []TablesConsistent
<1>1. DbInit => DbTypeOK /\ RulesInv
  BY WriterInitType DEF DbInit, WriterInit, DbTypeOK, RulesInv, Consistent, EmptyTables
<1>2. DbTypeOK /\ RulesInv /\ [DbNext]_dbVars => (DbTypeOK /\ RulesInv)'
  BY DbNextType, NextRules
<1>3. DbTypeOK /\ RulesInv => TablesConsistent
  BY RulesAreConsistent
<1> QED
  BY <1>1, <1>2, <1>3, PTL DEF DbSpec

-----------------------------------------------------------------------------
(***************************************************************************)
(* The refinement.  A transaction under way is, for AtomicStore, a request *)
(* that has not been served: its request is put back at the head.          *)
(***************************************************************************)

Pending == IF txn = None THEN wq ELSE <<txn.req>> \o wq

Answers == {[to |-> a.to, res |-> a.res] : a \in replies}

\* AtomicStore reads the same tables with the same operators.
LEMMA SameOperators ==
  /\ \A t, r : Store!Targets(t, r) = Targets(t, r)
  /\ \A e, r : Store!Revised(e, r) = Revised(e, r)
  /\ \A t, i, e : Store!RowOK(t, i, e) <=> RowOK(t, i, e)
  /\ \A s, d : Store!NewRow(s, d) = NewRow(s, d)
  /\ \A t, s : Store!SomeActive(t, s) <=> Active(t, s)
  /\ Store!EmptyTables = EmptyTables
<1>1. \A e : Store!IsActive(e) <=> IsActive(e)
  BY DEF Store!IsActive, IsActive, Store!Terminal, Terminal
<1>2. \A t, r : Store!Targets(t, r) = Targets(t, r)
  BY DEF Store!Targets, Targets
<1>3. \A e, r : Store!Revised(e, r) = Revised(e, r)
  BY DEF Store!Revised, Revised
<1>4. \A t, i, e : Store!RowOK(t, i, e) <=> RowOK(t, i, e)
  BY <1>1 DEF Store!RowOK, RowOK
<1>5. \A s, d : Store!NewRow(s, d) = NewRow(s, d)
  BY DEF Store!NewRow, NewRow
<1>6. \A t, s : Store!SomeActive(t, s) <=> Active(t, s)
  BY <1>1 DEF Store!SomeActive, Active
<1>7. Store!EmptyTables = EmptyTables
  BY DEF Store!EmptyTables, EmptyTables
<1> QED
  BY <1>2, <1>3, <1>4, <1>5, <1>6, <1>7

\* Request r, the oldest, is answered, and the tables changed if the answer is Ok.
LEMMA ServedStep ==
  ASSUME DbTypeOK, UNCHANGED awaiting,
         NEW r, NEW res \in Result, NEW dups, Answer(r.from, res, dups),
         txn' = None,
         \/ txn = None /\ wq # << >> /\ r = Head(wq) /\ wq' = Tail(wq)
         \/ txn # None /\ r = txn.req /\ UNCHANGED wq,
         IF res = "Ok" THEN Store!Stored(tables, tables', r) ELSE UNCHANGED tables
  PROVE  Store!Serve
<1>1. wq \in Seq(Request(Clients))
  BY DEF DbTypeOK, WriterTypeOK
<1>2. Pending # << >> /\ Pending' = Tail(Pending) /\ Head(Pending) = r
  <2>1. CASE txn = None
    BY <2>1 DEF Pending
  <2>2. CASE txn # None
    <3>1. r \in Request(Clients)
      BY <2>2 DEF DbTypeOK, WriterTypeOK, Txn, Request
    <3>2. /\ <<r>> \o wq # << >> /\ Head(<<r>> \o wq) = r /\ Tail(<<r>> \o wq) = wq
      BY <1>1, <3>1
    <3> QED
      BY <2>2, <3>2 DEF Pending
  <2> QED
    BY <2>1, <2>2
<1>3. Answers' = IF r.from \in awaiting THEN Answers \cup {[to |-> r.from, res |-> res]}
                                        ELSE Answers
  <2>1. CASE r.from \in awaiting
    <3>1. PICK a0 : /\ a0.to = r.from /\ a0.res = res
                    /\ replies' = replies \cup {a0}
      <4>1. /\ [to |-> r.from, res |-> res, dups |-> dups].to = r.from
            /\ [to |-> r.from, res |-> res, dups |-> dups].res = res
        OBVIOUS
      <4> QED
        BY <2>1, <4>1 DEF Answer
    <3> QED
      BY <2>1, <3>1 DEF Answers
  <2>2. CASE r.from \notin awaiting
    BY <2>2 DEF Answers, Answer
  <2> QED
    BY <2>1, <2>2
<1> QED
  BY <1>2, <1>3 DEF Store!Serve, Pending, Answers, Result

LEMMA SendStep ==
  ASSUME DbTypeOK, NEW c \in Clients, Send(c)
  PROVE  Store!Accept
<1>1. PICK r \in Requests(c) : Submit(r)
  BY DEF Send
<1>2. r \in Request(Clients) /\ r.from = c /\ r.from # None
  BY <1>1, RequestsType
<1>3. /\ wq' = Append(wq, r) /\ wq \in Seq(Request(Clients))
      /\ awaiting' = awaiting \cup {c} /\ UNCHANGED <<tables, txn, replies>>
  BY <1>1, <1>2 DEF Submit, DbTypeOK, WriterTypeOK
<1>4. Pending \in Seq(Request(Clients)) /\ Pending' = Append(Pending, r)
  <2>1. CASE txn = None
    BY <1>3, <2>1 DEF Pending
  <2>2. CASE txn # None
    <3>1. txn.req \in Request(Clients)
      BY <2>2 DEF DbTypeOK, WriterTypeOK, Txn, Request
    <3>2. <<txn.req>> \o Append(wq, r) = Append(<<txn.req>> \o wq, r)
      BY <1>2, <1>3, <3>1
    <3> QED
      BY <1>3, <2>2, <3>1, <3>2 DEF Pending
  <2> QED
    BY <2>1, <2>2
<1>5. /\ Len(Pending') = Len(Pending) + 1
      /\ SubSeq(Pending', 1, Len(Pending)) = Pending
      /\ Pending'[Len(Pending')] = r
  BY <1>2, <1>4
<1> QED
  BY <1>2, <1>3, <1>5 DEF Store!Accept, Pending, Answers

\* An answer is taken, or its client gives up.
LEMMA LeaveStep ==
  ASSUME DbTypeOK, OneEachInv, NEW c \in Clients, Receive(c) \/ GiveUp(c)
  PROVE  Store!Leave
<1>1. c \in awaiting /\ awaiting' = awaiting \ {c} /\ UNCHANGED <<tables, wq, txn>>
  BY DEF Receive, TakeReply, GiveUp, Abandon, OneEachInv
<1>2. replies' = {a \in replies : a.to # c}
  BY DEF Receive, TakeReply, GiveUp, Abandon, OneEachInv
<1>3. Answers' = {a \in Answers : a.to # c}
  BY <1>2 DEF Answers
<1> QED
  BY <1>1, <1>3 DEF Store!Leave, Pending, Answers

\* A batch begun or continued changes nothing that can be seen.
LEMMA HiddenStep ==
  ASSUME DbTypeOK, DbTypeOK',
         \/ BeginBatch /\ Head(wq).batch \notin tables.batches
         \/ InsertNext
  PROVE  UNCHANGED Store!storeVars
<1>1. wq \in Seq(Request(Clients))
  BY DEF DbTypeOK, WriterTypeOK
<1>2. UNCHANGED <<tables, awaiting, replies>>
  BY DEF BeginBatch, InsertNext
<1>3. CASE BeginBatch /\ Head(wq).batch \notin tables.batches
  <2>1. /\ txn = None /\ txn'.req = Head(wq) /\ wq' = Tail(wq) /\ wq # << >>
        /\ txn' # None
    <3>1. Head(wq) \in BatchReq(Clients)
      BY <1>3, HeadType DEF BeginBatch, Serving, Request, BatchReq, StatusReq, IdReq,
                            OtherReq, DbTypeOK
    <3>2. txn' = [req |-> Head(wq), next |-> 1, dups |-> 0,
                  work |-> [tables EXCEPT !.batches = @ \cup {Head(wq).batch}]]
      BY <1>3 DEF BeginBatch
    <3>3. [tables EXCEPT !.batches = @ \cup {Head(wq).batch}] \in Tables
      BY <3>1 DEF BatchReq, Tables, DbTypeOK, WriterTypeOK
    <3>4. txn' \in Txn(Clients)
      BY <3>1, <3>2, <3>3 DEF Txn
    <3> QED
      BY <1>3, <3>2, <3>4, NoTxnAssumption DEF BeginBatch, Serving
  <2>2. <<Head(wq)>> \o Tail(wq) = wq
    BY <1>1, <2>1
  <2>3. Pending' = Pending
    BY <2>1, <2>2 DEF Pending
  <2> QED
    BY <1>2, <2>3 DEF Store!storeVars, Pending, Answers
<1>4. CASE InsertNext
  <2>1. txn \in Txn(Clients) /\ txn # None
    BY <1>4 DEF InsertNext, DbTypeOK, WriterTypeOK
  <2>2. txn' \in Txn(Clients)
    BY <1>4, InsertedTxn DEF DbTypeOK
  <2>3. txn'.req = txn.req
    BY <1>4, <2>1 DEF InsertNext, Txn
  <2>4. txn' # None /\ wq' = wq
    BY <1>4, <2>2, NoTxnAssumption DEF InsertNext
  <2>5. Pending' = Pending
    BY <2>1, <2>3, <2>4 DEF Pending
  <2> QED
    BY <1>2, <2>5 DEF Store!storeVars, Pending, Answers
<1> QED
  BY <1>3, <1>4

\* The two kinds of request that change a row do what AtomicStore says.
LEMMA RowStep ==
  ASSUME DbTypeOK, UpdateRow \/ CompleteRow \/ AcctFails
  PROVE  Store!Serve
<1> DEFINE r == Head(wq)
<1>1. /\ txn = None /\ txn' = None /\ wq # << >> /\ wq' = Tail(wq)
      /\ UNCHANGED awaiting
  BY DEF UpdateRow, CompleteRow, AcctFails, Serving
<1>2. ASSUME NEW res \in Result, res # "Ok", Answer(r.from, res, 0), UNCHANGED tables
      PROVE  Store!Serve
  BY <1>1, <1>2, ServedStep
<1>3. ASSUME Answer(r.from, "Ok", 0), Store!Stored(tables, tables', r)
      PROVE  Store!Serve
  BY <1>1, <1>3, ServedStep DEF Result
<1>4. CASE UpdateRow
  <2>1. r.op \in {"UpdateStatus", "UpdateStatusWithId"}
    BY <1>4 DEF UpdateRow, Serving
  <2>2. ASSUME NEW i \in Targets(tables, r), RowOK(tables, i, Revised(tables.envs[i], r)),
               tables' = [tables EXCEPT !.envs[i] = Revised(tables.envs[i], r)]
        PROVE  Store!Stored(tables, tables', r)
    BY <2>1, <2>2, SameOperators DEF Store!Stored, Store!RowStored
  <2> QED
    BY <1>2, <1>3, <1>4, <2>2 DEF UpdateRow, Result
<1>5. CASE CompleteRow
  <2>1. ASSUME NEW i \in Targets(tables, r), r.op = "CompleteEnvelope",
               r.gid \notin tables.pdfs,
               RowOK(tables, i, [tables.envs[i] EXCEPT !.status = r.status]),
               tables' = [tables EXCEPT !.envs[i].status = r.status,
                                        !.pdfs = @ \cup {r.gid}]
        PROVE  Store!Stored(tables, tables', r)
    BY <2>1, SameOperators DEF Store!Stored, Store!CompletionStored
  <2> QED
    BY <1>2, <1>3, <1>5, <2>1 DEF CompleteRow, Serving, Result
<1>6. CASE AcctFails
  BY <1>2, <1>6 DEF AcctFails, Result
<1> QED
  BY <1>4, <1>5, <1>6

LEMMA CommitStep ==
  ASSUME DbTypeOK, TxnStoredInv, CommitBatch
  PROVE  Store!Serve
<1>1. txn \in Txn(Clients) /\ txn # None
  BY DEF CommitBatch, DbTypeOK, WriterTypeOK
<1> DEFINE r == txn.req
<1>2. r.recs \in Seq(Ssns) /\ txn.next \in Nat /\ r.op = "NewBatch"
  BY <1>1 DEF Txn, BatchReq
<1>3. Before(r.recs, txn.next) = Range(r.recs)
  <2>1. \A k \in DOMAIN r.recs : k < txn.next
    BY <1>2 DEF CommitBatch
  <2> QED
    BY <2>1 DEF Before, Range
<1>4. StoredUpTo(tables, tables', r.batch, Range(r.recs))
  BY <1>1, <1>3 DEF TxnStoredInv, CommitBatch
<1> HIDE DEF r
<1>5. Store!BatchStored(tables, tables', r)
  <2>1. Store!Range(r.recs) = Range(r.recs)
    BY DEF Store!Range, Range
  <2> QED
    BY <1>4, <2>1, SameOperators DEF Store!BatchStored, StoredUpTo
<1>6. Store!Stored(tables, tables', r)
  BY <1>2, <1>5 DEF Store!Stored
<1> QED
  BY <1>1, <1>6, ServedStep DEF r, CommitBatch, Result

LEMMA StepRefines ==
  ASSUME DbInv, DbTypeOK', [DbNext]_dbVars
  PROVE  [Store!Serve \/ Store!Accept \/ Store!Leave \/ Store!Restart]_Store!storeVars
<1>1. ASSUME NEW c \in Clients, Send(c)
      PROVE  Store!Accept
  BY <1>1, SendStep DEF DbInv
<1>2. ASSUME NEW c \in Clients, Receive(c) \/ GiveUp(c)
      PROVE  Store!Leave
  BY <1>2, LeaveStep DEF DbInv
<1>3. CASE BeginBatch
  <2>1. CASE Head(wq).batch \notin tables.batches
    BY <1>3, <2>1, HiddenStep DEF DbInv
  <2>2. CASE Head(wq).batch \in tables.batches
    <3>1. Store!Serve
      BY <1>3, <2>2, ServedStep DEF BeginBatch, Serving, Result, DbInv
    <3> QED
      BY <3>1
  <2> QED
    BY <2>1, <2>2
<1>4. CASE InsertNext
  BY <1>4, HiddenStep DEF DbInv
<1>5. CASE CommitBatch
  BY <1>5, CommitStep DEF DbInv
<1>6. CASE UpdateRow \/ CompleteRow \/ AcctFails
  BY <1>6, RowStep DEF DbInv
<1>7. CASE WriteFails
  <2>1. Store!Serve
    BY <1>7, ServedStep DEF WriteFails, Result, DbInv
  <2> QED
    BY <2>1
<1>8. CASE WriterCrash
  <2>1. Store!Restart
    BY <1>8 DEF WriterCrash, Store!Restart
  <2> QED
    BY <2>1
<1>9. CASE AllServed \/ UNCHANGED dbVars
  BY <1>9 DEF AllServed, dbVars, writerVars, Store!storeVars
<1> QED
  BY <1>1, <1>2, <1>3, <1>4, <1>5, <1>6, <1>7, <1>8, <1>9 DEF DbNext, WriterStep

LEMMA InitRefines ==
  ASSUME DbInit
  PROVE  DbInv /\ Store!StoreInit
<1>1. DbTypeOK
  BY WriterInitType DEF DbInit, DbTypeOK
<1>2. OneEachInv /\ TxnStoredInv
  BY DEF DbInit, WriterInit, OneEachInv, TxnStoredInv
<1>3. Store!StoreInit
  BY SameOperators DEF DbInit, WriterInit, Store!StoreInit
<1> QED
  BY <1>1, <1>2, <1>3 DEF DbInv

(***************************************************************************)
(* The writer, with its transactions of many steps, its oneshot channels   *)
(* and its crashes, implements AtomicStore, whatever the clients send.     *)
(***************************************************************************)
THEOREM WriterIsAtomic == DbSpec => ImplementsStore
<1>1. DbInit => DbInv /\ Store!StoreInit
  BY InitRefines
<1>2. DbInv /\ [DbNext]_dbVars => DbInv'
  BY DbNextType, NextOneEach, NextTxnStored DEF DbInv
<1>3. DbInv /\ DbInv' /\ [DbNext]_dbVars =>
        [Store!Serve \/ Store!Accept \/ Store!Leave \/ Store!Restart]_Store!storeVars
  BY StepRefines DEF DbInv
<1> QED
  BY <1>1, <1>2, <1>3, PTL DEF DbSpec, ImplementsStore, Store!StoreSpec

-----------------------------------------------------------------------------
(***************************************************************************)
(* The pages.                                                              *)
(***************************************************************************)

\* t relates finitely many people to each batch, each of whom has a row.
Placed(t) ==
  \A b \in Batches : /\ IsFiniteSet(People(t, b))
                     /\ \A s \in People(t, b) : Envelopes(t, s) # {}

PlacedInv == Placed(tables) /\ (txn # None => Placed(txn.work))

LEMMA PlacedEverywhere ==
  ASSUME NEW t \in Tables, Placed(t), NEW u,
         u.relat = t.relat,
         \A i \in DOMAIN t.envs : i \in DOMAIN u.envs /\ u.envs[i].ssn = t.envs[i].ssn
  PROVE  Placed(u)
<1> SUFFICES ASSUME NEW b \in Batches
             PROVE  /\ IsFiniteSet(People(u, b))
                    /\ \A s \in People(u, b) : Envelopes(u, s) # {}
  BY DEF Placed
<1>1. People(u, b) = People(t, b)
  BY DEF People
<1>2. \A s \in People(t, b) : Envelopes(t, s) # {}
  BY DEF Placed
<1>3. \A s \in People(t, b) : Envelopes(u, s) # {}
  BY <1>2 DEF Envelopes
<1> QED
  BY <1>1, <1>3 DEF Placed

LEMMA RecordPlaced ==
  ASSUME NEW t \in Tables, Placed(t),
         NEW b \in Batches, NEW s \in Ssns, NEW d \in Clock(t)
  PROVE  Placed(InsertRecord(t, b, s, d))
<1> SUFFICES ASSUME NEW u, u = InsertRecord(t, b, s, d)
             PROVE  Placed(u)
  OBVIOUS
<1> DEFINE n == Len(t.envs) + 1
<1>1. /\ u.relat = t.relat \cup {<<b, s>>}
      /\ \/ DupEnvelope(t, s, d) /\ u.envs = t.envs
         \/ /\ ~ DupEnvelope(t, s, d)
            /\ DOMAIN u.envs = DOMAIN t.envs \cup {n}
            /\ n \notin DOMAIN t.envs
            /\ \A i \in DOMAIN t.envs : u.envs[i] = t.envs[i]
            /\ u.envs[n] = NewRow(s, d)
  BY RecordRows
<1> HIDE DEF n
<1>2. \A i \in DOMAIN t.envs : i \in DOMAIN u.envs /\ u.envs[i] = t.envs[i]
  BY <1>1
<1>3. Envelopes(u, s) # {}
  <2>1. CASE DupEnvelope(t, s, d) /\ u.envs = t.envs
    BY <2>1 DEF DupEnvelope, Envelopes
  <2>2. CASE n \in DOMAIN u.envs /\ u.envs[n] = NewRow(s, d)
    BY <2>2, NewRowActive DEF Envelopes
  <2> QED
    BY <1>1, <2>1, <2>2
<1>4. ASSUME NEW c \in Batches
      PROVE  IsFiniteSet(People(u, c))
  <2>1. IsFiniteSet(People(t, c))
    BY DEF Placed
  <2>2. People(u, c) = People(t, c) \/ People(u, c) = People(t, c) \cup {s}
    BY <1>1 DEF People
  <2> QED
    BY <2>1, <2>2, FS_AddElement
<1>5. ASSUME NEW c \in Batches, NEW p \in People(u, c)
      PROVE  Envelopes(u, p) # {}
  <2>1. p = s \/ p \in People(t, c)
    BY <1>1 DEF People
  <2>2. CASE p \in People(t, c)
    <3>1. Envelopes(t, p) # {}
      BY <2>2 DEF Placed
    <3> QED
      BY <1>2, <3>1 DEF Envelopes
  <2> QED
    BY <1>3, <2>1, <2>2
<1> QED
  BY <1>4, <1>5 DEF Placed

LEMMA NextPlaced ==
  ASSUME DbTypeOK, PlacedInv, [DbNext]_dbVars
  PROVE  PlacedInv'
<1>1. tables \in Tables
  BY DEF DbTypeOK, WriterTypeOK
<1>2. CASE UNCHANGED <<tables, txn>>
  BY <1>2 DEF PlacedInv, Placed, People, Envelopes
<1>3. ASSUME txn' = None, NEW u, u = tables', Placed(u)
      PROVE  PlacedInv'
  BY <1>3 DEF PlacedInv, Placed, People, Envelopes
<1>4. ASSUME UNCHANGED tables, NEW u, u = txn'.work, Placed(u)
      PROVE  PlacedInv'
  BY <1>4 DEF PlacedInv, Placed, People, Envelopes
<1>5. CASE BeginBatch
  <2> DEFINE r == Head(wq)
             work == [tables EXCEPT !.batches = @ \cup {r.batch}]
  <2>1. CASE UNCHANGED txn
    BY <1>2, <1>5, <2>1 DEF BeginBatch
  <2>2. CASE txn' = [req |-> r, next |-> 1, dups |-> 0, work |-> work]
    <3>1. txn'.work = work /\ UNCHANGED tables
      BY <1>5, <2>2 DEF BeginBatch
    <3>2. work.envs = tables.envs /\ work.relat = tables.relat
      BY <1>1 DEF Tables
    <3> HIDE DEF r, work
    <3>3. Placed(work)
      BY <1>1, <3>2, PlacedEverywhere DEF PlacedInv
    <3> QED
      BY <1>4, <3>1, <3>3
  <2> QED
    BY <1>5, <2>1, <2>2 DEF BeginBatch
<1>6. CASE InsertNext
  <2>1. txn \in Txn(Clients) /\ txn # None
    BY <1>6 DEF InsertNext, DbTypeOK, WriterTypeOK
  <2>2. PICK b, s, d : /\ b = txn.req.batch /\ s = txn.req.recs[txn.next]
                       /\ d \in Clock(txn.work)
                       /\ txn'.work = InsertRecord(txn.work, b, s, d)
    BY <1>6, <2>1 DEF InsertNext, Txn
  <2>3. b \in Batches /\ s \in Ssns /\ txn.work \in Tables
    BY <1>6, <2>1, <2>2 DEF InsertNext, Txn, BatchReq
  <2>4. Placed(txn.work)
    BY <2>1 DEF PlacedInv
  <2>5. Placed(InsertRecord(txn.work, b, s, d))
    BY <2>2, <2>3, <2>4, RecordPlaced
  <2> QED
    BY <1>4, <1>6, <2>2, <2>5 DEF InsertNext
<1>7. CASE CommitBatch
  BY <1>3, <1>7 DEF CommitBatch, PlacedInv
<1>8. CASE UpdateRow \/ CompleteRow
  <2>1. txn' = None
    BY <1>8 DEF UpdateRow, CompleteRow, Serving
  <2>2. CASE UNCHANGED tables
    BY <1>3, <2>1, <2>2 DEF PlacedInv
  <2>3. ASSUME NEW i \in DOMAIN tables.envs, NEW e, e.ssn = tables.envs[i].ssn,
               tables'.envs = [tables.envs EXCEPT ![i] = e], tables'.relat = tables.relat
        PROVE  PlacedInv'
    <3>1. PICK u : u = tables'
      OBVIOUS
    <3>2. Placed(u)
      BY <1>1, <2>3, <3>1, PlacedEverywhere DEF PlacedInv
    <3> QED
      BY <1>3, <2>1, <3>1, <3>2
  <2>4. CASE UpdateRow
    <3>1. ASSUME NEW i \in Targets(tables, Head(wq)),
                 NEW e, e = Revised(tables.envs[i], Head(wq)),
                 tables' = [tables EXCEPT !.envs[i] = e]
          PROVE  PlacedInv'
      <4>1. i \in DOMAIN tables.envs /\ tables.envs[i] \in Row
        BY <1>1 DEF Targets, Tables
      <4>2. e.ssn = tables.envs[i].ssn
        BY <3>1, <4>1 DEF Revised, Row
      <4>3. /\ tables'.envs = [tables.envs EXCEPT ![i] = e]
            /\ tables'.relat = tables.relat
        BY <1>1, <3>1 DEF Tables
      <4> QED
        BY <2>3, <4>1, <4>2, <4>3
    <3> QED
      BY <2>2, <2>4, <3>1 DEF UpdateRow
  <2>5. CASE CompleteRow
    <3>1. ASSUME NEW i \in Targets(tables, Head(wq)),
                 tables' = [tables EXCEPT !.envs[i].status = Head(wq).status,
                                          !.pdfs = @ \cup {Head(wq).gid}]
          PROVE  PlacedInv'
      <4>1. i \in DOMAIN tables.envs /\ tables.envs[i] \in Row
        BY <1>1 DEF Targets, Tables
      <4>2. PICK e : e = [tables.envs[i] EXCEPT !.status = Head(wq).status]
        OBVIOUS
      <4>3. e.ssn = tables.envs[i].ssn
        BY <4>1, <4>2 DEF Row
      <4>4. /\ tables'.envs = [tables.envs EXCEPT ![i] = e]
            /\ tables'.relat = tables.relat
        BY <1>1, <3>1, <4>1, <4>2 DEF Tables
      <4> QED
        BY <2>3, <4>1, <4>3, <4>4
    <3> QED
      BY <2>2, <2>5, <3>1 DEF CompleteRow
  <2> QED
    BY <1>8, <2>4, <2>5
<1>9. CASE WriteFails \/ WriterCrash
  BY <1>2, <1>3, <1>9 DEF WriteFails, WriterCrash, PlacedInv
<1>10. CASE AllServed \/ UNCHANGED dbVars \/ AcctFails
            \/ \E c \in Clients : Send(c) \/ Receive(c) \/ GiveUp(c)
  BY <1>2, <1>10 DEF AllServed, AcctFails, dbVars, writerVars, Send, Submit, Receive, TakeReply,
                     GiveUp
<1> QED
  BY <1>5, <1>6, <1>7, <1>8, <1>9, <1>10 DEF DbNext, WriterStep

\* A finite set sorted three ways has as many members as the three parts.
LEMMA ThreeParts ==
  ASSUME NEW S, IsFiniteSet(S), NEW A, NEW B, NEW C, S = A \cup B \cup C,
         A \cap B = {}, A \cap C = {}, B \cap C = {}
  PROVE  Cardinality(S) = Cardinality(A) + Cardinality(B) + Cardinality(C)
<1>1. IsFiniteSet(A) /\ IsFiniteSet(B) /\ IsFiniteSet(C)
  BY FS_Subset
<1>2. /\ Cardinality(A) \in Nat /\ Cardinality(B) \in Nat /\ Cardinality(C) \in Nat
      /\ Cardinality({}) = 0
  BY <1>1, FS_CardinalityType, FS_EmptySet
<1>3. /\ IsFiniteSet(A \cup B)
      /\ Cardinality(A \cup B) = Cardinality(A) + Cardinality(B) - Cardinality(A \cap B)
  BY <1>1, FS_Union, Zenon
<1>4. Cardinality(A \cap B) = 0
  BY <1>2, Zenon
<1>5. Cardinality((A \cup B) \cap C) = 0
  <2>1. (A \cup B) \cap C = {}
    OBVIOUS
  <2> QED
    BY <1>2, <2>1, Zenon
<1>6. Cardinality((A \cup B) \cup C) =
        Cardinality(A \cup B) + Cardinality(C) - Cardinality((A \cup B) \cap C)
  BY <1>1, <1>3, FS_Union, Zenon
<1>7. Cardinality(S) = Cardinality((A \cup B) \cup C)
  OBVIOUS
<1> QED
  BY <1>2, <1>3, <1>4, <1>5, <1>6, <1>7

\* The overview sorts the people of a batch by the status of their last envelope.
LEMMA PlacedAreShown ==
  ASSUME tables \in Tables, PlacedInv
  PROVE  EveryoneIsShown
<1> SUFFICES ASSUME NEW b \in tables.batches, People(tables, b) # {}
             PROVE  /\ b \in DOMAIN ActiveBatches(tables)
                    /\ DOMAIN Batch(tables, b) = People(tables, b)
                    /\ LET sum  == ActiveBatches(tables)[b]
                           rest == {s \in People(tables, b) :
                                      Last(tables, s).status \in {None, "completed"}}
                       IN /\ sum.total = Cardinality(People(tables, b))
                          /\ sum.total = sum.working + sum.err + Cardinality(rest)
  BY DEF EveryoneIsShown
<1> DEFINE P == People(tables, b)
           working == {s \in P : Working(tables, s)}
           err == {s \in P : Failed(tables, s)}
           rest == {s \in P : Last(tables, s).status \in {None, "completed"}}
<1>1. b \in Batches
  BY DEF Tables
<1>2. IsFiniteSet(P) /\ Shown(tables, b) = P
  BY <1>1 DEF PlacedInv, Placed, Shown
<1>3. /\ b \in DOMAIN ActiveBatches(tables)
      /\ ActiveBatches(tables)[b] = Summary(tables, b)
      /\ DOMAIN Batch(tables, b) = P
  BY <1>2 DEF ActiveBatches, Batch
<1>4. /\ Summary(tables, b).total = Cardinality(P)
      /\ Summary(tables, b).working = Cardinality(working)
      /\ Summary(tables, b).err = Cardinality(err)
  BY <1>2 DEF Summary
<1>5. /\ P = working \cup err \cup rest
      /\ working \cap err = {} /\ working \cap rest = {} /\ err \cap rest = {}
  BY NoneAssumption DEF Working, Failed, Terminal, Status
<1> HIDE DEF P, working, err, rest
<1>6. Cardinality(P) = Cardinality(working) + Cardinality(err) + Cardinality(rest)
  BY <1>2, <1>5, ThreeParts
<1> QED
  BY <1>3, <1>4, <1>6 DEF P, rest

(***************************************************************************)
(* Every person of every batch is on the pages, in every committed state:  *)
(* a record whose envelope row was refused belongs to a person who has     *)
(* another, no UPDATE moves a row to someone else, and the overview's      *)
(* counts add up.                                                          *)
(***************************************************************************)
THEOREM EveryoneStaysShown == DbSpec => []EveryoneIsShown
<1>1. DbInit => DbTypeOK /\ PlacedInv
  <2> SUFFICES ASSUME DbInit PROVE DbTypeOK /\ PlacedInv
    OBVIOUS
  <2>1. tables = EmptyTables /\ txn = None
    BY DEF DbInit, WriterInit
  <2>2. \A b : People(tables, b) = {}
    BY <2>1 DEF People, EmptyTables
  <2>3. Placed(tables)
    BY <2>2, FS_EmptySet DEF Placed
  <2> QED
    BY <2>1, <2>3, WriterInitType DEF DbInit, DbTypeOK, PlacedInv
<1>2. DbTypeOK /\ PlacedInv /\ [DbNext]_dbVars => (DbTypeOK /\ PlacedInv)'
  BY DbNextType, NextPlaced
<1>3. DbTypeOK /\ PlacedInv => EveryoneIsShown
  BY PlacedAreShown DEF DbTypeOK, WriterTypeOK
<1> QED
  BY <1>1, <1>2, <1>3, PTL DEF DbSpec
=============================================================================
