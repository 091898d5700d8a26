------------------------- MODULE SendPipelineProofs -------------------------
(***************************************************************************)
(* Theorems about SendPipeline, for any number of requests, rows, batches  *)
(* and faults: the work list of the processor, and the envelopes it has    *)
(* DocuSign create.  The lemmas about single steps hold for a writer with  *)
(* more clients C and with writes O of theirs by envelope id in its queue: *)
(* ServerProofs cites them for the whole server.                           *)
(***************************************************************************)
EXTENDS SendPipeline, DbWriterProofs

(***************************************************************************)
(* SendTypeOK and SenderInv with other clients beside the sender's.        *)
(***************************************************************************)
SendTypes(C) == SendClients \subseteq C /\ WriterTypeOK(C) /\ SendStateOK

OtherWrite(r, O) == r \in O /\ r.op = "UpdateStatus" /\ r.from \notin SendClients

QueueWith(O) ==
  /\ \A k \in DOMAIN wq :
       \/ wq[k].op = "NewBatch" /\ wq[k].from \in Posts
       \/ OtherWrite(wq[k], O)
       \/ /\ IsIdWrite(k)
          /\ wq[k].from = wq[k].id
          /\ wq[k].id \in RowIds \cap Unsent(tables)
          /\ job[wq[k].id] = "writing" \/ nbp = "dead"
          /\ \A a \in replies : a.to # wq[k].id
  /\ \A k, n \in DOMAIN wq :
       IsIdWrite(k) /\ IsIdWrite(n) /\ wq[k].id = wq[n].id => k = n

SenderWith(O) == QueueWith(O) /\ JobInv /\ ReplyInv /\ TxnInv

LEMMA AloneTypes == SendTypeOK <=> SendTypes(SendClients)
BY DEF SendTypeOK, SendTypes

LEMMA AloneSender == SenderInv <=> SenderWith({})
BY DEF SenderInv, SenderWith, QueueInv, QueueWith, OtherWrite, IsIdWrite

(***************************************************************************)
(* Type correctness.                                                       *)
(***************************************************************************)

LEMMA SendInitType ==
  ASSUME Init, NEW C, SendClients \subseteq C PROVE SendTypes(C)
<1>1. WriterTypeOK(C)
  BY WriterInitType DEF Init
<1>2. SendStateOK
  <2>1. posts \in [Posts -> Post]
    <3>1. << >> \in Seq(Ssns)
      OBVIOUS
    <3> QED
      BY <3>1 DEF Init, Post
  <2>2. copies \in Seq(RowIds)
    BY DEF Init
  <2> QED
    BY <2>1, <2>2 DEF Init, SendStateOK, JobState
<1> QED
  BY <1>1, <1>2 DEF SendTypes

\* The request a job or a handler submits is a request of one of its clients.
LEMMA WriteType ==
  ASSUME NEW C, SendTypes(C), NEW i \in RowIds, NEW g \in Nat \cup {None},
         NEW st \in Status, NEW err \in BOOLEAN, Write(i, g, st, err)
  PROVE  /\ WriterTypeOK(C)'
         /\ job' \in [RowIds -> JobState]
         /\ got' \in [RowIds -> Nat \cup {None}]
<1> DEFINE r == [op |-> "UpdateStatusWithId", id |-> i, gid |-> g, status |-> st,
                 reason |-> FALSE, apiErr |-> err, from |-> i]
<1>1. i \in Nat /\ i \in C
  BY MaxRowsAssumption DEF RowIds, SendClients, SendTypes
<1>2. r \in Request(C)
  BY <1>1 DEF Request, IdReq
<1>3. WriterTypeOK(C)'
  <2>1. Submit(r)
    BY DEF Write
  <2> HIDE DEF r
  <2> QED
    BY <1>2, <2>1, SubmitType DEF SendTypes
<1> QED
  BY <1>3 DEF Write, SendTypes, SendStateOK, JobState

LEMMA PostTypes ==
  ASSUME NEW C, SendTypes(C), NEW h \in Posts,
         PostBatch(h) \/ PostAnswered(h) \/ PostCancelled(h)
  PROVE  SendTypes(C)'
<1>1. CASE PostBatch(h)
  <2>1. PICK b \in Batches, recs \in Inputs :
          /\ Submit([op |-> "NewBatch", batch |-> b, recs |-> recs, from |-> h])
          /\ posts' = [posts EXCEPT ![h] = [pc |-> "waiting", batch |-> b,
                                            recs |-> recs, dups |-> 0]]
    BY <1>1 DEF PostBatch
  <2> DEFINE r == [op |-> "NewBatch", batch |-> b, recs |-> recs, from |-> h]
  <2>2. recs \in Seq(Ssns)
    BY InputsAssumption
  <2>3. r \in Request(C)
    BY <2>2 DEF Request, BatchReq, SendClients, SendTypes
  <2>4. WriterTypeOK(C)'
    <3> HIDE DEF r
    <3>1. Submit(r)
      BY <2>1 DEF r
    <3> QED
      BY <2>3, <3>1, SubmitType DEF SendTypes
  <2>5. posts' \in [Posts -> Post]
    BY <2>1, <2>2 DEF SendTypes, SendStateOK, Post
  <2> QED
    BY <1>1, <2>4, <2>5 DEF PostBatch, SendTypes, SendStateOK
<1>2. CASE PostAnswered(h)
  <2>1. PICK a \in replies :
          /\ TakeReply(a)
          /\ posts' = [posts EXCEPT ![h].dups = a.dups,
                                    ![h].pc = CASE a.res = "Ok"        -> "201"
                                                [] a.res = "Duplicate" -> "409"
                                                [] OTHER               -> "500"]
          /\ nbTok' = (nbTok \/ (a.res = "Ok" /\ nbp # "dead"))
    BY <1>2 DEF PostAnswered
  <2>2. WriterTypeOK(C)'
    BY <2>1, TakeReplyType DEF SendTypes
  <2> DEFINE pc == CASE a.res = "Ok"        -> "201"
                     [] a.res = "Duplicate" -> "409"
                     [] OTHER               -> "500"
  <2>3. a.dups \in Nat
    BY DEF SendTypes, WriterTypeOK
  <2>4. pc \in {"201", "409", "500"}
    OBVIOUS
  <2>5. posts' \in [Posts -> Post]
    <3>1. posts' = [posts EXCEPT ![h].dups = a.dups, ![h].pc = pc]
      BY <2>1
    <3> HIDE DEF pc
    <3> QED
      BY <2>3, <2>4, <3>1 DEF SendTypes, SendStateOK, Post
  <2>6. nbTok' \in BOOLEAN
    BY <2>1
  <2> QED
    BY <1>2, <2>2, <2>5, <2>6 DEF PostAnswered, SendTypes, SendStateOK
<1>3. CASE PostCancelled(h)
  <2>1. /\ awaiting' \subseteq C
        /\ replies' \subseteq [to : C, res : Result, dups : Nat]
    BY <1>3, AbandonType DEF PostCancelled, SendTypes
  <2>2. WriterTypeOK(C)'
    BY <1>3, <2>1 DEF PostCancelled, SendTypes, WriterTypeOK
  <2>3. posts' \in [Posts -> Post]
    BY <1>3 DEF PostCancelled, SendTypes, SendStateOK, Post
  <2> QED
    BY <1>3, <2>2, <2>3 DEF PostCancelled, SendTypes, SendStateOK
<1> QED
  BY <1>1, <1>2, <1>3

LEMMA ProcessorTypes ==
  ASSUME NEW C, SendTypes(C), Wake \/ ReadUnsent \/ ReadFails \/ AllSent
  PROVE  SendTypes(C)'
<1>1. CASE Wake
  BY <1>1 DEF Wake, writerVars, SendTypes, WriterTypeOK, SendStateOK
<1>2. CASE ReadUnsent
  BY <1>2 DEF ReadUnsent, writerVars, SendTypes, WriterTypeOK, SendStateOK, JobState
<1>3. CASE ReadFails
  BY <1>3 DEF ReadFails, SendTypes, WriterTypeOK, SendStateOK
<1>4. CASE AllSent
  BY <1>4 DEF AllSent, writerVars, SendTypes, WriterTypeOK, SendStateOK
<1> QED
  BY <1>1, <1>2, <1>3, <1>4

LEMMA JobTypes ==
  ASSUME NEW C, SendTypes(C), NEW i \in RowIds, Job(i)
  PROVE  SendTypes(C)'
<1>1. CASE StartJob(i)
  BY <1>1 DEF StartJob, writerVars, SendTypes, WriterTypeOK, SendStateOK, JobState
<1>2. CASE DocusignCreates(i)
  <2>1. Len(copies) + 1 \in Nat /\ copies' \in Seq(RowIds)
    BY <1>2 DEF DocusignCreates, SendTypes, SendStateOK
  <2> QED
    BY <1>2, <2>1
    DEF DocusignCreates, writerVars, SendTypes, WriterTypeOK, SendStateOK, JobState
<1>3. CASE RecordSent(i)
  <2>1. got[i] \in Nat \cup {None}
    BY DEF SendTypes, SendStateOK
  <2>2. "sent" \in Status
    BY DEF Status
  <2>3. Write(i, got[i], "sent", FALSE)
    BY <1>3 DEF RecordSent
  <2> QED
    BY <1>3, <2>1, <2>2, <2>3, WriteType DEF RecordSent, SendTypes, SendStateOK
<1>4. CASE ConnectionError(i)
  <2>1. "cancelled" \in Status
    BY DEF Status, Terminal
  <2>2. Write(i, None, "cancelled", TRUE)
    BY <1>4 DEF ConnectionError
  <2>3. orphans' \subseteq Nat
    BY <1>4 DEF ConnectionError, SendTypes, SendStateOK
  <2> QED
    BY <1>4, <2>1, <2>2, <2>3, WriteType DEF ConnectionError, SendTypes, SendStateOK
<1>5. CASE NothingRecorded(i)
  BY <1>5 DEF NothingRecorded, writerVars, SendTypes, WriterTypeOK, SendStateOK, JobState
<1>6. CASE RateLimited(i) \/ PostAgain(i)
  BY <1>6 DEF RateLimited, PostAgain, writerVars, SendTypes, WriterTypeOK,
              SendStateOK, JobState
<1>7. CASE Written(i)
  <2>1. WriterTypeOK(C)'
    BY <1>7, TakeReplyType DEF Written, SendTypes
  <2> QED
    BY <1>7, <2>1 DEF Written, SendTypes, SendStateOK, JobState
<1> QED
  BY <1>1, <1>2, <1>3, <1>4, <1>5, <1>6, <1>7 DEF Job

(***************************************************************************)
(* What a panic of the processor and the death of the token task come to.  *)
(***************************************************************************)
Unmoved == UNCHANGED <<tables, wq, txn, posts, copies, tried>>

LEMMA AskersEnd ==
  ASSUME ProcessorPanics \/ TokenTaskDies
  PROVE  (Unwinds \/ Strands) /\ Unmoved
BY DEF ProcessorPanics, TokenTaskDies, TaskDies, Unmoved

LEMMA FaultTypes ==
  ASSUME NEW C, SendTypes(C), ProcessorPanics \/ WriteLost \/ TokenTaskDies \/ Crash
  PROVE  SendTypes(C)'
<1>1. CASE ProcessorPanics \/ TokenTaskDies
  <2>1. faults' \in Nat /\ auth' \in {"up", "dead"}
    BY <1>1 DEF ProcessorPanics, TokenTaskDies, TaskDies, SendTypes, WriterTypeOK,
                SendStateOK
  <2>2. CASE Unwinds
    <3>1. /\ awaiting' \subseteq C
          /\ replies' \subseteq [to : C, res : Result, dups : Nat]
      BY <2>2, AbandonType DEF Unwinds, SendTypes
    <3>2. WriterTypeOK(C)'
      BY <1>1, <2>1, <3>1, AskersEnd DEF Unmoved, SendTypes, WriterTypeOK
    <3>3. orphans' \subseteq Nat
      BY <2>2 DEF Unwinds, SendTypes, SendStateOK
    <3> QED
      BY <1>1, <2>1, <2>2, <3>2, <3>3, AskersEnd
      DEF Unmoved, Unwinds, SendTypes, SendStateOK, JobState
  <2>3. CASE Strands
    <3>1. WriterTypeOK(C)'
      BY <1>1, <2>1, <2>3, AskersEnd DEF Unmoved, Strands, SendTypes, WriterTypeOK
    <3>2. job' \in [RowIds -> JobState] /\ nbp' \in {nbp, "stuck"}
      BY <2>3 DEF Strands, SendTypes, SendStateOK, JobState
    <3> QED
      BY <1>1, <2>1, <2>3, <3>1, <3>2, AskersEnd
      DEF Unmoved, Strands, SendTypes, SendStateOK
  <2> QED
    BY <1>1, <2>2, <2>3, AskersEnd
<1>2. CASE WriteLost
  <2>1. WriterTypeOK(C)'
    BY <1>2, WriteFailsType DEF WriteLost, SendTypes
  <2>2. orphans' \subseteq Nat
    <3>1. CASE txn = None /\ Head(wq).op = "UpdateStatusWithId"
      <4>1. wq # << >>
        BY <1>2, <3>1 DEF WriteLost, WriteFails
      <4>2. Head(wq) \in Request(C)
        BY <4>1, HeadType DEF SendTypes
      <4>3. Head(wq).gid \in Nat \cup {None}
        BY <3>1, <4>2 DEF Request, BatchReq, StatusReq, IdReq, OtherReq
      <4> QED
        BY <1>2, <3>1, <4>3 DEF WriteLost, SendTypes, SendStateOK
    <3>2. CASE ~ (txn = None /\ Head(wq).op = "UpdateStatusWithId")
      BY <1>2, <3>2 DEF WriteLost, SendTypes, SendStateOK
    <3> QED
      BY <3>1, <3>2
  <2> QED
    BY <1>2, <2>1, <2>2 DEF WriteLost, SendTypes, SendStateOK
<1>3. CASE Crash
  <2>1. WriterTypeOK(C)'
    BY <1>3, WriterCrashType DEF Crash, SendTypes
  <2>2. QueuedIds \subseteq Nat \cup {None}
    <3>1. \A k \in DOMAIN wq : wq[k] \in Request(C)
      BY DEF SendTypes, WriterTypeOK
    <3>2. \A k \in DOMAIN wq : wq[k].op = "UpdateStatusWithId" =>
            wq[k].gid \in Nat \cup {None}
      BY <3>1 DEF Request, BatchReq, StatusReq, IdReq, OtherReq
    <3> QED
      BY <3>2 DEF QueuedIds
  <2>3. orphans' \subseteq Nat
    BY <1>3, <2>2 DEF Crash, SendTypes, SendStateOK
  <2>4. posts' \in [Posts -> Post]
    <3>1. ASSUME NEW h \in Posts
          PROVE  [posts[h] EXCEPT !.pc = "gone"] \in Post /\ posts[h] \in Post
      BY DEF SendTypes, SendStateOK, Post
    <3>2. posts' = [h \in Posts |-> IF posts[h].pc = "waiting"
                                     THEN [posts[h] EXCEPT !.pc = "gone"]
                                     ELSE posts[h]]
      BY <1>3 DEF Crash
    <3> QED
      BY <3>1, <3>2
  <2> QED
    BY <1>3, <2>1, <2>3, <2>4 DEF Crash, SendTypes, SendStateOK, JobState
<1> QED
  BY <1>1, <1>2, <1>3

LEMMA StutterType ==
  ASSUME NEW C, SendTypes(C), UNCHANGED vars
  PROVE  SendTypes(C)'
BY DEF vars, writerVars, sendVars, SendTypes, WriterTypeOK, SendStateOK

LEMMA NextTypes ==
  ASSUME NEW C, SendTypes(C), [Next]_vars
  PROVE  SendTypes(C)'
<1>1. CASE WriterStep /\ UNCHANGED sendVars
  BY <1>1, WriterStepType DEF sendVars, SendTypes, SendStateOK
<1>2. CASE Rest \/ UNCHANGED vars
  BY <1>2, StutterType DEF Rest
<1> QED
  BY <1>1, <1>2, PostTypes, ProcessorTypes, JobTypes, FaultTypes DEF Next, SendStep

LEMMA NextType ==
  ASSUME SendTypeOK, [Next]_vars
  PROVE  SendTypeOK'
<1>1. SendTypes(SendClients)
  BY AloneTypes
<1>2. SendTypes(SendClients)'
  BY <1>1, NextTypes
<1> QED
  BY <1>2 DEF SendTypes, SendTypeOK

(* In every reachable state every variable of the sending half of the      *)
(* server has its type, whatever the batches, the faults and the bounds.   *)
THEOREM TypeCorrect == Spec => []SendTypeOK
<1>1. Init => SendTypeOK
  BY SendInitType, AloneTypes
<1>2. SendTypeOK /\ [Next]_vars => SendTypeOK'
  BY NextType
<1> QED
  BY <1>1, <1>2, PTL DEF Spec

-----------------------------------------------------------------------------
(***************************************************************************)
(* The work list stays fresh.                                              *)
(***************************************************************************)

\* A channel with one more request, and with one less.
LEMMA AppendQueue ==
  ASSUME NEW S, NEW q \in Seq(S), NEW r \in S
  PROVE  LET p == Append(q, r) IN
         /\ Len(q) + 1 \in DOMAIN p /\ p[Len(q) + 1] = r
         /\ \A k \in DOMAIN q : k \in DOMAIN p /\ p[k] = q[k] /\ k # Len(q) + 1
         /\ \A k \in DOMAIN p : k \in DOMAIN q \/ k = Len(q) + 1
OBVIOUS

LEMMA TailQueue ==
  ASSUME NEW S, NEW q \in Seq(S), q # << >>
  PROVE  LET p == Tail(q) IN
         /\ 1 \in DOMAIN q /\ Head(q) = q[1]
         /\ \A k \in DOMAIN p : k \in Nat /\ k + 1 \in DOMAIN q /\ p[k] = q[k + 1] /\ k + 1 # 1
         /\ \A k \in DOMAIN q : k # 1 => k - 1 \in DOMAIN p /\ p[k - 1] = q[k] /\ k \in Nat
OBVIOUS

LEMMA RowIdsAndPosts ==
  /\ RowIds \cap Posts = {}
  /\ None \notin RowIds /\ None \notin Posts
BY MaxRowsAssumption, PostsAssumption, NoneAssumption DEF RowIds

LEMMA SenderInit ==
  ASSUME Init, NEW O PROVE SenderWith(O)
<1>1. DOMAIN wq = {} /\ replies = {} /\ awaiting = {} /\ txn = None
  BY DEF Init, WriterInit
<1> QED
  BY <1>1 DEF Init, SenderWith, QueueWith, JobInv, ReplyInv, TxnInv, Working

\* A request goes in behind the others; c now waits for its answer.
LEMMA PostBatchSender ==
  ASSUME NEW C, NEW O, SendTypes(C), SendTypes(C)', SenderWith(O), NEW h \in Posts, PostBatch(h)
  PROVE  SenderWith(O)'
<1>1. PICK r \in Request(C) :
        r.op = "NewBatch" /\ r.from = h /\ Submit(r)
  <2>1. PICK b \in Batches, recs \in Inputs :
          Submit([op |-> "NewBatch", batch |-> b, recs |-> recs, from |-> h])
    BY DEF PostBatch
  <2> DEFINE r == [op |-> "NewBatch", batch |-> b, recs |-> recs, from |-> h]
  <2>2. r \in Request(C)
    BY InputsAssumption DEF Request, BatchReq, SendClients, SendTypes
  <2>3. r.op = "NewBatch" /\ r.from = h
    OBVIOUS
  <2> QED
    BY <2>1, <2>2, <2>3
<1>2. /\ Len(wq) + 1 \in DOMAIN wq' /\ wq'[Len(wq) + 1] = r
      /\ \A k \in DOMAIN wq : k \in DOMAIN wq' /\ wq'[k] = wq[k] /\ k # Len(wq) + 1
      /\ \A k \in DOMAIN wq' : k \in DOMAIN wq \/ k = Len(wq) + 1
  BY <1>1, AppendQueue DEF Submit, SendTypes, WriterTypeOK
<1>3. UNCHANGED <<tables, txn, replies, nbp, job>> /\ h \notin RowIds
      /\ awaiting' = awaiting \cup {h}
  BY <1>1, RowIdsAndPosts DEF PostBatch, Submit
<1>4. QueueWith(O)'
  BY <1>1, <1>2, <1>3 DEF SenderWith, QueueWith, IsIdWrite, Unsent
<1>5. JobInv'
  BY <1>2, <1>3 DEF SenderWith, JobInv, IsIdWrite, Working, Unsent
<1> QED
  BY <1>3, <1>4, <1>5 DEF SenderWith, ReplyInv, TxnInv

\* A handler that has its answer, or stops waiting, leaves the jobs alone.
LEMMA PostLeavesSender ==
  ASSUME NEW C, NEW O, SendTypes(C), SenderWith(O),
         NEW h \in Posts, PostAnswered(h) \/ PostCancelled(h)
  PROVE  SenderWith(O)'
<1>1. /\ UNCHANGED <<tables, wq, txn, nbp, job>>
      /\ awaiting' = awaiting \ {h}
      /\ replies' \subseteq replies
      /\ \A a \in replies : a.to # h => a \in replies'
  BY DEF PostAnswered, PostCancelled, TakeReply, Abandon
<1>2. h \notin RowIds
  BY RowIdsAndPosts
<1>3. ReplyInv'
  <2>1. CASE PostCancelled(h)
    BY <1>1, <2>1 DEF PostCancelled, Abandon, SenderWith, ReplyInv
  <2>2. CASE PostAnswered(h)
    BY <1>1, <2>2 DEF PostAnswered, TakeReply, SenderWith, ReplyInv
  <2> QED
    BY <2>1, <2>2
<1>4. QueueWith(O)'
  BY <1>1 DEF SenderWith, QueueWith, IsIdWrite, Unsent
<1>5. JobInv'
  BY <1>1, <1>2 DEF SenderWith, JobInv, IsIdWrite, Working, Unsent
<1> QED
  BY <1>1, <1>3, <1>4, <1>5 DEF SenderWith, TxnInv

\* The writer answers someone else: no job is concerned.
LEMMA AnswerOther ==
  ASSUME NEW c, c \notin RowIds, NEW res, NEW dups, Answer(c, res, dups)
  PROVE  /\ replies \subseteq replies'
         /\ \A a \in replies' : a \in replies \/ a.to \notin RowIds
<1>1. [to |-> c, res |-> res, dups |-> dups].to = c
  OBVIOUS
<1> QED
  BY <1>1 DEF Answer

LEMMA AnswerPost ==
  ASSUME NEW c \in Posts, NEW res, NEW dups, Answer(c, res, dups)
  PROVE  /\ replies \subseteq replies'
         /\ \A a \in replies' : a \in replies \/ a.to \notin RowIds
<1>1. c \notin RowIds
  BY RowIdsAndPosts
<1> QED
  BY <1>1, AnswerOther

LEMMA BatchSender ==
  ASSUME NEW C, NEW O, SendTypes(C), SendTypes(C)', SenderWith(O), UNCHANGED sendVars,
         BeginBatch \/ InsertNext \/ CommitBatch
  PROVE  SenderWith(O)'
<1>0. UNCHANGED <<nbp, job>>
  BY DEF sendVars
<1>1. CASE BeginBatch
  <2>1. /\ wq # << >> /\ Head(wq).op = "NewBatch" /\ wq' = Tail(wq)
        /\ txn = None
        /\ UNCHANGED <<tables, awaiting>>
    BY <1>1 DEF BeginBatch, Serving
  <2>2. wq \in Seq(Request(C))
    BY DEF SendTypes, WriterTypeOK
  <2>3. /\ 1 \in DOMAIN wq /\ Head(wq) = wq[1]
        /\ \A k \in DOMAIN wq' : k \in Nat /\ k + 1 \in DOMAIN wq /\ wq'[k] = wq[k + 1] /\ k + 1 # 1
        /\ \A k \in DOMAIN wq : k # 1 => k - 1 \in DOMAIN wq' /\ wq'[k - 1] = wq[k] /\ k \in Nat
    BY <2>1, <2>2, TailQueue
  <2>4. Head(wq).from \in Posts
    BY <2>1, <2>3 DEF SenderWith, QueueWith, IsIdWrite, OtherWrite
  <2>5. /\ replies \subseteq replies'
        /\ \A a \in replies' : a \in replies \/ a.to \notin RowIds
    BY <1>1, <2>4, AnswerPost DEF BeginBatch
  <2>6. QueueWith(O)'
    BY <1>0, <2>1, <2>3, <2>5 DEF SenderWith, QueueWith, IsIdWrite, Unsent
  <2>7. JobInv'
    <3>1. ASSUME NEW i \in RowIds, job[i] = "writing",
                 NEW k \in DOMAIN wq, IsIdWrite(k), wq[k].id = i
          PROVE  \E n \in DOMAIN wq' : IsIdWrite(n)' /\ wq'[n].id = i
      <4>1. k # 1
        BY <2>1, <2>3, <3>1 DEF IsIdWrite
      <4> QED
        BY <2>3, <3>1, <4>1 DEF IsIdWrite
    <3> QED
      BY <1>0, <2>1, <2>5, <3>1 DEF SenderWith, JobInv, IsIdWrite, Working, Unsent
  <2>8. ReplyInv'
    BY <2>1, <2>5 DEF SenderWith, ReplyInv
  <2>9. TxnInv'
    <3>1. CASE UNCHANGED txn
      BY <2>1, <3>1 DEF TxnInv
    <3>2. CASE txn' = [req |-> Head(wq), next |-> 1, dups |-> 0,
                       work |-> [tables EXCEPT !.batches = @ \cup {Head(wq).batch}]]
      <4>1. tables \in Tables
        BY DEF SendTypes, WriterTypeOK
      <4>2. txn'.work.envs = tables.envs /\ txn'.req = Head(wq)
        BY <3>2, <4>1 DEF Tables
      <4> QED
        BY <2>1, <2>4, <4>2 DEF TxnInv
    <3> QED
      BY <1>1, <3>1, <3>2 DEF BeginBatch
  <2> QED
    BY <2>6, <2>7, <2>8, <2>9 DEF SenderWith
<1>2. CASE InsertNext
  <2>1. /\ txn # None
        /\ UNCHANGED <<tables, wq, awaiting, replies>>
    BY <1>2 DEF InsertNext
  <2>2. QueueWith(O)' /\ JobInv' /\ ReplyInv'
    BY <1>0, <2>1
    DEF SenderWith, QueueWith, JobInv, ReplyInv, IsIdWrite, Working, Unsent
  <2>3. TxnInv'
    <3> DEFINE b == txn.req.batch
               s == txn.req.recs[txn.next]
    <3>1. txn \in Txn(C) /\ txn.work.envs \in Seq(Row)
      BY <2>1 DEF SendTypes, WriterTypeOK, Txn, Tables
    <3>2. PICK d \in Clock(txn.work) :
            txn' = [txn EXCEPT !.work = InsertRecord(txn.work, b, s, d),
                               !.next = txn.next + 1,
                               !.dups = txn.dups + Duplicates(txn.work, b, s, d)]
      BY <1>2 DEF InsertNext
    <3>3. txn'.req = txn.req /\ txn'.work = InsertRecord(txn.work, b, s, d)
      BY <3>1, <3>2 DEF Txn
    <3>4. txn'.work.envs = IF DupEnvelope(txn.work, s, d) THEN txn.work.envs
                             ELSE Append(txn.work.envs, NewRow(s, d))
      BY <3>1, <3>3 DEF InsertRecord, Txn, Tables
    <3>5. \A i \in DOMAIN txn.work.envs :
            i \in DOMAIN txn'.work.envs /\ txn'.work.envs[i] = txn.work.envs[i]
      <4> DEFINE e == NewRow(s, d)
      <4> HIDE DEF e
      <4>1. txn'.work.envs = txn.work.envs \/ txn'.work.envs = Append(txn.work.envs, e)
        BY <3>4 DEF e
      <4> QED
        BY <3>1, <4>1
    <3> QED
      BY <2>1, <3>3, <3>5 DEF SenderWith, TxnInv
  <2> QED
    BY <2>2, <2>3 DEF SenderWith
<1>3. CASE CommitBatch
  <2>1. /\ txn # None /\ txn' = None /\ tables' = txn.work
        /\ UNCHANGED <<wq, awaiting>>
    BY <1>3 DEF CommitBatch
  <2>2. \A i \in Unsent(tables) : i \in Unsent(tables')
    BY <2>1 DEF SenderWith, TxnInv, Unsent
  <2>3. /\ replies \subseteq replies'
        /\ \A a \in replies' : a \in replies \/ a.to \notin RowIds
    BY <1>3, <2>1, AnswerPost DEF CommitBatch, SenderWith, TxnInv
  <2>4. QueueWith(O)'
    BY <1>0, <2>1, <2>2, <2>3 DEF SenderWith, QueueWith, IsIdWrite
  <2>5. JobInv'
    BY <1>0, <2>1, <2>2, <2>3 DEF SenderWith, JobInv, IsIdWrite, Working
  <2>6. ReplyInv' /\ TxnInv'
    BY <2>1, <2>3 DEF SenderWith, ReplyInv, TxnInv
  <2> QED
    BY <2>4, <2>5, <2>6 DEF SenderWith
<1> QED
  BY <1>1, <1>2, <1>3

\* A job's write leaves the queue and is answered, whatever became of it.
LEMMA IdWriteServed ==
  ASSUME NEW C, NEW O, SendTypes(C), SenderWith(O),
         UNCHANGED <<txn, awaiting, nbp, job>>, txn = None,
         wq # << >>, Head(wq).op = "UpdateStatusWithId", wq' = Tail(wq),
         NEW res \in Result, Answer(Head(wq).from, res, 0),
         \A i \in Unsent(tables) : i # Head(wq).id => i \in Unsent(tables')
  PROVE  SenderWith(O)'
<1> DEFINE i0 == Head(wq).id
<1>1. wq \in Seq(Request(C))
  BY DEF SendTypes, WriterTypeOK
<1>2. /\ 1 \in DOMAIN wq /\ Head(wq) = wq[1]
      /\ \A k \in DOMAIN wq' : k \in Nat /\ k + 1 \in DOMAIN wq /\ wq'[k] = wq[k + 1] /\ k + 1 # 1
      /\ \A k \in DOMAIN wq : k # 1 => k - 1 \in DOMAIN wq' /\ wq'[k - 1] = wq[k] /\ k \in Nat
  BY <1>1, TailQueue
<1>3. /\ i0 \in RowIds /\ i0 \in Unsent(tables) /\ Head(wq).from = i0
      /\ job[i0] = "writing" \/ nbp = "dead"
      /\ \A a \in replies : a.to # i0
  BY <1>2 DEF SenderWith, QueueWith, IsIdWrite, OtherWrite
<1>4. \A k \in DOMAIN wq : k # 1 /\ IsIdWrite(k) => wq[k].id # i0
  BY <1>2 DEF SenderWith, QueueWith, IsIdWrite
<1> HIDE DEF i0
<1> DEFINE a0 == [to |-> i0, res |-> res, dups |-> 0]
<1>5. /\ a0.to = i0
      /\ replies' = IF i0 \in awaiting THEN replies \cup {a0} ELSE replies
  BY <1>3 DEF Answer
<1> HIDE DEF a0
<1>6. QueueWith(O)'
  <2>1. ASSUME NEW k \in DOMAIN wq'
        PROVE  \/ wq'[k].op = "NewBatch" /\ wq'[k].from \in Posts
               \/ OtherWrite(wq'[k], O)
               \/ /\ IsIdWrite(k)'
                  /\ wq'[k].from = wq'[k].id
                  /\ wq'[k].id \in RowIds \cap Unsent(tables')
                  /\ job'[wq'[k].id] = "writing" \/ nbp' = "dead"
                  /\ \A a \in replies' : a.to # wq'[k].id
    <3>1. k + 1 \in DOMAIN wq /\ wq'[k] = wq[k + 1] /\ k + 1 # 1
      BY <1>2
    <3>2. CASE \/ wq[k + 1].op = "NewBatch" /\ wq[k + 1].from \in Posts
               \/ OtherWrite(wq[k + 1], O)
      BY <3>1, <3>2
    <3>3. CASE IsIdWrite(k + 1)
      <4>1. wq[k + 1].id # i0
        BY <1>4, <3>1, <3>3
      <4>2. /\ wq[k + 1].from = wq[k + 1].id
            /\ wq[k + 1].id \in RowIds \cap Unsent(tables)
            /\ job[wq[k + 1].id] = "writing" \/ nbp = "dead"
            /\ \A a \in replies : a.to # wq[k + 1].id
        BY <3>1, <3>3 DEF SenderWith, QueueWith, IsIdWrite, OtherWrite
      <4>3. wq[k + 1].id \in Unsent(tables')
        BY <4>1, <4>2 DEF i0
      <4> QED
        BY <1>5, <3>1, <3>3, <4>1, <4>2, <4>3 DEF IsIdWrite
    <3> QED
      BY <3>1, <3>2, <3>3 DEF SenderWith, QueueWith
  <2>2. \A k, n \in DOMAIN wq' :
          IsIdWrite(k)' /\ IsIdWrite(n)' /\ wq'[k].id = wq'[n].id => k = n
    BY <1>2 DEF SenderWith, QueueWith, IsIdWrite
  <2> QED
    BY <2>1, <2>2 DEF QueueWith
<1>7. JobInv'
  <2>1. \A i \in Working : i \in Unsent(tables')
    <3>1. i0 \notin Working
      BY <1>3 DEF SenderWith, JobInv, Working
    <3> QED
      BY <3>1 DEF SenderWith, JobInv, i0
  <2>2. ASSUME NEW i \in RowIds, job[i] = "writing"
        PROVE  \/ \E k \in DOMAIN wq' : IsIdWrite(k)' /\ wq'[k].id = i
               \/ \E a \in replies' : a.to = i
    <3>1. CASE i = i0
      BY <1>5, <2>2, <3>1 DEF SenderWith, JobInv
    <3>2. CASE i # i0
      <4>1. CASE \E a \in replies : a.to = i
        BY <1>5, <4>1
      <4>2. ASSUME NEW k \in DOMAIN wq, IsIdWrite(k), wq[k].id = i
            PROVE  \E n \in DOMAIN wq' : IsIdWrite(n)' /\ wq'[n].id = i
        <5>1. k # 1
          BY <1>2, <3>2, <4>2 DEF i0
        <5>2. k - 1 \in DOMAIN wq' /\ wq'[k - 1] = wq[k]
          BY <1>2, <5>1
        <5> QED
          BY <4>2, <5>2 DEF IsIdWrite
      <4> QED
        BY <2>2, <4>1, <4>2 DEF SenderWith, JobInv
    <3> QED
      BY <3>1, <3>2
  <2> QED
    BY <2>1, <2>2 DEF SenderWith, JobInv, Working
<1>8. ReplyInv'
  BY <1>3, <1>5 DEF SenderWith, ReplyInv
<1> QED
  BY <1>6, <1>7, <1>8 DEF SenderWith, TxnInv

\* An UPDATE by id touches that row only.
LEMMA IdUpdateTouches ==
  ASSUME NEW C, NEW O, SendTypes(C), SenderWith(O), UpdateRow,
         Head(wq).op = "UpdateStatusWithId"
  PROVE  /\ Head(wq).id \in Unsent(tables)
         /\ Len(tables'.envs) = Len(tables.envs)
         /\ \A i \in DOMAIN tables.envs :
              i # Head(wq).id => tables'.envs[i] = tables.envs[i]
<1>1. wq # << >> /\ wq \in Seq(Request(C))
  BY DEF UpdateRow, Serving, SendTypes, WriterTypeOK
<1>2. 1 \in DOMAIN wq /\ Head(wq) = wq[1]
  BY <1>1
<1>3. Head(wq).op = "UpdateStatusWithId" /\ Head(wq).id \in Unsent(tables)
  BY <1>2 DEF SenderWith, QueueWith, IsIdWrite, OtherWrite
<1>4. Targets(tables, Head(wq)) \subseteq {Head(wq).id}
  BY <1>3 DEF Targets
<1>5. tables.envs \in Seq(Row) /\ tables \in Tables
  BY DEF SendTypes, WriterTypeOK, Tables
<1>6. \/ UNCHANGED tables
      \/ \E i \in Targets(tables, Head(wq)) :
           tables' = [tables EXCEPT !.envs[i] = Revised(tables.envs[i], Head(wq))]
  BY DEF UpdateRow
<1>7. CASE UNCHANGED tables
  BY <1>3, <1>7
<1>8. ASSUME NEW i \in Targets(tables, Head(wq)), NEW e,
             tables' = [tables EXCEPT !.envs[i] = e]
      PROVE  /\ Len(tables'.envs) = Len(tables.envs)
             /\ \A j \in DOMAIN tables.envs :
                  j # Head(wq).id => tables'.envs[j] = tables.envs[j]
  <2>1. tables'.envs = [tables.envs EXCEPT ![i] = e]
    BY <1>5, <1>8 DEF Tables
  <2>2. i = Head(wq).id
    BY <1>4
  <2>3. Len([tables.envs EXCEPT ![i] = e]) = Len(tables.envs)
    BY <1>5
  <2> QED
    BY <1>5, <2>1, <2>2, <2>3
<1> QED
  BY <1>3, <1>6, <1>7, <1>8

\* Without other writes every UPDATE is one by id.
LEMMA IdWriteTouches ==
  ASSUME SendTypeOK, SenderInv, UpdateRow
  PROVE  /\ Head(wq).op = "UpdateStatusWithId"
         /\ Head(wq).id \in Unsent(tables)
         /\ Len(tables'.envs) = Len(tables.envs)
         /\ \A i \in DOMAIN tables.envs :
              i # Head(wq).id => tables'.envs[i] = tables.envs[i]
<1>1. wq # << >> /\ wq \in Seq(Request(SendClients))
  BY DEF UpdateRow, Serving, SendTypeOK, WriterTypeOK
<1>2. 1 \in DOMAIN wq /\ Head(wq) = wq[1]
  BY <1>1
<1>3. Head(wq).op = "UpdateStatusWithId"
  BY <1>2 DEF UpdateRow, Serving, SenderInv, QueueInv, IsIdWrite
<1>4. SendTypes(SendClients) /\ SenderWith({})
  BY AloneTypes, AloneSender
<1> QED
  BY <1>3, <1>4, IdUpdateTouches

\* A request of someone else leaves the channel, and no unsent row is touched.
LEMMA OtherServed ==
  ASSUME NEW C, NEW O, SendTypes(C), SenderWith(O),
         UNCHANGED <<txn, awaiting, nbp, job>>, txn = None,
         wq # << >>, Head(wq).op # "UpdateStatusWithId", wq' = Tail(wq),
         NEW res, Answer(Head(wq).from, res, 0),
         \A i \in Unsent(tables) : i \in Unsent(tables')
  PROVE  SenderWith(O)'
<1>1. wq \in Seq(Request(C))
  BY DEF SendTypes, WriterTypeOK
<1>2. /\ 1 \in DOMAIN wq /\ Head(wq) = wq[1]
      /\ \A k \in DOMAIN wq' : k \in Nat /\ k + 1 \in DOMAIN wq /\ wq'[k] = wq[k + 1] /\ k + 1 # 1
      /\ \A k \in DOMAIN wq : k # 1 => k - 1 \in DOMAIN wq' /\ wq'[k - 1] = wq[k] /\ k \in Nat
  BY <1>1, TailQueue
<1>3. Head(wq).from \notin RowIds
  <2>1. \/ Head(wq).op = "NewBatch" /\ Head(wq).from \in Posts
        \/ OtherWrite(Head(wq), O)
    BY <1>2 DEF SenderWith, QueueWith, IsIdWrite
  <2> QED
    BY <2>1, RowIdsAndPosts DEF OtherWrite, SendClients
<1>4. /\ replies \subseteq replies'
      /\ \A a \in replies' : a \in replies \/ a.to \notin RowIds
  BY <1>3, AnswerOther
<1>5. QueueWith(O)'
  <2>1. ASSUME NEW k \in DOMAIN wq'
        PROVE  \/ wq'[k].op = "NewBatch" /\ wq'[k].from \in Posts
               \/ OtherWrite(wq'[k], O)
               \/ /\ IsIdWrite(k)'
                  /\ wq'[k].from = wq'[k].id
                  /\ wq'[k].id \in RowIds \cap Unsent(tables')
                  /\ job'[wq'[k].id] = "writing" \/ nbp' = "dead"
                  /\ \A a \in replies' : a.to # wq'[k].id
    <3>1. k + 1 \in DOMAIN wq /\ wq'[k] = wq[k + 1]
      BY <1>2
    <3> QED
      BY <1>4, <3>1 DEF SenderWith, QueueWith, IsIdWrite
  <2>2. \A k, n \in DOMAIN wq' :
          IsIdWrite(k)' /\ IsIdWrite(n)' /\ wq'[k].id = wq'[n].id => k = n
    BY <1>2 DEF SenderWith, QueueWith, IsIdWrite
  <2> QED
    BY <2>1, <2>2 DEF QueueWith, OtherWrite
<1>6. JobInv'
  <2>1. ASSUME NEW i \in RowIds, NEW k \in DOMAIN wq, IsIdWrite(k), wq[k].id = i
        PROVE  \E n \in DOMAIN wq' : IsIdWrite(n)' /\ wq'[n].id = i
    <3>1. k # 1
      BY <1>2, <2>1 DEF IsIdWrite
    <3> QED
      BY <1>2, <2>1, <3>1 DEF IsIdWrite
  <2> QED
    BY <1>4, <2>1 DEF SenderWith, JobInv, Working
<1> QED
  BY <1>4, <1>5, <1>6 DEF SenderWith, ReplyInv, TxnInv

\* An UPDATE by envelope id finds rows that have one.
LEMMA GidUpdateTouches ==
  ASSUME NEW C, SendTypes(C), UpdateRow, Head(wq).op = "UpdateStatus"
  PROVE  /\ Head(wq).gid \in Nat
         /\ Len(tables'.envs) = Len(tables.envs)
         /\ \A i \in DOMAIN tables.envs :
              /\ tables'.envs[i].gid = tables.envs[i].gid
              /\ tables.envs[i].gid # Head(wq).gid => tables'.envs[i] = tables.envs[i]
<1>1. Head(wq) \in Request(C)
  BY HeadType DEF UpdateRow, Serving, SendTypes
<1>2. Head(wq).gid \in Nat
  BY <1>1 DEF Request, BatchReq, StatusReq, IdReq, OtherReq
<1>3. tables \in Tables /\ tables.envs \in Seq(Row)
  BY DEF SendTypes, WriterTypeOK, Tables
<1>4. CASE UNCHANGED tables
  BY <1>2, <1>4
<1>5. ASSUME NEW i \in Targets(tables, Head(wq)),
             tables' = [tables EXCEPT !.envs[i] = Revised(tables.envs[i], Head(wq))]
      PROVE  /\ Len(tables'.envs) = Len(tables.envs)
             /\ \A j \in DOMAIN tables.envs :
                  /\ tables'.envs[j].gid = tables.envs[j].gid
                  /\ tables.envs[j].gid # Head(wq).gid => tables'.envs[j] = tables.envs[j]
  <2>1. i \in DOMAIN tables.envs /\ tables.envs[i].gid = Head(wq).gid
    BY DEF Targets
  <2>2. PICK e : e = Revised(tables.envs[i], Head(wq))
    OBVIOUS
  <2>3. e.gid = tables.envs[i].gid
    BY <1>3, <2>1, <2>2 DEF Revised, Row
  <2>4. tables'.envs = [tables.envs EXCEPT ![i] = e]
    BY <1>3, <1>5, <2>2 DEF Tables
  <2>5. Len([tables.envs EXCEPT ![i] = e]) = Len(tables.envs)
    BY <1>3
  <2> QED
    BY <1>3, <2>1, <2>3, <2>4, <2>5
<1> QED
  BY <1>2, <1>4, <1>5 DEF UpdateRow

LEMMA UpdateRowSender ==
  ASSUME NEW C, NEW O, SendTypes(C), SenderWith(O), UpdateRow, UNCHANGED sendVars
  PROVE  SenderWith(O)'
<1>1. tables.envs \in Seq(Row) /\ tables'.envs \in Seq(Row)
  BY UpdateRowType DEF SendTypes, WriterTypeOK, Tables
<1>2. \E res \in Result : Answer(Head(wq).from, res, 0)
  BY DEF UpdateRow, Result
<1>3. /\ UNCHANGED <<txn, awaiting, nbp, job>> /\ txn = None
      /\ wq # << >> /\ wq' = Tail(wq)
      /\ Head(wq).op \in {"UpdateStatus", "UpdateStatusWithId"}
  BY DEF UpdateRow, Serving, sendVars
<1>4. CASE Head(wq).op = "UpdateStatusWithId"
  <2>1. \A i \in Unsent(tables) : i # Head(wq).id => i \in Unsent(tables')
    BY <1>1, <1>4, IdUpdateTouches DEF Unsent
  <2> QED
    BY <1>2, <1>3, <1>4, <2>1, IdWriteServed
<1>5. CASE Head(wq).op = "UpdateStatus"
  <2>1. \A i \in Unsent(tables) : i \in Unsent(tables')
    <3>1. Head(wq).gid # None
      BY <1>5, GidUpdateTouches, NoneAssumption
    <3> QED
      BY <1>1, <1>5, <3>1, GidUpdateTouches DEF Unsent
  <2> QED
    BY <1>2, <1>3, <1>5, <2>1, OtherServed
<1> QED
  BY <1>3, <1>4, <1>5

LEMMA WriteLostSender ==
  ASSUME NEW C, NEW O, SendTypes(C), SenderWith(O), WriteLost
  PROVE  SenderWith(O)'
<1>1. UNCHANGED <<nbp, job, tables, awaiting>>
  BY DEF WriteLost, WriteFails
<1>2. CASE txn # None /\ txn' = None /\ Answer(txn.req.from, "DbError", 0) /\ UNCHANGED wq
  <2>1. /\ replies \subseteq replies'
        /\ \A a \in replies' : a \in replies \/ a.to \notin RowIds
    BY <1>2, AnswerPost DEF SenderWith, TxnInv
  <2>2. QueueWith(O)'
    BY <1>1, <1>2, <2>1 DEF SenderWith, QueueWith, IsIdWrite, Unsent
  <2>3. JobInv'
    BY <1>1, <1>2, <2>1 DEF SenderWith, JobInv, IsIdWrite, Working, Unsent
  <2> QED
    BY <1>1, <1>2, <2>1, <2>2, <2>3 DEF SenderWith, ReplyInv, TxnInv
<1>3. CASE /\ txn = None /\ UNCHANGED txn
           /\ wq # << >> /\ wq' = Tail(wq) /\ Answer(Head(wq).from, "DbError", 0)
  <2>1. CASE Head(wq).op = "UpdateStatusWithId"
    BY <1>1, <1>3, <2>1, IdWriteServed DEF Unsent, Result
  <2>2. CASE Head(wq).op # "UpdateStatusWithId"
    BY <1>1, <1>3, <2>2, OtherServed DEF Unsent
  <2> QED
    BY <2>1, <2>2
<1> QED
  BY <1>2, <1>3 DEF WriteLost, WriteFails

\* The processor reads while no job is left and no write of a job is queued.
LEMMA ProcessorSender ==
  ASSUME NEW C, NEW O, SendTypes(C), SenderWith(O), Wake \/ ReadUnsent \/ ReadFails \/ AllSent
  PROVE  SenderWith(O)'
<1>1. UNCHANGED <<tables, wq, txn, awaiting, replies>>
  BY DEF Wake, ReadUnsent, ReadFails, AllSent, writerVars
<1>2. CASE ReadUnsent
  <2>1. /\ nbp = "reading" /\ nbp' = "sending"
        /\ job' = [i \in RowIds |-> IF i \in Unsent(tables) THEN "todo" ELSE job[i]]
        /\ \A i \in RowIds : job[i] = "none"
    BY <1>2 DEF ReadUnsent, SenderWith, JobInv
  <2>2. QueueWith(O)'
    BY <1>1, <2>1 DEF SenderWith, QueueWith, IsIdWrite, Unsent
  <2>3. JobInv'
    BY <1>1, <2>1 DEF SenderWith, JobInv, IsIdWrite, Working, Unsent
  <2> QED
    BY <1>1, <2>2, <2>3 DEF SenderWith, ReplyInv, TxnInv
<1>3. CASE Wake \/ ReadFails \/ AllSent
  <2>1. UNCHANGED job /\ nbp # "dead" /\ \A i \in RowIds : job[i] = "none"
    BY <1>3 DEF Wake, ReadFails, AllSent, SenderWith, JobInv
  <2>2. QueueWith(O)'
    BY <1>1, <2>1 DEF SenderWith, QueueWith, IsIdWrite, Unsent
  <2>3. JobInv'
    BY <1>1, <2>1 DEF SenderWith, JobInv, IsIdWrite, Working, Unsent
  <2> QED
    BY <1>1, <2>2, <2>3 DEF SenderWith, ReplyInv, TxnInv
<1> QED
  BY <1>2, <1>3

\* A job that goes on without writing.
LEMMA JobMovesSender ==
  ASSUME NEW C, NEW O, SendTypes(C), SenderWith(O), NEW i \in RowIds,
         StartJob(i) \/ DocusignCreates(i) \/ NothingRecorded(i) \/ RateLimited(i)
           \/ PostAgain(i)
  PROVE  SenderWith(O)'
<1>1. /\ UNCHANGED <<tables, wq, txn, awaiting, replies, nbp>>
      /\ job[i] \in {"todo", "posting", "created", "sleeping"}
      /\ \E st \in {"none", "posting", "created", "sleeping"} :
           job' = [job EXCEPT ![i] = st]
  BY DEF StartJob, DocusignCreates, NothingRecorded, RateLimited, PostAgain, writerVars
<1>2. job \in [RowIds -> JobState]
  BY DEF SendTypes, SendStateOK
<1>3. QueueWith(O)'
  BY <1>1, <1>2 DEF SenderWith, QueueWith, IsIdWrite, Unsent
<1>4. JobInv'
  BY <1>1, <1>2 DEF SenderWith, JobInv, IsIdWrite, Working, Unsent
<1> QED
  BY <1>1, <1>3, <1>4 DEF SenderWith, ReplyInv, TxnInv

\* A job writes: it is the only one to, and the row is still unsent.
LEMMA JobWritesSender ==
  ASSUME NEW C, NEW O, SendTypes(C), SendTypes(C)', SenderWith(O), NEW i \in RowIds,
         RecordSent(i) \/ ConnectionError(i)
  PROVE  SenderWith(O)'
<1>1. PICK r \in Request(C) :
        /\ r.op = "UpdateStatusWithId" /\ r.id = i /\ r.from = i
        /\ Submit(r)
  <2>1. PICK g \in Nat \cup {None}, st \in Status, err \in BOOLEAN : Write(i, g, st, err)
    BY DEF RecordSent, ConnectionError, SendTypes, SendStateOK, Status, Terminal
  <2> DEFINE r == [op |-> "UpdateStatusWithId", id |-> i, gid |-> g, status |-> st,
                   reason |-> FALSE, apiErr |-> err, from |-> i]
  <2>2. r \in Request(C)
    BY MaxRowsAssumption DEF Request, IdReq, RowIds, SendClients, SendTypes
  <2>3. r.op = "UpdateStatusWithId" /\ r.id = i /\ r.from = i
    OBVIOUS
  <2> QED
    BY <2>1, <2>2, <2>3 DEF Write
<1>2. /\ Len(wq) + 1 \in DOMAIN wq' /\ wq'[Len(wq) + 1] = r
      /\ \A k \in DOMAIN wq : k \in DOMAIN wq' /\ wq'[k] = wq[k] /\ k # Len(wq) + 1
      /\ \A k \in DOMAIN wq' : k \in DOMAIN wq \/ k = Len(wq) + 1
  BY <1>1, AppendQueue DEF Submit, SendTypes, WriterTypeOK
<1>3. /\ UNCHANGED <<tables, txn, replies, nbp>>
      /\ job' = [job EXCEPT ![i] = "writing"]
      /\ job[i] \in {"posting", "created"}
      /\ awaiting' = awaiting \cup {i}
  BY <1>1, RowIdsAndPosts DEF RecordSent, ConnectionError, Write, Submit
<1>4. /\ job \in [RowIds -> JobState]
      /\ i \in Unsent(tables) /\ nbp # "dead"
      /\ \A a \in replies : a.to # i
      /\ \A k \in DOMAIN wq : IsIdWrite(k) => wq[k].id # i
  BY <1>3 DEF SenderWith, QueueWith, OtherWrite, JobInv, ReplyInv, IsIdWrite, Working, SendTypes,
              SendStateOK
<1>5. QueueWith(O)'
  BY <1>1, <1>2, <1>3, <1>4 DEF SenderWith, QueueWith, IsIdWrite, Unsent
<1>6. JobInv'
  BY <1>1, <1>2, <1>3, <1>4 DEF SenderWith, JobInv, IsIdWrite, Working, Unsent
<1>7. ReplyInv' /\ TxnInv'
  BY <1>3, <1>4 DEF SenderWith, ReplyInv, TxnInv
<1> QED
  BY <1>5, <1>6, <1>7 DEF SenderWith

\* A job takes its only answer.
LEMMA WrittenSender ==
  ASSUME NEW C, NEW O, SendTypes(C), SenderWith(O), NEW i \in RowIds, Written(i)
  PROVE  SenderWith(O)'
<1>1. PICK a \in replies :
        /\ a.to = i /\ replies' = replies \ {a} /\ awaiting' = awaiting \ {i}
        /\ UNCHANGED <<tables, wq, txn, nbp>>
        /\ job[i] = "writing" /\ job' = [job EXCEPT ![i] = "none"]
  BY DEF Written, TakeReply
<1>2. job \in [RowIds -> JobState]
  BY DEF SendTypes, SendStateOK
<1>3. \A k \in DOMAIN wq : IsIdWrite(k) => wq[k].id # i
  BY <1>1 DEF SenderWith, QueueWith, IsIdWrite, OtherWrite
<1>4. QueueWith(O)'
  BY <1>1, <1>2, <1>3 DEF SenderWith, QueueWith, IsIdWrite, Unsent
<1>5. JobInv'
  BY <1>1, <1>2 DEF SenderWith, JobInv, IsIdWrite, Working, Unsent
<1>6. ReplyInv' /\ TxnInv'
  BY <1>1 DEF SenderWith, ReplyInv, TxnInv
<1> QED
  BY <1>4, <1>5, <1>6 DEF SenderWith

\* Jobs that are left in a get() stay on the work list.
LEMMA StrandsSender ==
  ASSUME NEW C, NEW O, SendTypes(C), SenderWith(O), Strands, Unmoved
  PROVE  SenderWith(O)'
<1>1. /\ UNCHANGED <<tables, wq, txn, awaiting, replies>>
      /\ nbp' = nbp \/ (nbp = "reading" /\ nbp' = "stuck")
      /\ \A i \in RowIds : job'[i] = job[i] \/ (job[i] = "posting" /\ job'[i] = "stuck")
  BY DEF Strands, Unmoved
<1>2. QueueWith(O)'
  BY <1>1 DEF SenderWith, QueueWith, IsIdWrite, Unsent
<1>3. JobInv'
  BY <1>1 DEF SenderWith, JobInv, IsIdWrite, Working, Unsent
<1> QED
  BY <1>1, <1>2, <1>3 DEF SenderWith, ReplyInv, TxnInv

\* Faults that end every job.
LEMMA PanicAndCrashSender ==
  ASSUME NEW C, NEW O, SendTypes(C), SenderWith(O), (Unwinds /\ Unmoved) \/ Crash
  PROVE  SenderWith(O)'
<1>1. \A i \in RowIds : job'[i] = "none"
  BY DEF Unwinds, Crash
<1>2. CASE Unwinds /\ Unmoved
  <2>1. /\ nbp' = "dead" /\ UNCHANGED <<tables, wq, txn>>
        /\ awaiting' = awaiting \ RowIds
        /\ replies' = {a \in replies : a.to \notin RowIds}
    BY <1>2 DEF Unwinds, Unmoved, Abandon
  <2>2. QueueWith(O)'
    BY <2>1 DEF SenderWith, QueueWith, IsIdWrite, Unsent
  <2> QED
    BY <1>1, <2>1, <2>2 DEF SenderWith, JobInv, ReplyInv, TxnInv, Working
<1>3. CASE Crash
  BY <1>1, <1>3 DEF Crash, WriterCrash, SenderWith, QueueWith, JobInv, ReplyInv, TxnInv,
                    Working
<1> QED
  BY <1>2, <1>3

LEMMA NextSenders ==
  ASSUME NEW C, NEW O, SendTypes(C), SenderWith(O), [Next]_vars
  PROVE  SenderWith(O)'
<1>0. SendTypes(C)'
  BY NextTypes
<1>1. ASSUME NEW h \in Posts, PostBatch(h) \/ PostAnswered(h) \/ PostCancelled(h)
      PROVE  SenderWith(O)'
  BY <1>0, <1>1, PostBatchSender, PostLeavesSender
<1>2. CASE WriterStep /\ UNCHANGED sendVars
  BY <1>0, <1>2, BatchSender, UpdateRowSender DEF WriterStep
<1>3. ASSUME NEW i \in RowIds, Job(i)
      PROVE  SenderWith(O)'
  BY <1>0, <1>3, JobMovesSender, JobWritesSender, WrittenSender DEF Job
<1>4. CASE Rest \/ UNCHANGED vars
  <2>1. UNCHANGED vars
    BY <1>4 DEF Rest
  <2>2. UNCHANGED <<tables, wq, txn, awaiting, replies, nbp, job>>
    BY <2>1 DEF vars, writerVars, sendVars
  <2> QED
    BY <2>2 DEF SenderWith, QueueWith, JobInv, ReplyInv, TxnInv, IsIdWrite, Working, Unsent
<1> QED
  BY <1>1, <1>2, <1>3, <1>4, ProcessorSender, WriteLostSender, PanicAndCrashSender,
     StrandsSender, AskersEnd
  DEF Next, SendStep

LEMMA NextSender ==
  ASSUME SendTypeOK, SenderInv, [Next]_vars
  PROVE  SenderInv'
<1>1. SendTypes(SendClients) /\ SenderWith({})
  BY AloneTypes, AloneSender
<1>2. SenderWith({})'
  BY <1>1, NextSenders
<1> QED
  BY <1>2 DEF SenderWith, SenderInv, QueueWith, QueueInv, IsIdWrite, OtherWrite

(* The inductive invariant holds in every reachable state.                 *)
THEOREM SenderInvariant == Spec => [](SendTypeOK /\ SenderInv)
<1>1. Init => SendTypeOK /\ SenderInv
  BY SendInitType, SenderInit, AloneTypes, AloneSender
<1>2. SendTypeOK /\ SenderInv /\ [Next]_vars => (SendTypeOK /\ SenderInv)'
  BY NextType, NextSender
<1> QED
  BY <1>1, <1>2, PTL DEF Spec

(* What the processor read stays true while it works through it: however   *)
(* many requests, rows and jobs there are, a row a job still works on is   *)
(* unsent, and at most one write for a row is under way.                   *)
THEOREM WorkStaysFresh == Spec => []WorkIsFresh
<1>1. SendTypeOK /\ SenderInv => WorkIsFresh
  <2> SUFFICES ASSUME SendTypeOK, SenderInv PROVE WorkIsFresh
    OBVIOUS
  <2>1. Working \subseteq Unsent(tables)
    BY DEF SenderInv, JobInv
  <2>2. \A i \in RowIds : \A k, n \in Queued(i) : k = n
    BY DEF Queued, SenderInv, QueueInv, IsIdWrite
  <2>3. \A i \in RowIds : Queued(i) # {} => i \in Unsent(tables) \ Working
    BY DEF Queued, SenderInv, QueueInv, JobInv, IsIdWrite, Working
  <2>4. \A i \in RowIds : job[i] = "writing" =>
          Queued(i) # {} \/ \E a \in replies : a.to = i
    BY DEF Queued, SenderInv, JobInv, IsIdWrite
  <2> QED
    BY <2>1, <2>2, <2>3, <2>4 DEF WorkIsFresh
<1> QED
  BY <1>1, SenderInvariant, PTL

(* The sender settles a row once: no step changes a row that has left the  *)
(* work list, whatever answers, retries and crashes come between.          *)
THEOREM RowsSettleOnce == Spec => SettledOnce
<1>1. SendTypeOK /\ SenderInv /\ [Next]_vars =>
        [\A i \in DOMAIN tables.envs \ Unsent(tables) :
           tables'.envs[i] = tables.envs[i]]_vars
  <2> SUFFICES ASSUME SendTypeOK, SenderInv, Next,
                      NEW i \in DOMAIN tables.envs \ Unsent(tables)
               PROVE  tables'.envs[i] = tables.envs[i]
    OBVIOUS
  <2>1. CASE WriterStep
    <3>1. CASE UpdateRow
      BY <3>1, IdWriteTouches
    <3>2. CASE CommitBatch
      BY <3>2 DEF CommitBatch, SenderInv, TxnInv
    <3>3. CASE BeginBatch \/ InsertNext
      BY <3>3 DEF BeginBatch, InsertNext
    <3> QED
      BY <2>1, <3>1, <3>2, <3>3 DEF WriterStep
  <2>2. ASSUME NEW h \in Posts, PostBatch(h) \/ PostAnswered(h) \/ PostCancelled(h)
        PROVE  UNCHANGED tables
    BY <2>2 DEF PostBatch, PostAnswered, PostCancelled, Submit, TakeReply
  <2>3. ASSUME NEW j \in RowIds, Job(j)
        PROVE  UNCHANGED tables
    BY <2>3 DEF Job, StartJob, DocusignCreates, RecordSent, ConnectionError,
      NothingRecorded, RateLimited, PostAgain, Written, Write, Submit, TakeReply, writerVars
  <2>4. CASE Wake \/ ReadUnsent \/ ReadFails \/ AllSent \/ ProcessorPanics \/ WriteLost
               \/ TokenTaskDies \/ Crash \/ Rest
    BY <2>4, AskersEnd DEF Wake, ReadUnsent, ReadFails, AllSent, Unmoved, WriteLost,
      WriteFails, Crash, WriterCrash, Rest, vars, writerVars
  <2> QED
    BY <2>1, <2>2, <2>3, <2>4 DEF Next, SendStep
<1> QED
  BY <1>1, SenderInvariant, PTL DEF Spec, SettledOnce

-----------------------------------------------------------------------------
(***************************************************************************)
(* The inductive invariant.  EveryCopyAccounted is about ids that are held *)
(* nowhere; to show that the UPDATE which stores one succeeds, it takes    *)
(* where an id may be held, and what the partial index sees.               *)
(***************************************************************************)

\* g is the id of an envelope that was made for row i.
MadeFor(g, i) == g \in DOMAIN copies /\ copies[g] = i

IdsInv ==
  /\ \A i \in DOMAIN tables.envs :
       tables.envs[i].gid # None => MadeFor(tables.envs[i].gid, i)
  /\ \A k \in DOMAIN wq : IsIdWrite(k) /\ wq[k].gid # None => MadeFor(wq[k].gid, wq[k].id)
  /\ \A i \in RowIds : got[i] # None => job[i] = "created" /\ MadeFor(got[i], i)
  /\ \A g \in DOMAIN copies : copies[g] \in DOMAIN tables.envs

\* No person has two rows under way.
OneActive(envs) ==
  \A i, j \in DOMAIN envs :
    i # j /\ envs[i].ssn = envs[j].ssn => ~ IsActive(envs[i]) \/ ~ IsActive(envs[j])

RowsInv ==
  /\ OneActive(tables.envs)
  /\ txn # None =>
       /\ OneActive(txn.work.envs)
       /\ \A i \in DOMAIN txn.work.envs \ DOMAIN tables.envs : txn.work.envs[i].gid = None

CopiesInv == IdsInv /\ RowsInv /\ EveryCopyAccounted
-----------------------------------------------------------------------------
(***************************************************************************)
(* Steps that leave the ids where they are.                                *)
(***************************************************************************)

LEMMA CopiesInit ==
  ASSUME Init PROVE CopiesInv
<1>1. /\ DOMAIN tables.envs = {} /\ DOMAIN wq = {} /\ DOMAIN copies = {} /\ txn = None
      /\ \A i \in RowIds : got[i] = None
  BY DEF Init, WriterInit, EmptyTables
<1> QED
  BY <1>1 DEF CopiesInv, IdsInv, RowsInv, OneActive, EveryCopyAccounted

\* The steps of handlers and of the processor's loop.
LEMMA IdleCopies ==
  ASSUME CopiesInv, UNCHANGED <<tables, wq, txn, got, copies, orphans>>,
         \A i \in RowIds : job[i] = "created" <=> job'[i] = "created",
         copies \in Seq(RowIds)
  PROVE  CopiesInv'
<1>1. IdsInv'
  BY DEF CopiesInv, IdsInv, MadeFor, IsIdWrite
<1>2. RowsInv'
  BY DEF CopiesInv, RowsInv, OneActive, IsActive
<1>3. EveryCopyAccounted'
  BY DEF CopiesInv, EveryCopyAccounted, Queued
<1> QED
  BY <1>1, <1>2, <1>3 DEF CopiesInv

LEMMA PostBatchCopies ==
  ASSUME NEW C, SendTypes(C), CopiesInv, NEW h \in Posts, PostBatch(h)
  PROVE  CopiesInv'
<1>1. PICK r \in Request(C) : r.op = "NewBatch" /\ Submit(r)
  <2>1. PICK b \in Batches, recs \in Inputs :
          Submit([op |-> "NewBatch", batch |-> b, recs |-> recs, from |-> h])
    BY DEF PostBatch
  <2> DEFINE r == [op |-> "NewBatch", batch |-> b, recs |-> recs, from |-> h]
  <2>2. r \in Request(C)
    BY InputsAssumption DEF Request, BatchReq, SendClients, SendTypes
  <2>3. r.op = "NewBatch"
    OBVIOUS
  <2> QED
    BY <2>1, <2>2, <2>3
<1>2. /\ Len(wq) + 1 \in DOMAIN wq' /\ wq'[Len(wq) + 1] = r
      /\ \A k \in DOMAIN wq : k \in DOMAIN wq' /\ wq'[k] = wq[k] /\ k # Len(wq) + 1
      /\ \A k \in DOMAIN wq' : k \in DOMAIN wq \/ k = Len(wq) + 1
  BY <1>1, AppendQueue DEF Submit, SendTypes, WriterTypeOK
<1>3. UNCHANGED <<tables, txn, job, got, copies, orphans>>
  BY <1>1 DEF PostBatch, Submit
<1>4. IdsInv'
  BY <1>1, <1>2, <1>3 DEF CopiesInv, IdsInv, MadeFor, IsIdWrite
<1>5. RowsInv'
  BY <1>3 DEF CopiesInv, RowsInv, OneActive, IsActive
<1>6. EveryCopyAccounted'
  BY <1>2, <1>3 DEF CopiesInv, EveryCopyAccounted, Queued
<1> QED
  BY <1>4, <1>5, <1>6 DEF CopiesInv

-----------------------------------------------------------------------------
(***************************************************************************)
(* The writer.                                                             *)
(***************************************************************************)

\* A request without an envelope id leaves the channel.
LEMMA TailCopies ==
  ASSUME NEW C, SendTypes(C), CopiesInv, wq # << >>, wq' = Tail(wq),
         Head(wq).op = "UpdateStatusWithId" => Head(wq).gid = None \/ Head(wq).gid \in orphans',
         orphans \subseteq orphans',
         UNCHANGED <<tables, job, got, copies>>
  PROVE  IdsInv' /\ EveryCopyAccounted'
<1>1. /\ 1 \in DOMAIN wq /\ Head(wq) = wq[1]
      /\ \A k \in DOMAIN wq' : k \in Nat /\ k + 1 \in DOMAIN wq /\ wq'[k] = wq[k + 1] /\ k + 1 # 1
      /\ \A k \in DOMAIN wq : k # 1 => k - 1 \in DOMAIN wq' /\ wq'[k - 1] = wq[k] /\ k \in Nat
  BY TailQueue DEF SendTypes, WriterTypeOK
<1>2. IdsInv'
  BY <1>1 DEF CopiesInv, IdsInv, MadeFor, IsIdWrite
<1>3. EveryCopyAccounted'
  <2> SUFFICES ASSUME NEW g \in DOMAIN copies, g \notin orphans', g \notin orphans,
                      NEW k \in Queued(copies[g]), wq[k].gid = g
               PROVE  \E n \in Queued(copies[g])' : wq'[n].gid = g
    BY DEF CopiesInv, EveryCopyAccounted
  <2>1. g # None
    BY NoneAssumption DEF SendTypes, SendStateOK
  <2>2. k # 1
    BY <1>1, <2>1 DEF Queued
  <2>3. k \in DOMAIN wq /\ k - 1 \in DOMAIN wq' /\ wq'[k - 1] = wq[k]
    BY <1>1, <2>2 DEF Queued
  <2> QED
    BY <2>3 DEF Queued
<1> QED
  BY <1>2, <1>3
LEMMA BeginBatchCopies ==
  ASSUME NEW C, SendTypes(C), CopiesInv, BeginBatch, UNCHANGED sendVars
  PROVE  CopiesInv'
<1>1. /\ wq # << >> /\ wq' = Tail(wq) /\ Head(wq).op = "NewBatch"
      /\ UNCHANGED <<tables, job, got, copies, orphans>>
  BY DEF BeginBatch, Serving, sendVars
<1>2. IdsInv' /\ EveryCopyAccounted'
  BY <1>1, TailCopies
<1>3. txn' # None => txn'.work.envs = tables.envs \/ txn' = txn
  BY DEF BeginBatch, SendTypes, WriterTypeOK, Tables
<1>4. RowsInv'
  BY <1>1, <1>3 DEF CopiesInv, RowsInv, OneActive, IsActive
<1> QED
  BY <1>2, <1>4 DEF CopiesInv

\* The partial index refuses a second active row, so an INSERT adds none.
LEMMA InsertKeepsOneActive ==
  ASSUME NEW t \in Tables, NEW b \in Batches, NEW s \in Ssns, NEW d \in 0 .. MaxDate,
         OneActive(t.envs)
  PROVE  LET u == InsertRecord(t, b, s, d) IN
         /\ OneActive(u.envs)
         /\ \A i \in DOMAIN t.envs : i \in DOMAIN u.envs /\ u.envs[i] = t.envs[i]
         /\ \A i \in DOMAIN u.envs \ DOMAIN t.envs : u.envs[i].gid = None
<1> DEFINE u == InsertRecord(t, b, s, d)
<1>1. t.envs \in Seq(Row) /\ NewRow(s, d) \in Row
  BY DEF Tables, NewRow, Row
<1>2. u.envs = IF DupEnvelope(t, s, d) THEN t.envs ELSE Append(t.envs, NewRow(s, d))
  BY DEF InsertRecord, Tables
<1>3. CASE DupEnvelope(t, s, d)
  BY <1>2, <1>3
<1>4. CASE ~ DupEnvelope(t, s, d)
  <2>1. \A i \in DOMAIN t.envs : t.envs[i].ssn = s => ~ IsActive(t.envs[i])
    BY <1>4 DEF DupEnvelope
  <2>2. u.envs = Append(t.envs, NewRow(s, d))
    BY <1>2, <1>4
  <2> HIDE DEF u
  <2>3. /\ Len(t.envs) + 1 \in DOMAIN u.envs /\ u.envs[Len(t.envs) + 1] = NewRow(s, d)
        /\ \A i \in DOMAIN t.envs : i \in DOMAIN u.envs /\ u.envs[i] = t.envs[i]
        /\ \A i \in DOMAIN u.envs : i \in DOMAIN t.envs \/ i = Len(t.envs) + 1
    BY <1>1, <2>2, AppendQueue
  <2>4. NewRow(s, d).ssn = s /\ NewRow(s, d).gid = None
    BY DEF NewRow
  <2>5. OneActive(u.envs)
    BY <2>1, <2>3, <2>4 DEF OneActive
  <2> QED
    BY <2>3, <2>4, <2>5 DEF u
<1> QED
  BY <1>3, <1>4

LEMMA InsertNextCopies ==
  ASSUME NEW C, NEW O, SendTypes(C), SenderWith(O), CopiesInv, InsertNext, UNCHANGED sendVars
  PROVE  CopiesInv'
<1>1. UNCHANGED <<tables, wq, got, copies, orphans, job>>
  BY DEF InsertNext, sendVars
<1>2. /\ txn # None /\ txn \in Txn(C)
      /\ txn.next \in DOMAIN txn.req.recs
      /\ txn.req.batch \in Batches /\ txn.req.recs[txn.next] \in Ssns
  BY DEF InsertNext, SendTypes, WriterTypeOK, Txn, BatchReq
<1>3. PICK d \in 0 .. MaxDate :
        txn'.work = InsertRecord(txn.work, txn.req.batch, txn.req.recs[txn.next], d)
  BY <1>2 DEF InsertNext, Clock, Txn
<1>4. txn.work \in Tables
  BY <1>2 DEF Txn
<1>5. /\ OneActive(txn'.work.envs)
      /\ \A i \in DOMAIN txn.work.envs :
           i \in DOMAIN txn'.work.envs /\ txn'.work.envs[i] = txn.work.envs[i]
      /\ \A i \in DOMAIN txn'.work.envs \ DOMAIN txn.work.envs : txn'.work.envs[i].gid = None
  BY <1>2, <1>3, <1>4, InsertKeepsOneActive DEF CopiesInv, RowsInv
<1>6. RowsInv'
  <2>1. OneActive(tables.envs)'
    BY <1>1 DEF CopiesInv, RowsInv, OneActive, IsActive
  <2>2. OneActive(txn.work.envs)'
    BY <1>5 DEF OneActive, IsActive
  <2> QED
    BY <1>1, <1>2, <1>5, <2>1, <2>2 DEF CopiesInv, RowsInv
<1>7. IdsInv'
  BY <1>1 DEF CopiesInv, IdsInv, MadeFor, IsIdWrite
<1>8. EveryCopyAccounted'
  BY <1>1 DEF CopiesInv, EveryCopyAccounted, Queued
<1> QED
  BY <1>6, <1>7, <1>8 DEF CopiesInv

\* COMMIT adds rows without ids and leaves the others alone.
LEMMA CommitCopies ==
  ASSUME NEW C, NEW O, SendTypes(C), SenderWith(O), CopiesInv, CommitBatch, UNCHANGED sendVars
  PROVE  CopiesInv'
<1>1. /\ UNCHANGED <<wq, got, copies, orphans, job>> /\ txn' = None
      /\ tables' = txn.work /\ txn # None
  BY DEF CommitBatch, sendVars
<1>2. \A i \in DOMAIN tables.envs : i \in DOMAIN tables'.envs /\ tables'.envs[i] = tables.envs[i]
  BY <1>1 DEF SenderWith, TxnInv
<1>3. \A i \in DOMAIN tables'.envs \ DOMAIN tables.envs : tables'.envs[i].gid = None
  BY <1>1 DEF CopiesInv, RowsInv
<1>4. IdsInv'
  BY <1>1, <1>2, <1>3 DEF CopiesInv, IdsInv, MadeFor, IsIdWrite
<1>5. RowsInv'
  BY <1>1 DEF CopiesInv, RowsInv, OneActive, IsActive
<1>6. EveryCopyAccounted'
  BY <1>1, <1>2 DEF CopiesInv, IdsInv, EveryCopyAccounted, Queued
<1> QED
  BY <1>4, <1>5, <1>6 DEF CopiesInv

\* What the queue holds for a row would meet no constraint: the row is active,
\* so no other row of its person is, and no other row has the id.
LEMMA IdWritesDoFit ==
  ASSUME NEW C, NEW O, SendTypes(C), SenderWith(O), CopiesInv,
         NEW k \in DOMAIN wq, IsIdWrite(k)
  PROVE  LET r == wq[k]
             e == Revised(tables.envs[r.id], r)
         IN /\ r.id \in Unsent(tables) /\ tables.envs[r.id] \in Row
            /\ e.gid = r.gid /\ e.ssn = tables.envs[r.id].ssn
            /\ r.gid # None => MadeFor(r.gid, r.id)
            /\ RowOK(tables, r.id, e)
<1> DEFINE r == wq[k]
           e == Revised(tables.envs[r.id], r)
<1>1. tables \in Tables /\ tables.envs \in Seq(Row)
  BY DEF SendTypes, WriterTypeOK, Tables
<1>2. r.op = "UpdateStatusWithId" /\ r.id \in Unsent(tables)
  BY DEF SenderWith, QueueWith, IsIdWrite, OtherWrite
<1>3. r.gid # None => MadeFor(r.gid, r.id)
  BY DEF CopiesInv, IdsInv
<1>4. /\ r.id \in DOMAIN tables.envs /\ tables.envs[r.id] \in Row
      /\ tables.envs[r.id].gid = None /\ IsActive(tables.envs[r.id])
  BY <1>1, <1>2, NoneAssumption DEF Unsent, IsActive, Status
<1>5. e.gid = r.gid /\ e.ssn = tables.envs[r.id].ssn
  BY <1>2, <1>4 DEF Revised, Row
<1>6. RowOK(tables, r.id, e)
  <2>1. ASSUME NEW j \in DOMAIN tables.envs \ {r.id}
        PROVE  /\ tables.envs[j].ssn = e.ssn => ~ IsActive(tables.envs[j])
               /\ e.gid # None => tables.envs[j].gid # e.gid
    <3>1. tables.envs[j].ssn = e.ssn => ~ IsActive(tables.envs[j])
      BY <1>4, <1>5, <2>1 DEF CopiesInv, RowsInv, OneActive
    <3>2. e.gid # None => tables.envs[j].gid # e.gid
      BY <1>3, <1>5, <2>1 DEF CopiesInv, IdsInv, MadeFor
    <3> QED
      BY <3>1, <3>2
  <2>2. tables.envs[r.id].gid \notin tables.pdfs
    BY <1>1, <1>4, NoneAssumption DEF Tables
  <2> HIDE DEF e
  <2> QED
    BY <2>1, <2>2 DEF RowOK
<1> QED
  BY <1>2, <1>3, <1>4, <1>5, <1>6

LEMMA IdWriteSucceeds ==
  ASSUME NEW C, NEW O, SendTypes(C), SenderWith(O), CopiesInv, UpdateRow,
         Head(wq).op = "UpdateStatusWithId"
  PROVE  LET r == Head(wq)
             e == Revised(tables.envs[r.id], r)
         IN /\ r.op = "UpdateStatusWithId" /\ r.id \in Unsent(tables)
            /\ tables'.envs = [tables.envs EXCEPT ![r.id] = e]
            /\ e.gid = r.gid /\ e.ssn = tables.envs[r.id].ssn
            /\ r.gid # None => MadeFor(r.gid, r.id)
<1> DEFINE r == Head(wq)
           e == Revised(tables.envs[r.id], r)
<1>1. /\ wq # << >> /\ wq \in Seq(Request(C))
      /\ tables \in Tables /\ tables.envs \in Seq(Row)
  BY DEF UpdateRow, Serving, SendTypes, WriterTypeOK, Tables
<1>2. 1 \in DOMAIN wq /\ r = wq[1] /\ IsIdWrite(1)
  BY <1>1 DEF IsIdWrite
<1>3. /\ r.id \in Unsent(tables)
      /\ e.gid = r.gid /\ e.ssn = tables.envs[r.id].ssn
      /\ r.gid # None => MadeFor(r.gid, r.id)
      /\ RowOK(tables, r.id, e)
  BY <1>2, IdWritesDoFit
<1>4. Targets(tables, r) = {r.id}
  BY <1>3 DEF Targets, Unsent
<1>5. tables' = [tables EXCEPT !.envs[r.id] = e]
  BY <1>3, <1>4 DEF UpdateRow
<1>6. tables'.envs = [tables.envs EXCEPT ![r.id] = e]
  <2> HIDE DEF e, r
  <2> QED
    BY <1>1, <1>5 DEF Tables
<1> QED
  BY <1>3, <1>6

LEMMA IdUpdateCopies ==
  ASSUME NEW C, NEW O, SendTypes(C), SenderWith(O), CopiesInv, UpdateRow,
         UNCHANGED sendVars, Head(wq).op = "UpdateStatusWithId"
  PROVE  CopiesInv'
<1> DEFINE r == Head(wq)
           e == Revised(tables.envs[r.id], r)
<1>1. /\ r.op = "UpdateStatusWithId" /\ r.id \in Unsent(tables)
      /\ tables'.envs = [tables.envs EXCEPT ![r.id] = e]
      /\ e.gid = r.gid /\ e.ssn = tables.envs[r.id].ssn
      /\ r.gid # None => MadeFor(r.gid, r.id)
  BY IdWriteSucceeds
<1>2. /\ UNCHANGED <<txn, got, copies, orphans, job>> /\ txn = None
      /\ wq # << >> /\ wq' = Tail(wq)
  BY DEF UpdateRow, Serving, sendVars
<1>3. /\ 1 \in DOMAIN wq /\ r = wq[1]
      /\ \A k \in DOMAIN wq' : k \in Nat /\ k + 1 \in DOMAIN wq /\ wq'[k] = wq[k + 1] /\ k + 1 # 1
      /\ \A k \in DOMAIN wq : k # 1 => k - 1 \in DOMAIN wq' /\ wq'[k - 1] = wq[k] /\ k \in Nat
  BY <1>2, TailQueue DEF SendTypes, WriterTypeOK
<1> HIDE DEF e, r
<1>4. /\ DOMAIN tables'.envs = DOMAIN tables.envs
      /\ r.id \in DOMAIN tables.envs /\ tables'.envs[r.id] = e
      /\ \A i \in DOMAIN tables.envs : i # r.id => tables'.envs[i] = tables.envs[i]
      /\ tables.envs[r.id].gid = None
  BY <1>1 DEF SendTypes, WriterTypeOK, Tables, Unsent
<1>5. IdsInv'
  <2>1. ASSUME NEW i \in DOMAIN tables'.envs, tables'.envs[i].gid # None
        PROVE  MadeFor(tables.envs[i].gid, i)'
    BY <1>1, <1>2, <1>4, <2>1 DEF CopiesInv, IdsInv, MadeFor
  <2> QED
    BY <1>2, <1>3, <1>4, <2>1 DEF CopiesInv, IdsInv, MadeFor, IsIdWrite
<1>6. RowsInv'
  <2>1. IsActive(tables.envs[r.id])
    BY <1>1, NoneAssumption DEF Unsent, IsActive, Status
  <2>2. OneActive(tables'.envs)
    BY <1>1, <1>4, <2>1 DEF CopiesInv, RowsInv, OneActive
  <2> QED
    BY <1>2, <2>2 DEF RowsInv, OneActive, IsActive
<1>7. EveryCopyAccounted'
  <2> SUFFICES ASSUME NEW g \in DOMAIN copies, g \notin orphans,
                      ~ (job[copies[g]] = "created" /\ got[copies[g]] = g)
               PROVE  \/ tables'.envs[copies[g]].gid = g
                      \/ \E n \in Queued(copies[g])' : wq'[n].gid = g
    BY <1>2 DEF EveryCopyAccounted
  <2>0. copies[g] \in DOMAIN tables.envs /\ g # None
    BY NoneAssumption DEF CopiesInv, IdsInv, SendTypes, SendStateOK
  <2>1. CASE tables.envs[copies[g]].gid = g
    BY <1>4, <2>0, <2>1
  <2>2. ASSUME NEW k \in Queued(copies[g]), wq[k].gid = g
        PROVE  \/ tables'.envs[copies[g]].gid = g
               \/ \E n \in Queued(copies[g])' : wq'[n].gid = g
    <3>1. CASE k = 1
      BY <1>1, <1>3, <1>4, <2>2, <3>1 DEF Queued
    <3>2. CASE k # 1
      BY <1>2, <1>3, <2>2, <3>2 DEF Queued
    <3> QED
      BY <3>1, <3>2
  <2> QED
    BY <2>1, <2>2 DEF CopiesInv, EveryCopyAccounted
<1> QED
  BY <1>5, <1>6, <1>7 DEF CopiesInv

\* An UPDATE by envelope id changes no id, and no person gets a second active row.
LEMMA GidUpdateCopies ==
  ASSUME NEW C, NEW O, SendTypes(C), SenderWith(O), CopiesInv, UpdateRow,
         UNCHANGED sendVars, Head(wq).op = "UpdateStatus"
  PROVE  CopiesInv'
<1>1. /\ UNCHANGED <<txn, got, copies, orphans, job>> /\ txn = None
      /\ wq # << >> /\ wq' = Tail(wq)
  BY DEF UpdateRow, Serving, sendVars
<1>2. /\ 1 \in DOMAIN wq /\ Head(wq) = wq[1]
      /\ \A k \in DOMAIN wq' : k \in Nat /\ k + 1 \in DOMAIN wq /\ wq'[k] = wq[k + 1] /\ k + 1 # 1
      /\ \A k \in DOMAIN wq : k # 1 => k - 1 \in DOMAIN wq' /\ wq'[k - 1] = wq[k] /\ k \in Nat
  BY <1>1, TailQueue DEF SendTypes, WriterTypeOK
<1>3. /\ DOMAIN tables'.envs = DOMAIN tables.envs
      /\ \A i \in DOMAIN tables.envs : tables'.envs[i].gid = tables.envs[i].gid
  <2>1. tables.envs \in Seq(Row) /\ tables'.envs \in Seq(Row)
    BY UpdateRowType DEF SendTypes, WriterTypeOK, Tables
  <2> QED
    BY <2>1, GidUpdateTouches
<1>4. IdsInv'
  <2>1. \A k \in DOMAIN wq' : IsIdWrite(k)' /\ wq'[k].gid # None => MadeFor(wq'[k].gid, wq'[k].id)
    BY <1>2 DEF CopiesInv, IdsInv, IsIdWrite
  <2> QED
    BY <1>1, <1>3, <2>1 DEF CopiesInv, IdsInv, MadeFor
<1>5. EveryCopyAccounted'
  <2> SUFFICES ASSUME NEW g \in DOMAIN copies, g \notin orphans,
                      ~ (job[copies[g]] = "created" /\ got[copies[g]] = g)
               PROVE  \/ tables'.envs[copies[g]].gid = g
                      \/ \E n \in Queued(copies[g])' : wq'[n].gid = g
    BY <1>1 DEF EveryCopyAccounted
  <2>1. copies[g] \in DOMAIN tables.envs
    BY DEF CopiesInv, IdsInv
  <2>2. ASSUME NEW k \in Queued(copies[g]), wq[k].gid = g
        PROVE  \E n \in Queued(copies[g])' : wq'[n].gid = g
    <3>1. k # 1
      BY <1>2 DEF Queued
    <3> QED
      BY <1>1, <1>2, <2>2, <3>1 DEF Queued
  <2> QED
    BY <1>3, <2>1, <2>2 DEF CopiesInv, EveryCopyAccounted
<1>6. RowsInv'
  <2>1. OneActive(tables'.envs)
    <3>1. CASE UNCHANGED tables
      BY <3>1 DEF CopiesInv, RowsInv
    <3>2. ASSUME NEW i \in Targets(tables, Head(wq)), NEW e,
                 e = Revised(tables.envs[i], Head(wq)),
                 RowOK(tables, i, e), tables' = [tables EXCEPT !.envs[i] = e]
          PROVE  OneActive(tables'.envs)
      <4>1. tables \in Tables /\ tables.envs \in Seq(Row) /\ i \in DOMAIN tables.envs
        BY DEF SendTypes, WriterTypeOK, Tables, Targets
      <4>2. tables'.envs = [tables.envs EXCEPT ![i] = e]
        BY <3>2, <4>1 DEF Tables
      <4>3. \A j \in DOMAIN tables.envs \ {i} :
              IsActive(e) /\ tables.envs[j].ssn = e.ssn => ~ IsActive(tables.envs[j])
        BY <3>2 DEF RowOK
      <4>4. /\ DOMAIN tables'.envs = DOMAIN tables.envs /\ tables'.envs[i] = e
            /\ \A j \in DOMAIN tables.envs \ {i} : tables'.envs[j] = tables.envs[j]
        BY <4>1, <4>2
      <4> QED
        BY <4>3, <4>4 DEF CopiesInv, RowsInv, OneActive
    <3> QED
      BY <3>1, <3>2 DEF UpdateRow
  <2> QED
    BY <1>1, <2>1 DEF RowsInv, OneActive, IsActive
<1> QED
  BY <1>4, <1>5, <1>6 DEF CopiesInv

LEMMA UpdateRowCopies ==
  ASSUME NEW C, NEW O, SendTypes(C), SenderWith(O), CopiesInv, UpdateRow, UNCHANGED sendVars
  PROVE  CopiesInv'
BY IdUpdateCopies, GidUpdateCopies DEF UpdateRow, Serving

LEMMA WriteLostCopies ==
  ASSUME NEW C, SendTypes(C), CopiesInv, WriteLost
  PROVE  CopiesInv'
<1>1. /\ UNCHANGED <<tables, got, copies, job>> /\ orphans \subseteq orphans'
      /\ txn' # None => txn' = txn
  BY DEF WriteLost, WriteFails
<1>2. RowsInv'
  BY <1>1 DEF CopiesInv, RowsInv, OneActive, IsActive
<1>3. CASE UNCHANGED <<wq, orphans>>
  <2>1. IdsInv'
    BY <1>1, <1>3 DEF CopiesInv, IdsInv, MadeFor, IsIdWrite
  <2>2. EveryCopyAccounted'
    BY <1>1, <1>3 DEF CopiesInv, EveryCopyAccounted, Queued
  <2> QED
    BY <1>2, <2>1, <2>2 DEF CopiesInv
<1>4. CASE /\ wq # << >> /\ wq' = Tail(wq)
           /\ Head(wq).op = "UpdateStatusWithId" =>
                Head(wq).gid = None \/ Head(wq).gid \in orphans'
  BY <1>1, <1>2, <1>4, TailCopies DEF CopiesInv
<1> QED
  BY <1>3, <1>4 DEF WriteLost, WriteFails

-----------------------------------------------------------------------------
(***************************************************************************)
(* The jobs.                                                               *)
(***************************************************************************)

\* What the jobs never touch.
LEMMA JobKeepsRows ==
  ASSUME CopiesInv, UNCHANGED <<tables, txn>>
  PROVE  RowsInv'
BY DEF CopiesInv, RowsInv, OneActive, IsActive

LEMMA CreateCopies ==
  ASSUME NEW C, NEW O, SendTypes(C), SenderWith(O), CopiesInv, NEW i \in RowIds, DocusignCreates(i)
  PROVE  CopiesInv'
<1>1. /\ UNCHANGED <<tables, wq, txn, orphans>> /\ job[i] = "posting"
      /\ job' = [job EXCEPT ![i] = "created"]
      /\ got' = [got EXCEPT ![i] = Len(copies) + 1]
      /\ copies' = Append(copies, i)
  BY DEF DocusignCreates, writerVars
<1>2. job \in [RowIds -> JobState] /\ got \in [RowIds -> Nat \cup {None}] /\ copies \in Seq(RowIds)
  BY DEF SendTypes, SendStateOK
<1>3. /\ Len(copies) + 1 \in DOMAIN copies' /\ copies'[Len(copies) + 1] = i
      /\ \A g \in DOMAIN copies :
           g \in DOMAIN copies' /\ copies'[g] = copies[g] /\ g # Len(copies) + 1
      /\ \A g \in DOMAIN copies' : g \in DOMAIN copies \/ g = Len(copies) + 1
  BY <1>1, <1>2, AppendQueue
<1>4. i \in DOMAIN tables.envs
  BY <1>1 DEF SenderWith, JobInv, Working, Unsent
<1>5. IdsInv'
  BY <1>1, <1>2, <1>3, <1>4 DEF CopiesInv, IdsInv, MadeFor, IsIdWrite
<1>6. EveryCopyAccounted'
  BY <1>1, <1>2, <1>3 DEF CopiesInv, EveryCopyAccounted, Queued
<1> QED
  BY <1>1, <1>5, <1>6, JobKeepsRows DEF CopiesInv

\* A job lets go of its id: into the queue, or by a fault.
LEMMA WriteCopies ==
  ASSUME NEW C, NEW O, SendTypes(C), SenderWith(O), CopiesInv, NEW i \in RowIds,
         RecordSent(i) \/ ConnectionError(i)
  PROVE  CopiesInv'
<1>1. PICK r \in Request(C) :
        /\ r.op = "UpdateStatusWithId" /\ r.id = i
        /\ r.gid = got[i] \/ (r.gid = None /\ got[i] \in orphans' \cup {None})
        /\ Submit(r)
  <2>1. PICK g \in Nat \cup {None}, st \in Status, err \in BOOLEAN :
          /\ Write(i, g, st, err)
          /\ g = got[i] \/ (g = None /\ got[i] \in orphans' \cup {None})
    BY DEF RecordSent, ConnectionError, SendTypes, SendStateOK, Status, Terminal
  <2> DEFINE r == [op |-> "UpdateStatusWithId", id |-> i, gid |-> g, status |-> st,
                   reason |-> FALSE, apiErr |-> err, from |-> i]
  <2>2. r \in Request(C)
    BY MaxRowsAssumption DEF Request, IdReq, RowIds, SendClients, SendTypes
  <2>3. r.op = "UpdateStatusWithId" /\ r.id = i /\ r.gid = g
    OBVIOUS
  <2> QED
    BY <2>1, <2>2, <2>3 DEF Write
<1>2. /\ Len(wq) + 1 \in DOMAIN wq' /\ wq'[Len(wq) + 1] = r
      /\ \A k \in DOMAIN wq : k \in DOMAIN wq' /\ wq'[k] = wq[k] /\ k # Len(wq) + 1
      /\ \A k \in DOMAIN wq' : k \in DOMAIN wq \/ k = Len(wq) + 1
  BY <1>1, AppendQueue DEF Submit, SendTypes, WriterTypeOK
<1>3. /\ UNCHANGED <<tables, txn, copies>> /\ orphans \subseteq orphans'
      /\ job' = [job EXCEPT ![i] = "writing"] /\ got' = [got EXCEPT ![i] = None]
  BY <1>1 DEF RecordSent, ConnectionError, Write, Submit
<1>4. job \in [RowIds -> JobState] /\ got \in [RowIds -> Nat \cup {None}] /\ copies \in Seq(RowIds)
  BY DEF SendTypes, SendStateOK
<1>5. IdsInv'
  <2>1. got[i] # None => MadeFor(got[i], i)
    BY DEF CopiesInv, IdsInv
  <2>2. \A k \in DOMAIN wq' : IsIdWrite(k)' /\ wq'[k].gid # None =>
          MadeFor(wq'[k].gid, wq'[k].id)
    BY <1>1, <1>2, <2>1 DEF CopiesInv, IdsInv, IsIdWrite
  <2>3. \A j \in RowIds : got'[j] # None => job'[j] = "created" /\ MadeFor(got'[j], j)
    BY <1>3, <1>4 DEF CopiesInv, IdsInv
  <2> QED
    BY <1>3, <2>2, <2>3 DEF CopiesInv, IdsInv, MadeFor
<1>6. EveryCopyAccounted'
  <2> SUFFICES ASSUME NEW g \in DOMAIN copies, g \notin orphans'
               PROVE  \/ tables.envs[copies[g]].gid = g
                      \/ job'[copies[g]] = "created" /\ got'[copies[g]] = g
                      \/ \E k \in Queued(copies[g])' : wq'[k].gid = g
    BY <1>3 DEF EveryCopyAccounted
  <2>1. g # None /\ copies[g] \in RowIds
    BY <1>4, NoneAssumption
  <2>2. CASE job[copies[g]] = "created" /\ got[copies[g]] = g /\ copies[g] = i
    BY <1>1, <1>2, <1>3, <2>1, <2>2 DEF Queued
  <2>3. CASE job[copies[g]] = "created" /\ got[copies[g]] = g /\ copies[g] # i
    BY <1>3, <1>4, <2>1, <2>3
  <2>4. ASSUME NEW k \in Queued(copies[g]), wq[k].gid = g
        PROVE  k \in Queued(copies[g])' /\ wq'[k].gid = g
    BY <1>2, <1>3, <2>4 DEF Queued
  <2> QED
    BY <1>3, <2>2, <2>3, <2>4 DEF CopiesInv, EveryCopyAccounted
<1> QED
  BY <1>3, <1>5, <1>6, JobKeepsRows DEF CopiesInv

LEMMA NothingRecordedCopies ==
  ASSUME NEW C, SendTypes(C), CopiesInv, NEW i \in RowIds, NothingRecorded(i)
  PROVE  CopiesInv'
<1>1. /\ UNCHANGED <<tables, wq, txn, copies>>
      /\ job' = [job EXCEPT ![i] = "none"] /\ got' = [got EXCEPT ![i] = None]
      /\ orphans \subseteq orphans' /\ got[i] \in orphans' \cup {None}
  BY DEF NothingRecorded, writerVars
<1>2. job \in [RowIds -> JobState] /\ got \in [RowIds -> Nat \cup {None}] /\ copies \in Seq(RowIds)
  BY DEF SendTypes, SendStateOK
<1>3. IdsInv'
  BY <1>1, <1>2 DEF CopiesInv, IdsInv, MadeFor, IsIdWrite
<1>4. EveryCopyAccounted'
  BY <1>1, <1>2, NoneAssumption DEF CopiesInv, EveryCopyAccounted, Queued
<1> QED
  BY <1>1, <1>3, <1>4, JobKeepsRows DEF CopiesInv

LEMMA OtherJobCopies ==
  ASSUME NEW C, SendTypes(C), CopiesInv, NEW i \in RowIds,
         StartJob(i) \/ RateLimited(i) \/ PostAgain(i) \/ Written(i)
  PROVE  CopiesInv'
<1>1. /\ UNCHANGED <<tables, wq, txn, got, copies, orphans>>
      /\ job[i] # "created"
      /\ \E st \in JobState \ {"created"} : job' = [job EXCEPT ![i] = st]
  BY DEF StartJob, RateLimited, PostAgain, Written, TakeReply, writerVars, JobState
<1>2. job \in [RowIds -> JobState] /\ copies \in Seq(RowIds)
  BY DEF SendTypes, SendStateOK
<1> QED
  BY <1>1, <1>2, IdleCopies

\* A job in a get() holds no id.
LEMMA StrandsCopies ==
  ASSUME NEW C, SendTypes(C), CopiesInv, Strands, Unmoved
  PROVE  CopiesInv'
<1>1. UNCHANGED <<tables, wq, txn, got, copies, orphans>>
  BY DEF Strands, Unmoved
<1>2. \A i \in RowIds : job[i] = "created" <=> job'[i] = "created"
  BY DEF Strands
<1> QED
  BY <1>1, <1>2, IdleCopies DEF SendTypes, SendStateOK

\* Every job is dropped, and the ids they hold become orphans.
LEMMA PanicAndCrashCopies ==
  ASSUME NEW C, SendTypes(C), CopiesInv, (Unwinds /\ Unmoved) \/ Crash
  PROVE  CopiesInv'
<1>1. /\ UNCHANGED <<tables, copies>> /\ orphans \subseteq orphans'
      /\ \A i \in RowIds : got'[i] = None /\ got[i] \in orphans' \cup {None}
      /\ txn' # None => txn' = txn
  BY DEF Unwinds, Unmoved, Crash, WriterCrash
<1>2. UNCHANGED wq \/ (wq' = << >> /\ QueuedIds \subseteq orphans' \cup {None})
  BY DEF Unmoved, Crash, WriterCrash
<1>3. copies \in Seq(RowIds)
  BY DEF SendTypes, SendStateOK
<1>4. IdsInv'
  BY <1>1, <1>2 DEF CopiesInv, IdsInv, MadeFor, IsIdWrite
<1>5. RowsInv'
  BY <1>1 DEF CopiesInv, RowsInv, OneActive, IsActive
<1>6. EveryCopyAccounted'
  <2> SUFFICES ASSUME NEW g \in DOMAIN copies, g \notin orphans'
               PROVE  \/ tables.envs[copies[g]].gid = g
                      \/ \E k \in Queued(copies[g])' : wq'[k].gid = g
    BY <1>1 DEF EveryCopyAccounted
  <2>1. g # None /\ copies[g] \in RowIds
    BY <1>3, NoneAssumption
  <2>2. got[copies[g]] # g
    BY <1>1, <2>1
  <2>3. ASSUME NEW k \in Queued(copies[g]), wq[k].gid = g
        PROVE  k \in Queued(copies[g])' /\ wq'[k].gid = g
    BY <1>1, <1>2, <2>1, <2>3 DEF Queued, QueuedIds
  <2> QED
    BY <1>1, <2>2, <2>3 DEF CopiesInv, EveryCopyAccounted
<1> QED
  BY <1>4, <1>5, <1>6 DEF CopiesInv
-----------------------------------------------------------------------------
LEMMA NextCopies ==
  ASSUME NEW C, NEW O, SendTypes(C), SenderWith(O), CopiesInv, [Next]_vars
  PROVE  CopiesInv'
<1>1. ASSUME NEW h \in Posts, PostAnswered(h) \/ PostCancelled(h)
      PROVE  CopiesInv'
  <2>1. UNCHANGED <<tables, wq, txn, got, copies, orphans, job>>
    BY <1>1 DEF PostAnswered, PostCancelled, TakeReply
  <2> QED
    BY <2>1, IdleCopies DEF SendTypes, SendStateOK
<1>2. CASE WriterStep /\ UNCHANGED sendVars
  BY <1>2, BeginBatchCopies, InsertNextCopies, CommitCopies, UpdateRowCopies DEF WriterStep
<1>3. CASE Wake \/ ReadFails \/ AllSent \/ Rest \/ UNCHANGED vars
  <2>1. UNCHANGED <<tables, wq, txn, got, copies, orphans, job>>
    BY <1>3 DEF Wake, ReadFails, AllSent, Rest, vars, writerVars, sendVars
  <2> QED
    BY <2>1, IdleCopies DEF SendTypes, SendStateOK
<1>4. CASE ReadUnsent
  <2>1. /\ UNCHANGED <<tables, wq, txn, got, copies, orphans>>
        /\ \A i \in RowIds : job[i] = "none" /\ job'[i] \in {"none", "todo"}
    BY <1>4 DEF ReadUnsent, writerVars, SenderWith, JobInv
  <2> QED
    BY <2>1, IdleCopies DEF SendTypes, SendStateOK
<1>5. ASSUME NEW i \in RowIds, Job(i)
      PROVE  CopiesInv'
  BY <1>5, CreateCopies, WriteCopies, NothingRecordedCopies, OtherJobCopies DEF Job
<1> QED
  BY <1>1, <1>2, <1>3, <1>4, <1>5, PostBatchCopies, WriteLostCopies, PanicAndCrashCopies,
     StrandsCopies, AskersEnd
  DEF Next, SendStep

LEMMA CopiesInvariant == Spec => [](SendTypeOK /\ SenderInv /\ CopiesInv)
<1>1. Init => CopiesInv
  BY CopiesInit
<1>2. SendTypeOK /\ SenderInv /\ CopiesInv /\ [Next]_vars => CopiesInv'
  BY AloneTypes, AloneSender, NextCopies
<1> QED
  BY <1>1, <1>2, SenderInvariant, PTL DEF Spec

(* Every envelope DocuSign made is stored, in an answer or in the queue,   *)
(* or a named fault lost its id: no batch, retry or interleaving does.     *)
THEOREM CopiesAccounted == Spec => []EveryCopyAccounted
<1>1. CopiesInv => EveryCopyAccounted
  BY DEF CopiesInv
<1> QED
  BY <1>1, CopiesInvariant, PTL

(* A row is mailed twice only after a fault lost the id of one envelope.   *)
THEOREM NoSecondEnvelope == Spec => []OneEnvelopePerRow
<1>1. SendTypeOK /\ SenderInv /\ CopiesInv => OneEnvelopePerRow
  <2> SUFFICES ASSUME SendTypeOK, SenderInv, CopiesInv,
                      NEW g \in DOMAIN copies, NEW h \in DOMAIN copies,
                      copies[g] = copies[h], g \notin orphans, h \notin orphans
               PROVE  g = h
    BY DEF OneEnvelopePerRow
  <2> DEFINE i == copies[g]
             Stored(x)  == tables.envs[i].gid = x
             Held(x)    == job[i] = "created" /\ got[i] = x
             Sent(x) == \E k \in Queued(i) : wq[k].gid = x
  <2>1. (Stored(g) \/ Held(g) \/ Sent(g)) /\ (Stored(h) \/ Held(h) \/ Sent(h))
    BY DEF CopiesInv, EveryCopyAccounted
  <2>2. g # None /\ h # None /\ i \in RowIds
    BY NoneAssumption DEF SendTypeOK, SendStateOK
  <2>3. job[i] = "created" => i \in Unsent(tables) /\ Queued(i) = {}
    BY <2>2 DEF SenderInv, JobInv, QueueInv, Working, Queued, IsIdWrite
  <2>4. Queued(i) # {} => i \in Unsent(tables)
    BY DEF SenderInv, QueueInv, Queued, IsIdWrite
  <2>5. \A k, n \in Queued(i) : k = n
    BY DEF SenderInv, QueueInv, Queued, IsIdWrite
  <2>6. i \in Unsent(tables) => ~ Stored(g) /\ ~ Stored(h)
    BY <2>2 DEF Unsent
  <2> QED
    BY <2>1, <2>3, <2>4, <2>5, <2>6
<1> QED
  BY <1>1, CopiesInvariant, PTL

(* An answer of DocuSign's that waits in the queue is never turned away by *)
(* an index: its row is still the person's only active one, whatever was   *)
(* stored since, and no other row has been given its id.                   *)
THEOREM SenderWritesFit == Spec => []IdWritesFit
<1>1. SendTypeOK /\ SenderInv /\ CopiesInv => IdWritesFit
  BY AloneTypes, AloneSender, IdWritesDoFit DEF IdWritesFit
<1> QED
  BY <1>1, CopiesInvariant, PTL
=============================================================================
