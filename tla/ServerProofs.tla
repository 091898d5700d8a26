---------------------------- MODULE ServerProofs ----------------------------
(***************************************************************************)
(* Theorems about the whole server (StatusPipeline) and its end (Shutdown),*)
(* for any number of requests, calls, rows, events and faults.             *)
(*                                                                         *)
(* The steps of the sending half keep its own invariant with the webhook's *)
(* and the completed processor's writes in the queue (SendPipelineProofs); *)
(* what is added here relates those writes to DocuSign's events and to the *)
(* answers the webhook gives.                                              *)
(***************************************************************************)
EXTENDS Shutdown, SendBatchesProofs

(***************************************************************************)
(* The inductive invariant: SendTypes(Everyone), SenderWith(ByGid) and     *)
(* CopiesInv of the sending half, IdsAtHand, StatusStateOK, and the five    *)
(* parts below.                                                            *)
(***************************************************************************)

\* Who may wait for an answer, and what the status half writes.
Everyone == SendClients \cup Calls
ByGid == StatusReq(Calls)

StatusStateOK ==
  /\ raised \in [Gids -> Seq(Events)]
  /\ hooks \subseteq Message /\ acked \subseteq Message
  /\ calls \in [Calls -> {Idle} \cup [pc : {"waiting"}, msg : Message]]
  /\ cpTok \in BOOLEAN /\ missed \in BOOLEAN
  /\ cp \in {"idle", "reading", "fetching", "stuck", "dead"}
  /\ gets \subseteq Gids

\* A job that has a 201 has the envelope id.
IdsAtHand == \A i \in RowIds : job[i] = "created" => got[i] # None

SendInv == SendTypes(Everyone) /\ SenderWith(ByGid) /\ CopiesInv /\ IdsAtHand

\* DocuSign raised event st of envelope g.
Said(g, st) == g \in DOMAIN copies /\ st \in Range(raised[g])

\* ReportedOnly of one row, but for the row its envelope was made for.
RowSaid(e) ==
  /\ e.gid # None => (e.status = "sent" \/ Said(e.gid, e.status)) /\ ~ e.apiErr
  /\ e.gid = None => e.status \in {None, "cancelled"}
  /\ e.reason => e.status = "voided"

\* What a write says: that of a job, and those of the webhook and of the processor.
WriteSaid(r) ==
  /\ r.op = "UpdateStatusWithId" =>
       /\ ~ r.reason
       /\ IF r.gid = None THEN r.status = "cancelled" ELSE r.status = "sent" /\ ~ r.apiErr
  /\ r.op = "UpdateStatus" =>
       /\ Said(r.gid, r.status)
       /\ ~ r.apiErr
       /\ r.reason <=> r.from = None
       /\ r.from = None => r.status = "voided"

\* A row that a transaction under way has added.
NewRowsBlank ==
  txn # None => \A i \in DOMAIN txn.work.envs \ DOMAIN tables.envs :
    txn.work.envs[i].status = None /\ ~ txn.work.envs[i].reason

SaidInv ==
  /\ Len(copies) <= MaxCopies
  /\ \A i \in DOMAIN tables.envs : RowSaid(tables.envs[i])
  /\ NewRowsBlank
  /\ \A k \in DOMAIN wq : WriteSaid(wq[k])
  /\ \A m \in hooks \cup acked : Said(m.gid, m.event)
  /\ \A k \in Calls : calls[k].pc = "waiting" => Said(calls[k].msg.gid, calls[k].msg.event)
  /\ \A g \in gets : Said(g, "voided")

\* Request r stores message m.
Stores(r, m) ==
  r.op = "UpdateStatus" /\ r.from # None /\ r.gid = m.gid /\ r.status = m.event

\* k awaits the answer to its request, the last one for its message, or has it
\* and no request for that message is left.
CallOK(k) ==
  /\ \A n \in DOMAIN wq : wq[n].from = k => Stores(wq[n], calls[k].msg)
  /\ IF \E a \in replies : a.to = k
       THEN \A n \in DOMAIN wq : ~ Stores(wq[n], calls[k].msg)
       ELSE \E p \in DOMAIN wq :
              /\ wq[p].from = k
              /\ \A n \in DOMAIN wq : Stores(wq[n], calls[k].msg) => n <= p

CallInv ==
  /\ \A k \in Calls : k \in awaiting <=> calls[k].pc = "waiting"
  /\ \A a \in replies : a.to \in Calls => a.to \in awaiting
  /\ \A a, b \in replies : a.to \in Calls /\ a.to = b.to => a = b
  /\ \A n, p \in DOMAIN wq : wq[n].from \in Calls /\ wq[n].from = wq[p].from => n = p
  /\ \A k \in Calls : calls[k].pc = "waiting" => CallOK(k)

\* A message whose write is in the queue has no 200 yet, or again.
HookInv ==
  \A n \in DOMAIN wq : wq[n].op = "UpdateStatus" /\ wq[n].from # None =>
    \E m \in hooks : Stores(wq[n], m)

\* The row of m's envelope says what an event said.
Settled(m) ==
  \E i \in DOMAIN tables.envs :
    tables.envs[i].gid = m.gid /\ tables.envs[i].status \in Range(raised[m.gid])

AckInv ==
  /\ \A m \in acked : Settled(m)
  /\ \A a \in replies : a.to \in Calls /\ a.res = "Ok" => Settled(calls[a.to].msg)

VoidInv == VoidWorkNotForgotten /\ (cp \in {"stuck", "dead"} => missed)

StatusInv ==
  SendInv /\ StatusStateOK /\ SaidInv /\ CallInv /\ HookInv /\ AckInv /\ VoidInv
-----------------------------------------------------------------------------
(***************************************************************************)
(* Facts about constants, types and messages.                              *)
(***************************************************************************)

LEMMA CallsAside ==
  /\ Calls \cap RowIds = {} /\ Calls \cap Posts = {} /\ None \notin Calls
  /\ Calls \cap SendClients = {} /\ None \notin SendClients /\ Calls \subseteq Everyone
  /\ SendClients \subseteq Everyone
BY CallsAssumption, RowIdsAndPosts, MaxRowsAssumption DEF RowIds, SendClients, Everyone

LEMMA EventsAreStatuses ==
  /\ \A e \in Events : e \in Status /\ e # None /\ e # "sent" /\ e # "cancelled"
  /\ "sent" \in Status /\ "voided" \in Status /\ "cancelled" \in Status
  /\ None \notin Status
BY EventsAssumption, NoneAssumption DEF Status, Terminal

LEMMA GidsAreNumbers ==
  /\ Gids \subseteq Nat /\ None \notin Gids
  /\ \A g \in Nat : 1 <= g /\ g <= MaxCopies => g \in Gids
BY MaxCopiesAssumption, NoneAssumption DEF Gids

\* A message is what it says.
LEMMA SameMessage ==
  ASSUME NEW m \in Message, NEW p \in Message, m.gid = p.gid, m.event = p.event
  PROVE  m = p
BY DEF Message

LEMMA MessageParts ==
  /\ \A m \in Message : m.gid \in Gids /\ m.event \in Events
  /\ \A g \in Gids, e \in Events :
       /\ [gid |-> g, event |-> e] \in Message
       /\ [gid |-> g, event |-> e].gid = g
       /\ [gid |-> g, event |-> e].event = e
BY DEF Message

LEMMA CallParts ==
  ASSUME StatusStateOK, NEW k \in Calls
  PROVE  /\ calls[k].pc = "waiting" => calls[k].msg \in Message
         /\ calls[k].pc # "waiting" => calls[k] = Idle
         /\ Idle.pc = "idle" /\ Idle.msg = None
BY DEF StatusStateOK, Idle

LEMMA StatusTypes ==
  StatusTypeOK <=> SendTypes(Everyone) /\ StatusStateOK
BY DEF StatusTypeOK, SendTypes, StatusStateOK, Everyone

\* DocuSign speaks of envelopes it has created.
LEMMA SaidParts ==
  ASSUME SendTypes(Everyone), StatusStateOK, SaidInv, NEW g, NEW st, Said(g, st)
  PROVE  g \in Gids /\ g \in Nat /\ g # None /\ st \in Events /\ st \in Status
<1>1. g \in Nat /\ 1 <= g /\ g <= MaxCopies
  <2>1. copies \in Seq(RowIds) /\ Len(copies) <= MaxCopies /\ g \in DOMAIN copies
    BY DEF SendTypes, SendStateOK, SaidInv, Said
  <2> QED
    BY <2>1, MaxCopiesAssumption
<1>2. g \in Gids
  BY <1>1, GidsAreNumbers
<1>3. raised[g] \in Seq(Events)
  BY <1>2 DEF StatusStateOK
<1>4. st \in Events
  BY <1>3 DEF Said, Range
<1> QED
  BY <1>2, <1>4, GidsAreNumbers, EventsAreStatuses

\* What was said stays said.
LEMMA SaidStays ==
  ASSUME NEW g, NEW st, Said(g, st),
         \A h \in DOMAIN copies : h \in DOMAIN copies',
         UNCHANGED raised
  PROVE  Said(g, st)'
BY DEF Said
LEMMA StatusInitInv ==
  ASSUME StatusInit PROVE StatusInv
<1>1. SendTypes(Everyone) /\ SenderWith(ByGid) /\ CopiesInv
  BY SendInitType, SenderInit, CopiesInit, CallsAside DEF StatusInit
<1>2. DOMAIN wq = {} /\ DOMAIN tables.envs = {} /\ Len(copies) = 0
  BY DEF StatusInit, Init, WriterInit, EmptyTables
<1>3. /\ replies = {} /\ awaiting = {} /\ txn = None
      /\ hooks = {} /\ acked = {} /\ gets = {} /\ cp = "idle"
      /\ \A k \in Calls : calls[k] = Idle
  BY DEF StatusInit, Init, WriterInit
<1>0. cpTok /\ ~ missed
  BY DEF StatusInit
<1>4. StatusStateOK
  <2>1. cpTok \in BOOLEAN /\ missed \in BOOLEAN
    BY DEF StatusInit
  <2>2. raised \in [Gids -> Seq(Events)]
    BY DEF StatusInit
  <2>3. calls \in [Calls -> {Idle} \cup [pc : {"waiting"}, msg : Message]]
    BY DEF StatusInit
  <2> QED
    BY <1>3, <2>1, <2>2, <2>3 DEF StatusStateOK
<1>5. SaidInv
  BY <1>2, <1>3, MaxCopiesAssumption DEF SaidInv, NewRowsBlank, Idle
<1>6. CallInv
  BY <1>2, <1>3 DEF CallInv, Idle
<1>7. HookInv /\ AckInv
  BY <1>2, <1>3 DEF HookInv, AckInv
<1>8. VoidInv
  BY <1>0, <1>3 DEF VoidInv, VoidWorkNotForgotten
<1>9. IdsAtHand
  BY DEF StatusInit, Init, IdsAtHand
<1> QED
  BY <1>1, <1>9, <1>4, <1>5, <1>6, <1>7, <1>8 DEF StatusInv, SendInv
-----------------------------------------------------------------------------
(***************************************************************************)
(* The sending half goes on as before.                                     *)
(***************************************************************************)

LEMMA NextIdsAtHand ==
  ASSUME SendTypes(Everyone), IdsAtHand, [Next]_vars PROVE IdsAtHand'
<1>0. /\ job \in [RowIds -> JobState] /\ got \in [RowIds -> Nat \cup {None}]
      /\ Len(copies) + 1 # None
  BY NoneAssumption DEF SendTypes, SendStateOK
<1>1. CASE UNCHANGED <<job, got>>
  BY <1>1 DEF IdsAtHand
<1>2. ASSUME NEW i \in RowIds, Job(i) PROVE IdsAtHand'
  <2>1. CASE StartJob(i) \/ RateLimited(i) \/ PostAgain(i) \/ Written(i)
    BY <1>0, <2>1 DEF StartJob, RateLimited, PostAgain, Written, IdsAtHand
  <2>2. CASE DocusignCreates(i)
    BY <1>0, <2>2 DEF DocusignCreates, IdsAtHand
  <2>3. CASE RecordSent(i) \/ ConnectionError(i) \/ NothingRecorded(i)
    BY <1>0, <2>3 DEF RecordSent, ConnectionError, NothingRecorded, Write, IdsAtHand
  <2> QED
    BY <1>2, <2>1, <2>2, <2>3 DEF Job
<1>3. CASE ReadUnsent \/ Crash
  BY <1>0, <1>3 DEF ReadUnsent, Crash, IdsAtHand
<1>6. CASE ProcessorPanics \/ TokenTaskDies
  BY <1>0, <1>6, AskersEnd DEF Unwinds, Strands, IdsAtHand
<1>4. ASSUME NEW h \in Posts, PostBatch(h) \/ PostAnswered(h) \/ PostCancelled(h)
      PROVE  UNCHANGED <<job, got>>
  BY <1>4 DEF PostBatch, PostAnswered, PostCancelled
<1>5. Wake \/ ReadFails \/ AllSent \/ WriteLost \/ Rest \/ UNCHANGED vars
        \/ UNCHANGED sendVars => UNCHANGED <<job, got>>
  BY DEF Wake, ReadFails, AllSent, WriteLost, Rest, vars, sendVars
<1> QED
  BY <1>1, <1>2, <1>3, <1>4, <1>5, <1>6 DEF Next, SendStep

LEMMA SendInvKept ==
  ASSUME SendInv, [Next]_vars PROVE SendInv'
<1>1. SendTypes(Everyone)'
  BY NextTypes DEF SendInv
<1>2. SenderWith(ByGid)'
  BY NextSenders DEF SendInv
<1>3. CopiesInv'
  BY NextCopies DEF SendInv
<1>4. IdsAtHand'
  BY NextIdsAtHand DEF SendInv
<1> QED
  BY <1>1, <1>2, <1>3, <1>4 DEF SendInv

\* The webhook or the processor puts a write of its own behind the others.
LEMMA OtherSubmitted ==
  ASSUME SendInv, NEW r \in ByGid, r.from \notin SendClients, Submit(r),
         UNCHANGED sendVars
  PROVE  SendInv'
<1>1. r \in Request(Everyone) /\ r.op = "UpdateStatus"
  BY DEF ByGid, Request, StatusReq, Everyone
<1>2. /\ SendClients \subseteq Everyone /\ WriterTypeOK(Everyone) /\ SendStateOK
      /\ wq \in Seq(Request(Everyone))
  BY DEF SendInv, SendTypes, WriterTypeOK
<1>3. SendTypes(Everyone)'
  <2>1. WriterTypeOK(Everyone)'
    BY <1>1, <1>2, SubmitType
  <2>2. SendStateOK'
    BY <1>2 DEF sendVars, SendStateOK
  <2> QED
    BY <1>2, <2>1, <2>2 DEF SendTypes
<1>4. /\ Len(wq) + 1 \in DOMAIN wq' /\ wq'[Len(wq) + 1] = r
      /\ \A k \in DOMAIN wq : k \in DOMAIN wq' /\ wq'[k] = wq[k] /\ k # Len(wq) + 1
      /\ \A k \in DOMAIN wq' : k \in DOMAIN wq \/ k = Len(wq) + 1
  BY <1>1, <1>2, AppendQueue DEF Submit
<1>5. /\ UNCHANGED <<tables, txn, replies, job, nbp, got, copies, orphans>>
      /\ \A i \in RowIds : i \in awaiting' <=> i \in awaiting
  BY DEF Submit, sendVars, SendClients
<1>6. SenderWith(ByGid)'
  <2>1. QueueWith(ByGid)'
    BY <1>1, <1>4, <1>5 DEF SendInv, SenderWith, QueueWith, OtherWrite, IsIdWrite, Unsent
  <2>2. JobInv'
    BY <1>4, <1>5 DEF SendInv, SenderWith, JobInv, IsIdWrite, Working, Unsent
  <2>3. ReplyInv'
    BY <1>5 DEF SendInv, SenderWith, ReplyInv, Submit
  <2>4. TxnInv'
    BY <1>5 DEF SendInv, SenderWith, TxnInv
  <2> QED
    BY <2>1, <2>2, <2>3, <2>4 DEF SenderWith
<1>7. CopiesInv'
  <2>1. IdsInv'
    BY <1>1, <1>4, <1>5 DEF SendInv, CopiesInv, IdsInv, MadeFor, IsIdWrite
  <2>2. RowsInv'
    BY <1>5 DEF SendInv, CopiesInv, RowsInv, OneActive, IsActive
  <2>3. EveryCopyAccounted'
    BY <1>4, <1>5 DEF SendInv, CopiesInv, EveryCopyAccounted, Queued
  <2> QED
    BY <2>1, <2>2, <2>3 DEF CopiesInv
<1>8. IdsAtHand'
  BY DEF SendInv, IdsAtHand, sendVars
<1> QED
  BY <1>3, <1>6, <1>7, <1>8 DEF SendInv

\* An answer to the webhook is taken or dropped, or nothing of the writer's moves.
LEMMA OtherAnswered ==
  ASSUME SendInv, UNCHANGED <<tables, wq, txn, sendVars>>, faults' \in Nat,
         replies' \subseteq replies, awaiting' \subseteq awaiting,
         \A a \in replies : a.to \in RowIds => a \in replies',
         \A i \in RowIds : i \in awaiting => i \in awaiting'
  PROVE  SendInv'
<1>1. SendTypes(Everyone)'
  BY DEF SendInv, SendTypes, WriterTypeOK, SendStateOK, sendVars
<1>2. UNCHANGED <<job, nbp, got, copies, orphans>>
  BY DEF sendVars
<1>3. SenderWith(ByGid)'
  <2>1. QueueWith(ByGid)'
    BY <1>2 DEF SendInv, SenderWith, QueueWith, OtherWrite, IsIdWrite, Unsent
  <2>2. JobInv'
    BY <1>2 DEF SendInv, SenderWith, JobInv, IsIdWrite, Working, Unsent
  <2>3. ReplyInv'
    BY <1>2 DEF SendInv, SenderWith, ReplyInv
  <2>4. TxnInv'
    BY DEF SendInv, SenderWith, TxnInv
  <2> QED
    BY <2>1, <2>2, <2>3, <2>4 DEF SenderWith
<1>4. CopiesInv'
  <2>1. copies \in Seq(RowIds)
    BY DEF SendInv, SendTypes, SendStateOK
  <2> QED
    BY <1>2, <2>1, IdleCopies DEF SendInv
<1>5. IdsAtHand'
  BY DEF SendInv, IdsAtHand, sendVars
<1> QED
  BY <1>1, <1>3, <1>4, <1>5 DEF SendInv
-----------------------------------------------------------------------------
(***************************************************************************)
(* Steps of the sending half that are no concern of the status half: they  *)
(* may put requests of their own behind the others, and create envelopes.  *)
(***************************************************************************)

LEMMA AsideStep ==
  ASSUME StatusInv, SendInv', UNCHANGED <<tables, statusVars>>,
         \A n \in DOMAIN wq : n \in DOMAIN wq' /\ wq'[n] = wq[n],
         \A n \in DOMAIN wq' :
           \/ n \in DOMAIN wq
           \/ wq'[n].op # "UpdateStatus" /\ wq'[n].from \notin Calls /\ WriteSaid(wq'[n]),
         \A g \in DOMAIN copies : g \in DOMAIN copies', Len(copies') <= MaxCopies,
         \A k \in Calls : k \in awaiting' <=> k \in awaiting,
         \A a \in replies' : a.to \in Calls => a \in replies,
         \A a \in replies : a.to \in Calls => a \in replies',
         NewRowsBlank'
  PROVE  StatusInv'
<1>1. UNCHANGED <<raised, hooks, calls, cpTok, cp, gets, acked, missed>>
  BY DEF statusVars
<1>2. StatusStateOK'
  BY <1>1 DEF StatusInv, StatusStateOK
<1>3. SaidInv'
  <2>1. \A i \in DOMAIN tables.envs : RowSaid(tables.envs[i])'
    BY <1>1 DEF StatusInv, SaidInv, RowSaid, Said
  <2>2. ASSUME NEW n \in DOMAIN wq' PROVE WriteSaid(wq[n])'
    <3>1. WriteSaid(wq'[n])
      BY DEF StatusInv, SaidInv
    <3> QED
      BY <1>1, <3>1 DEF WriteSaid, Said
  <2>3. \A m \in hooks \cup acked : Said(m.gid, m.event)'
    BY <1>1 DEF StatusInv, SaidInv, Said
  <2>4. \A k \in Calls : calls[k].pc = "waiting" =>
          Said(calls[k].msg.gid, calls[k].msg.event)'
    BY <1>1 DEF StatusInv, SaidInv, Said
  <2>5. \A g \in gets : Said(g, "voided")'
    BY <1>1 DEF StatusInv, SaidInv, Said
  <2> QED
    BY <1>1, <2>1, <2>2, <2>3, <2>4, <2>5 DEF SaidInv
<1>4. CallInv'
  <2>1. ASSUME NEW k \in Calls, calls[k].pc = "waiting"
        PROVE  CallOK(k)'
    <3>1. CallOK(k)
      BY <2>1 DEF StatusInv, CallInv
    <3>2. \A n \in DOMAIN wq' : wq'[n].from = k => Stores(wq'[n], calls[k].msg)
      BY <3>1 DEF CallOK
    <3>3. \A n \in DOMAIN wq' : Stores(wq'[n], calls[k].msg) => n \in DOMAIN wq
      BY DEF Stores
    <3>4. CASE \E a \in replies : a.to = k
      BY <1>1, <3>1, <3>2, <3>3, <3>4 DEF CallOK
    <3>5. CASE ~ \E a \in replies : a.to = k
      BY <1>1, <3>1, <3>2, <3>3, <3>5 DEF CallOK
    <3> QED
      BY <3>4, <3>5
  <2>2. \A n, p \in DOMAIN wq' : wq'[n].from \in Calls /\ wq'[n].from = wq'[p].from => n = p
    BY DEF StatusInv, CallInv
  <2>3. \A a \in replies' : a.to \in Calls => a.to \in awaiting'
    BY DEF StatusInv, CallInv
  <2>4. \A a, b \in replies' : a.to \in Calls /\ a.to = b.to => a = b
    BY DEF StatusInv, CallInv
  <2>5. \A k \in Calls : k \in awaiting' <=> calls[k].pc = "waiting"
    BY DEF StatusInv, CallInv
  <2> QED
    BY <1>1, <2>1, <2>2, <2>3, <2>4, <2>5 DEF CallInv
<1>5. HookInv'
  BY <1>1 DEF StatusInv, HookInv, Stores
<1>6. AckInv'
  BY <1>1 DEF StatusInv, AckInv, Settled
<1>7. VoidInv'
  BY <1>1 DEF StatusInv, VoidInv, VoidWorkNotForgotten, VoidsToFetch
<1> QED
  BY <1>2, <1>3, <1>4, <1>5, <1>6, <1>7 DEF StatusInv

\* Nothing the status half reads has changed.
LEMMA IdleAside ==
  ASSUME StatusInv, SendInv', UNCHANGED <<tables, wq, txn, copies, statusVars>>,
         \A k \in Calls : k \in awaiting' <=> k \in awaiting,
         \A a \in replies' : a.to \in Calls => a \in replies,
         \A a \in replies : a.to \in Calls => a \in replies'
  PROVE  StatusInv'
<1>1. NewRowsBlank'
  BY DEF StatusInv, SaidInv, NewRowsBlank
<1>2. Len(copies') <= MaxCopies
  BY DEF StatusInv, SaidInv
<1> QED
  BY <1>1, <1>2, AsideStep

\* A handler or a job puts its request behind the others.
LEMMA SubmitAside ==
  ASSUME StatusInv, SendInv', UNCHANGED <<copies, statusVars>>,
         NEW r \in Request(Everyone), Submit(r), r.from \in SendClients,
         r.op # "UpdateStatus", WriteSaid(r)
  PROVE  StatusInv'
<1>1. wq \in Seq(Request(Everyone))
  BY DEF StatusInv, SendInv, SendTypes, WriterTypeOK
<1>2. /\ Len(wq) + 1 \in DOMAIN wq' /\ wq'[Len(wq) + 1] = r
      /\ \A k \in DOMAIN wq : k \in DOMAIN wq' /\ wq'[k] = wq[k] /\ k # Len(wq) + 1
      /\ \A k \in DOMAIN wq' : k \in DOMAIN wq \/ k = Len(wq) + 1
  BY <1>1, AppendQueue DEF Submit
<1>3. /\ UNCHANGED <<tables, txn, replies>>
      /\ \A k \in Calls : k \in awaiting' <=> k \in awaiting
      /\ r.from \notin Calls
  BY CallsAside DEF Submit
<1>4. NewRowsBlank'
  BY <1>3 DEF StatusInv, SaidInv, NewRowsBlank
<1>5. Len(copies') <= MaxCopies
  BY DEF StatusInv, SaidInv
<1> QED
  BY <1>2, <1>3, <1>4, <1>5, AsideStep

LEMMA PostAside ==
  ASSUME StatusInv, SendInv', UNCHANGED statusVars, NEW h \in Posts,
         PostBatch(h) \/ PostAnswered(h) \/ PostCancelled(h)
  PROVE  StatusInv'
<1>1. h \notin Calls /\ h \in SendClients
  BY CallsAside DEF SendClients
<1>2. CASE PostBatch(h)
  <2>1. PICK b \in Batches, recs \in Inputs :
          Submit([op |-> "NewBatch", batch |-> b, recs |-> recs, from |-> h])
    BY <1>2 DEF PostBatch
  <2>2. PICK r : r = [op |-> "NewBatch", batch |-> b, recs |-> recs, from |-> h]
    OBVIOUS
  <2>3. r \in Request(Everyone)
    BY <1>1, <2>2, InputsAssumption DEF Request, BatchReq, Everyone
  <2>4. r.op = "NewBatch" /\ r.from = h /\ Submit(r)
    BY <2>1, <2>2
  <2>5. WriteSaid(r)
    BY <2>4 DEF WriteSaid
  <2>6. UNCHANGED copies
    BY <1>2 DEF PostBatch
  <2> QED
    BY <1>1, <2>3, <2>4, <2>5, <2>6, SubmitAside
<1>3. CASE PostAnswered(h) \/ PostCancelled(h)
  <2>1. /\ UNCHANGED <<tables, wq, txn, copies>>
        /\ awaiting' = awaiting \ {h}
        /\ replies' \subseteq replies
        /\ \A a \in replies : a.to # h => a \in replies'
    BY <1>3 DEF PostAnswered, PostCancelled, TakeReply, Abandon
  <2> QED
    BY <1>1, <2>1, IdleAside
<1> QED
  BY <1>2, <1>3

LEMMA JobAside ==
  ASSUME StatusInv, SendInv', UNCHANGED statusVars, NEW i \in RowIds, Job(i)
  PROVE  StatusInv'
<1>1. i \notin Calls /\ i \in SendClients
  BY CallsAside DEF SendClients
<1>2. CASE StartJob(i) \/ NothingRecorded(i) \/ RateLimited(i) \/ PostAgain(i)
  <2>1. UNCHANGED <<writerVars, copies>>
    BY <1>2 DEF StartJob, NothingRecorded, RateLimited, PostAgain
  <2> QED
    BY <2>1, IdleAside DEF writerVars
<1>3. CASE DocusignCreates(i)
  <2>1. /\ UNCHANGED writerVars /\ Len(copies) < MaxCopies
        /\ copies' = Append(copies, i)
    BY <1>3 DEF DocusignCreates
  <2>2. copies \in Seq(RowIds)
    BY DEF StatusInv, SendInv, SendTypes, SendStateOK
  <2>3. /\ Len(copies') = Len(copies) + 1
        /\ \A g \in DOMAIN copies : g \in DOMAIN copies'
    BY <2>1, <2>2
  <2>4. Len(copies') <= MaxCopies
    BY <2>1, <2>2, <2>3, MaxCopiesAssumption
  <2>5. NewRowsBlank'
    BY <2>1 DEF StatusInv, SaidInv, NewRowsBlank, writerVars
  <2> QED
    BY <2>1, <2>3, <2>4, <2>5, AsideStep DEF writerVars
<1>4. CASE RecordSent(i) \/ ConnectionError(i)
  <2>1. PICK g, st, err :
          /\ Submit([op |-> "UpdateStatusWithId", id |-> i, gid |-> g, status |-> st,
                     reason |-> FALSE, apiErr |-> err, from |-> i])
          /\ UNCHANGED copies
          /\ \/ st = "sent" /\ err = FALSE /\ g = got[i] /\ job[i] = "created"
             \/ st = "cancelled" /\ err = TRUE /\ g = None
    BY <1>4 DEF RecordSent, ConnectionError, Write
  <2>2. PICK r : r = [op |-> "UpdateStatusWithId", id |-> i, gid |-> g, status |-> st,
                      reason |-> FALSE, apiErr |-> err, from |-> i]
    OBVIOUS
  <2>3. /\ r.op = "UpdateStatusWithId" /\ r.from = i /\ r.gid = g /\ r.status = st
        /\ r.reason = FALSE /\ r.apiErr = err /\ Submit(r)
    BY <2>1, <2>2
  <2>4. /\ got[i] \in Nat \cup {None} /\ "sent" \in Status /\ "cancelled" \in Status
        /\ i \in Nat
    BY EventsAreStatuses, MaxRowsAssumption
    DEF StatusInv, SendInv, SendTypes, SendStateOK, RowIds
  <2>5. r \in Request(Everyone)
    BY <1>1, <2>1, <2>2, <2>4 DEF Request, IdReq, Everyone
  <2>6. st = "sent" => g # None
    BY <2>1, EventsAreStatuses DEF StatusInv, SendInv, IdsAtHand
  <2>7. WriteSaid(r)
    BY <2>1, <2>3, <2>6 DEF WriteSaid
  <2> QED
    BY <1>1, <2>1, <2>3, <2>5, <2>7, SubmitAside
<1>5. CASE Written(i)
  <2>1. /\ UNCHANGED <<tables, wq, txn, copies>>
        /\ awaiting' = awaiting \ {i}
        /\ replies' \subseteq replies
        /\ \A a \in replies : a.to # i => a \in replies'
    BY <1>5 DEF Written, TakeReply
  <2> QED
    BY <1>1, <2>1, IdleAside
<1> QED
  BY <1>2, <1>3, <1>4, <1>5 DEF Job

LEMMA ProcessorAside ==
  ASSUME StatusInv, SendInv', UNCHANGED statusVars,
         Wake \/ ReadUnsent \/ ReadFails \/ AllSent \/ ProcessorPanics
  PROVE  StatusInv'
<1>1. UNCHANGED <<tables, wq, txn, copies>>
  BY AskersEnd DEF Wake, ReadUnsent, ReadFails, AllSent, Unmoved, writerVars
<1>2. /\ \A k \in Calls : k \in awaiting' <=> k \in awaiting
      /\ \A a \in replies' : a.to \in Calls => a \in replies
      /\ \A a \in replies : a.to \in Calls => a \in replies'
  <2>1. CASE Wake \/ ReadUnsent \/ ReadFails \/ AllSent
    BY <2>1 DEF Wake, ReadUnsent, ReadFails, AllSent, writerVars
  <2>2. CASE ProcessorPanics
    BY <2>2, CallsAside DEF ProcessorPanics, Unwinds, Abandon
  <2> QED
    BY <2>1, <2>2
<1> QED
  BY <1>1, <1>2, IdleAside

LEMMA InsertAside ==
  ASSUME StatusInv, SendInv', UNCHANGED <<copies, statusVars>>, InsertNext
  PROVE  StatusInv'
<1>1. UNCHANGED <<tables, wq, awaiting, replies>> /\ txn # None
  BY DEF InsertNext
<1> DEFINE b == txn.req.batch
           s == txn.req.recs[txn.next]
<1>2. txn \in Txn(Everyone) /\ txn.work.envs \in Seq(Row) /\ txn.work \in Tables
  BY <1>1 DEF StatusInv, SendInv, SendTypes, WriterTypeOK, Txn, Tables
<1>3. PICK d \in Clock(txn.work) :
        txn' = [txn EXCEPT !.work = InsertRecord(txn.work, b, s, d),
                           !.next = txn.next + 1,
                           !.dups = txn.dups + Duplicates(txn.work, b, s, d)]
  BY DEF InsertNext
<1>4. txn'.work = InsertRecord(txn.work, b, s, d)
  BY <1>2, <1>3 DEF Txn
<1>5. txn'.work.envs = IF DupEnvelope(txn.work, s, d) THEN txn.work.envs
                         ELSE Append(txn.work.envs, NewRow(s, d))
  BY <1>2, <1>4 DEF InsertRecord, Tables
<1>6. PICK e : e = NewRow(s, d)
  OBVIOUS
<1>7. e.status = None /\ e.reason = FALSE
  BY <1>6 DEF NewRow
<1>8. txn'.work.envs = txn.work.envs \/ txn'.work.envs = Append(txn.work.envs, e)
  BY <1>5, <1>6
<1> HIDE DEF b, s
<1>9. ASSUME NEW i \in DOMAIN txn'.work.envs \ DOMAIN tables.envs
      PROVE  txn'.work.envs[i].status = None /\ ~ txn'.work.envs[i].reason
  <2>1. CASE i \in DOMAIN txn.work.envs
    <3>0. \A q \in Seq(Row) : \A j \in DOMAIN q : Append(q, e)[j] = q[j]
      OBVIOUS
    <3>1. txn'.work.envs[i] = txn.work.envs[i]
      BY <1>2, <1>8, <2>1, <3>0
    <3> QED
      BY <1>1, <1>9, <2>1, <3>1 DEF StatusInv, SaidInv, NewRowsBlank
  <2>2. CASE i \notin DOMAIN txn.work.envs
    <3>1. txn'.work.envs[i] = e
      BY <1>2, <1>8, <1>9, <2>2
    <3> QED
      BY <1>7, <3>1
  <2> QED
    BY <2>1, <2>2
<1>10. NewRowsBlank'
  BY <1>1, <1>9 DEF NewRowsBlank
<1>11. Len(copies') <= MaxCopies
  BY DEF StatusInv, SaidInv
<1> QED
  BY <1>1, <1>10, <1>11, AsideStep
-----------------------------------------------------------------------------
(***************************************************************************)
(* The writer serves the request at the head of the channel.               *)
(***************************************************************************)

\* Who sent it, and what became of the others.
LEMMA HeadParts ==
  ASSUME SendInv, wq # << >>, wq' = Tail(wq)
  PROVE  /\ 1 \in DOMAIN wq /\ Head(wq) = wq[1] /\ Head(wq) \in Request(Everyone)
         /\ \A n \in DOMAIN wq' :
              n \in Nat /\ n + 1 \in DOMAIN wq /\ wq'[n] = wq[n + 1] /\ n + 1 # 1
         /\ \A n \in DOMAIN wq : n # 1 => n - 1 \in DOMAIN wq' /\ wq'[n - 1] = wq[n] /\ n \in Nat
         /\ Head(wq).op = "NewBatch" => Head(wq).from \in Posts
         /\ Head(wq).op = "UpdateStatusWithId" => Head(wq).from \in RowIds
         /\ Head(wq).op # "UpdateStatus" => Head(wq).from \notin Calls
<1>1. wq \in Seq(Request(Everyone))
  BY DEF SendInv, SendTypes, WriterTypeOK
<1>2. /\ 1 \in DOMAIN wq /\ Head(wq) = wq[1]
      /\ \A n \in DOMAIN wq' :
           n \in Nat /\ n + 1 \in DOMAIN wq /\ wq'[n] = wq[n + 1] /\ n + 1 # 1
      /\ \A n \in DOMAIN wq : n # 1 => n - 1 \in DOMAIN wq' /\ wq'[n - 1] = wq[n] /\ n \in Nat
  BY <1>1, TailQueue
<1>3. Head(wq) \in Request(Everyone)
  BY <1>1, <1>2
<1>4. \/ Head(wq).op = "NewBatch" /\ Head(wq).from \in Posts
      \/ Head(wq).op = "UpdateStatus"
      \/ Head(wq).op = "UpdateStatusWithId" /\ Head(wq).from \in RowIds
  BY <1>2 DEF SendInv, SenderWith, QueueWith, OtherWrite, IsIdWrite
<1> QED
  BY <1>2, <1>3, <1>4, CallsAside

\* The handler whose request it was has its answer, and no request is left for
\* its message.
LEMMA ServedCalls ==
  ASSUME StatusInv, UNCHANGED <<awaiting, calls>>, wq # << >>, wq' = Tail(wq),
         NEW res, NEW dups,
         \/ Answer(Head(wq).from, res, dups)
         \/ Head(wq).from \notin Calls /\ UNCHANGED replies
  PROVE  CallInv'
<1>1. /\ 1 \in DOMAIN wq /\ Head(wq) = wq[1]
      /\ \A n \in DOMAIN wq' :
           n \in Nat /\ n + 1 \in DOMAIN wq /\ wq'[n] = wq[n + 1] /\ n + 1 # 1
      /\ \A n \in DOMAIN wq : n # 1 => n - 1 \in DOMAIN wq' /\ wq'[n - 1] = wq[n] /\ n \in Nat
  BY HeadParts DEF StatusInv
<1>2. PICK c : c = Head(wq).from
  OBVIOUS
<1>3. PICK a0 : a0 = [to |-> c, res |-> res, dups |-> dups]
  OBVIOUS
<1>4. /\ a0.to = c
      /\ \/ c \in awaiting /\ replies' = replies \cup {a0}
         \/ (c \notin awaiting \/ c \notin Calls) /\ UNCHANGED replies
  BY <1>2, <1>3 DEF Answer
<1>5. \A k \in Calls : k \in awaiting <=> calls[k].pc = "waiting"
  BY DEF StatusInv, CallInv
<1>6. ASSUME c \in Calls, c \in awaiting PROVE \A a \in replies : a.to # c
  <2>1. CallOK(c)
    BY <1>5, <1>6 DEF StatusInv, CallInv
  <2>2. Stores(wq[1], calls[c].msg)
    BY <1>1, <1>2, <2>1 DEF CallOK
  <2> QED
    BY <1>1, <2>1, <2>2 DEF CallOK
<1>7. \A a \in replies' : a.to \in Calls => a.to \in awaiting
  BY <1>4 DEF StatusInv, CallInv
<1>8. \A a, b \in replies' : a.to \in Calls /\ a.to = b.to => a = b
  BY <1>4, <1>6 DEF StatusInv, CallInv
<1>9. \A n, p \in DOMAIN wq' : wq'[n].from \in Calls /\ wq'[n].from = wq'[p].from => n = p
  <2> SUFFICES ASSUME NEW n \in DOMAIN wq', NEW p \in DOMAIN wq',
                      wq'[n].from \in Calls, wq'[n].from = wq'[p].from
               PROVE  n = p
    OBVIOUS
  <2>1. n + 1 = p + 1 /\ n \in Nat /\ p \in Nat
    BY <1>1 DEF StatusInv, CallInv
  <2> QED
    BY <2>1
<1>10. ASSUME NEW k \in Calls, calls[k].pc = "waiting"
       PROVE  CallOK(k)'
  <2>1. CallOK(k) /\ k \in awaiting
    BY <1>5, <1>10 DEF StatusInv, CallInv
  <2>2. PICK m : m = calls[k].msg
    OBVIOUS
  <2>3. \A n \in DOMAIN wq' : wq'[n].from = k => Stores(wq'[n], m)
    BY <1>1, <2>1, <2>2 DEF CallOK
  <2>4. CASE c = k
    <3>1. a0 \in replies' /\ a0.to = k
      BY <1>4, <2>1, <2>4
    <3>2. PICK p \in DOMAIN wq :
            wq[p].from = k /\ \A n \in DOMAIN wq : Stores(wq[n], m) => n <= p
      BY <1>6, <2>1, <2>2, <2>4 DEF CallOK
    <3>3. p = 1
      BY <1>1, <1>2, <2>4, <3>2 DEF StatusInv, CallInv
    <3>4. ASSUME NEW n \in DOMAIN wq', Stores(wq'[n], m) PROVE FALSE
      <4>1. n \in Nat /\ n + 1 <= 1 /\ n + 1 # 1
        BY <1>1, <3>2, <3>3, <3>4
      <4>2. n + 1 \in DOMAIN wq
        BY <1>1
      <4>3. n + 1 \in 1 .. Len(wq)
        BY <4>2 DEF StatusInv, SendInv, SendTypes, WriterTypeOK
      <4> QED
        BY <4>1, <4>3
    <3> QED
      BY <2>2, <2>3, <3>1, <3>4 DEF CallOK
  <2>5. CASE c # k
    <3>1. (\E a \in replies' : a.to = k) <=> \E a \in replies : a.to = k
      BY <1>4, <2>5
    <3>2. CASE \E a \in replies : a.to = k
      <4>1. \A n \in DOMAIN wq' : ~ Stores(wq'[n], m)
        BY <1>1, <2>1, <2>2, <3>2 DEF CallOK
      <4> QED
        BY <2>2, <2>3, <3>1, <3>2, <4>1 DEF CallOK
    <3>3. CASE ~ \E a \in replies : a.to = k
      <4>1. PICK p \in DOMAIN wq :
              wq[p].from = k /\ \A n \in DOMAIN wq : Stores(wq[n], m) => n <= p
        BY <2>1, <2>2, <3>3 DEF CallOK
      <4>2. p # 1
        BY <1>1, <1>2, <2>5, <4>1
      <4>3. p - 1 \in DOMAIN wq' /\ wq'[p - 1] = wq[p] /\ p \in Nat
        BY <1>1, <4>2
      <4>4. ASSUME NEW n \in DOMAIN wq', Stores(wq'[n], m) PROVE n <= p - 1
        <5>1. n \in Nat /\ n + 1 \in DOMAIN wq /\ Stores(wq[n + 1], m)
          BY <1>1, <4>4
        <5>2. n + 1 <= p
          BY <4>1, <5>1
        <5> QED
          BY <4>3, <5>1, <5>2
      <4> QED
        BY <2>2, <2>3, <3>1, <3>3, <4>1, <4>3, <4>4 DEF CallOK
    <3> QED
      BY <3>2, <3>3
  <2> QED
    BY <2>4, <2>5
<1> QED
  BY <1>5, <1>7, <1>8, <1>9, <1>10 DEF CallInv

LEMMA ServedSaid ==
  ASSUME StatusInv, UNCHANGED <<copies, raised, hooks, acked, calls, gets>>,
         wq # << >>, wq' = Tail(wq), NewRowsBlank',
         \A i \in DOMAIN tables'.envs : RowSaid(tables'.envs[i])
  PROVE  SaidInv' /\ HookInv'
<1>1. \A n \in DOMAIN wq' : n + 1 \in DOMAIN wq /\ wq'[n] = wq[n + 1]
  BY HeadParts DEF StatusInv
<1>2. ASSUME NEW n \in DOMAIN wq' PROVE WriteSaid(wq[n])'
  <2>1. WriteSaid(wq'[n])
    BY <1>1 DEF StatusInv, SaidInv
  <2> QED
    BY <2>1 DEF WriteSaid, Said
<1>3. ASSUME NEW i \in DOMAIN tables'.envs PROVE RowSaid(tables.envs[i])'
  <2>1. RowSaid(tables'.envs[i])
    OBVIOUS
  <2> QED
    BY <2>1 DEF RowSaid, Said
<1>4. SaidInv'
  <2>1. \A m \in hooks \cup acked : Said(m.gid, m.event)'
    BY DEF StatusInv, SaidInv, Said
  <2>2. \A k \in Calls : calls[k].pc = "waiting" =>
          Said(calls[k].msg.gid, calls[k].msg.event)'
    BY DEF StatusInv, SaidInv, Said
  <2>3. \A g \in gets : Said(g, "voided")'
    BY DEF StatusInv, SaidInv, Said
  <2>4. Len(copies') <= MaxCopies
    BY DEF StatusInv, SaidInv
  <2> QED
    BY <1>2, <1>3, <2>1, <2>2, <2>3, <2>4 DEF SaidInv
<1>5. HookInv'
  BY <1>1 DEF StatusInv, HookInv, Stores
<1> QED
  BY <1>4, <1>5

\* An envelope has one row.
LEMMA OneRowPerEnvelope ==
  ASSUME SendInv, NEW i \in DOMAIN tables.envs, NEW j \in DOMAIN tables.envs,
         tables.envs[i].gid = tables.envs[j].gid, tables.envs[i].gid # None
  PROVE  i = j
BY DEF SendInv, CopiesInv, IdsInv, MadeFor

\* What an UPDATE does to the tables, and its answer.
LEMMA RowUpdated ==
  ASSUME StatusInv, UpdateRow
  PROVE  LET r == Head(wq) IN
         \/ /\ UNCHANGED tables
            /\ \E res \in {"NoRecord", "DbError"} : Answer(r.from, res, 0)
         \/ \E i \in DOMAIN tables.envs, e \in Row :
              /\ DOMAIN tables'.envs = DOMAIN tables.envs /\ tables'.envs[i] = e
              /\ \A j \in DOMAIN tables.envs : j # i => tables'.envs[j] = tables.envs[j]
              /\ tables.envs[i].gid = IF r.op = "UpdateStatus" THEN r.gid ELSE None
              /\ e.gid = r.gid /\ e.status = r.status
              /\ e.reason = r.reason /\ e.apiErr = r.apiErr
              /\ Answer(r.from, "Ok", 0)
<1> DEFINE r == Head(wq)
<1>1. tables \in Tables /\ tables.envs \in Seq(Row)
  BY DEF StatusInv, SendInv, SendTypes, WriterTypeOK, Tables
<1>2. /\ wq # << >> /\ wq' = Tail(wq) /\ txn = None
      /\ r.op \in {"UpdateStatus", "UpdateStatusWithId"}
  BY DEF UpdateRow, Serving
<1>3. r \in Request(Everyone)
  BY <1>2, HeadParts DEF StatusInv
<1>4. r \in StatusReq(Everyone) \cup IdReq(Everyone)
  BY <1>2, <1>3 DEF Request, BatchReq, OtherReq
<1>5. r.op = "UpdateStatusWithId" => r.id \in Unsent(tables)
  BY <1>2, HeadParts DEF StatusInv, SendInv, SenderWith, QueueWith, IsIdWrite, OtherWrite
<1>6. CASE UNCHANGED tables /\ \E res \in {"NoRecord", "DbError"} : Answer(r.from, res, 0)
  BY <1>6
<1>7. ASSUME NEW i \in Targets(tables, r), NEW e, e = Revised(tables.envs[i], r),
             tables' = [tables EXCEPT !.envs[i] = e], Answer(r.from, "Ok", 0)
      PROVE  /\ i \in DOMAIN tables.envs /\ e \in Row
             /\ DOMAIN tables'.envs = DOMAIN tables.envs /\ tables'.envs[i] = e
             /\ \A j \in DOMAIN tables.envs : j # i => tables'.envs[j] = tables.envs[j]
             /\ tables.envs[i].gid = IF r.op = "UpdateStatus" THEN r.gid ELSE None
             /\ e.gid = r.gid /\ e.status = r.status
             /\ e.reason = r.reason /\ e.apiErr = r.apiErr
  <2>1. i \in DOMAIN tables.envs
    BY <1>7 DEF Targets
  <2>2. tables.envs[i] \in Row
    BY <1>1, <2>1
  <2>3. e \in Row
    BY <1>4, <1>7, <2>2, RevisedType
  <2>4. tables.envs[i].gid = IF r.op = "UpdateStatus" THEN r.gid ELSE None
    BY <1>2, <1>5, <1>7 DEF Targets, Unsent
  <2>5. /\ e.gid = r.gid /\ e.status = r.status
        /\ e.reason = r.reason /\ e.apiErr = r.apiErr
    BY <1>2, <1>7, <2>2, <2>4 DEF Revised, Row
  <2>6. tables'.envs = [tables.envs EXCEPT ![i] = e]
    BY <1>1, <1>7 DEF Tables
  <2>7. /\ DOMAIN tables'.envs = DOMAIN tables.envs /\ tables'.envs[i] = e
        /\ \A j \in DOMAIN tables.envs : j # i => tables'.envs[j] = tables.envs[j]
    BY <1>1, <2>1, <2>6
  <2> QED
    BY <2>1, <2>3, <2>4, <2>5, <2>7
<1> QED
  BY <1>6, <1>7 DEF UpdateRow

\* The row of a voided envelope takes its reason: it is not under way, and no
\* other row has its id.
LEMMA ReasonSucceeds ==
  ASSUME StatusInv, UpdateRow, Head(wq).op = "UpdateStatus", Head(wq).reason,
         NEW i \in DOMAIN tables.envs, tables.envs[i].gid = Head(wq).gid
  PROVE  tables'.envs[i].reason
<1> DEFINE r == Head(wq)
           e == Revised(tables.envs[i], r)
<1>1. tables \in Tables /\ tables.envs \in Seq(Row) /\ tables.envs[i] \in Row
  BY DEF StatusInv, SendInv, SendTypes, WriterTypeOK, Tables
<1>2. /\ wq # << >> /\ wq' = Tail(wq)
  BY DEF UpdateRow, Serving
<1>3. WriteSaid(r)
  BY <1>2, HeadParts DEF StatusInv, SaidInv
<1>4. r.status = "voided" /\ r.gid # None
  BY <1>3, SaidParts DEF WriteSaid, StatusInv, SendInv
<1>5. Targets(tables, r) = {i}
  BY <1>4, OneRowPerEnvelope DEF Targets, StatusInv
<1>6. e.gid = r.gid /\ e.status = "voided" /\ e.reason
  BY <1>1, <1>4 DEF Revised, Row
<1>7. RowOK(tables, i, e)
  <2>1. ~ IsActive(e)
    BY <1>6 DEF IsActive, Terminal
  <2>2. \A j \in DOMAIN tables.envs \ {i} : tables.envs[j].gid # e.gid
    BY <1>4, <1>6, OneRowPerEnvelope DEF StatusInv
  <2> HIDE DEF e, r
  <2> QED
    BY <1>6, <2>1, <2>2 DEF RowOK, r
<1>8. tables' = [tables EXCEPT !.envs[i] = e]
  BY <1>5, <1>7 DEF UpdateRow
<1>9. tables'.envs = [tables.envs EXCEPT ![i] = e]
  <2> HIDE DEF e, r
  <2> QED
    BY <1>1, <1>8 DEF Tables
<1>10. tables'.envs[i] = e
  <2> HIDE DEF e, r
  <2> QED
    BY <1>1, <1>9
<1> QED
  BY <1>6, <1>10

LEMMA UpdateRowStatus ==
  ASSUME StatusInv, SendInv', UpdateRow, UNCHANGED <<sendVars, statusVars>>
  PROVE  StatusInv'
<1> DEFINE r == Head(wq)
<1>1. /\ UNCHANGED <<copies, raised, hooks, calls, cpTok, cp, gets, acked, missed>>
      /\ UNCHANGED <<txn, awaiting>> /\ wq # << >> /\ wq' = Tail(wq) /\ txn = None
      /\ r.op \in {"UpdateStatus", "UpdateStatusWithId"}
  BY DEF sendVars, statusVars, UpdateRow, Serving
<1>2. /\ 1 \in DOMAIN wq /\ r = wq[1]
      /\ \A n \in DOMAIN wq : n # 1 => n - 1 \in DOMAIN wq' /\ wq'[n - 1] = wq[n]
      /\ r.op # "UpdateStatus" => r.from \notin Calls
  BY <1>1, HeadParts DEF StatusInv
<1>3. WriteSaid(r)
  BY <1>2 DEF StatusInv, SaidInv
<1>4. r.op = "UpdateStatus" => r.gid # None /\ Said(r.gid, r.status)
  BY <1>3, SaidParts DEF WriteSaid, StatusInv, SendInv
<1>5. \/ UNCHANGED tables /\ \E res \in {"NoRecord", "DbError"} : Answer(r.from, res, 0)
      \/ \E i \in DOMAIN tables.envs, e \in Row :
           /\ DOMAIN tables'.envs = DOMAIN tables.envs /\ tables'.envs[i] = e
           /\ \A j \in DOMAIN tables.envs : j # i => tables'.envs[j] = tables.envs[j]
           /\ tables.envs[i].gid = IF r.op = "UpdateStatus" THEN r.gid ELSE None
           /\ e.gid = r.gid /\ e.status = r.status
           /\ e.reason = r.reason /\ e.apiErr = r.apiErr
           /\ Answer(r.from, "Ok", 0)
  BY RowUpdated
<1> HIDE DEF r
<1>6. StatusStateOK'
  BY <1>1 DEF StatusInv, StatusStateOK
<1>7. CallInv'
  BY <1>1, <1>5, ServedCalls DEF r
<1>8. SaidInv' /\ HookInv'
  <2>1. \A i \in DOMAIN tables'.envs : RowSaid(tables'.envs[i])
    <3>1. CASE UNCHANGED tables
      BY <3>1 DEF StatusInv, SaidInv
    <3>2. ASSUME NEW i \in DOMAIN tables.envs, NEW e \in Row,
                 DOMAIN tables'.envs = DOMAIN tables.envs, tables'.envs[i] = e,
                 \A j \in DOMAIN tables.envs : j # i => tables'.envs[j] = tables.envs[j],
                 e.gid = r.gid, e.status = r.status, e.reason = r.reason,
                 e.apiErr = r.apiErr
          PROVE  \A j \in DOMAIN tables'.envs : RowSaid(tables'.envs[j])
      <4>1. RowSaid(e)
        <5>1. CASE r.op = "UpdateStatus"
          BY <1>3, <1>4, <3>2, <5>1 DEF RowSaid, WriteSaid
        <5>2. CASE r.op = "UpdateStatusWithId"
          BY <1>3, <3>2, <5>2 DEF RowSaid, WriteSaid
        <5> QED
          BY <1>1, <5>1, <5>2
      <4> QED
        BY <3>2, <4>1 DEF StatusInv, SaidInv
    <3> QED
      BY <1>5, <3>1, <3>2
  <2>2. NewRowsBlank'
    BY <1>1 DEF NewRowsBlank
  <2> QED
    BY <1>1, <2>1, <2>2, ServedSaid
<1>9. ASSUME NEW m, Settled(m), m.gid # None
      PROVE  \E j \in DOMAIN tables'.envs :
               tables'.envs[j].gid = m.gid /\ tables'.envs[j].status \in Range(raised[m.gid])
  <2>1. CASE UNCHANGED tables
    BY <1>9, <2>1 DEF Settled
  <2>2. ASSUME NEW i \in DOMAIN tables.envs, NEW e \in Row,
               DOMAIN tables'.envs = DOMAIN tables.envs, tables'.envs[i] = e,
               \A j \in DOMAIN tables.envs : j # i => tables'.envs[j] = tables.envs[j],
               tables.envs[i].gid = IF r.op = "UpdateStatus" THEN r.gid ELSE None,
               e.gid = r.gid, e.status = r.status
        PROVE  \E j \in DOMAIN tables'.envs :
               tables'.envs[j].gid = m.gid /\ tables'.envs[j].status \in Range(raised[m.gid])
    <3>1. PICK j \in DOMAIN tables.envs :
            tables.envs[j].gid = m.gid /\ tables.envs[j].status \in Range(raised[m.gid])
      BY <1>9 DEF Settled
    <3>2. CASE j # i
      BY <2>2, <3>1, <3>2
    <3>3. CASE j = i
      <4>1. r.op = "UpdateStatus" /\ r.gid = m.gid
        BY <1>9, <2>2, <3>1, <3>3
      <4>2. r.status \in Range(raised[m.gid])
        BY <1>4, <4>1 DEF Said
      <4> QED
        BY <2>2, <4>1, <4>2
    <3> QED
      BY <3>2, <3>3
  <2> QED
    BY <1>5, <2>1, <2>2
<1>10. AckInv'
  <2>1. ASSUME NEW m \in acked PROVE Settled(m)'
    <3>1. Settled(m) /\ m.gid # None
      BY SaidParts DEF StatusInv, SendInv, AckInv, SaidInv
    <3> QED
      BY <1>1, <1>9, <3>1 DEF Settled
  <2>2. ASSUME NEW a \in replies', a.to \in Calls, a.res = "Ok"
        PROVE  Settled(calls[a.to].msg)'
    <3> PICK k \in Calls : k = a.to
      BY <2>2
    <3>1. k \in awaiting /\ calls[k].pc = "waiting"
      BY <1>1, <1>7, <2>2 DEF CallInv
    <3>2. PICK m : m = calls[k].msg
      OBVIOUS
    <3>3. Said(m.gid, m.event)
      BY <3>1, <3>2 DEF StatusInv, SaidInv
    <3>4. m.gid # None
      BY <3>3, SaidParts DEF StatusInv, SendInv
    <3>5. CASE a \in replies
      <4>1. Settled(m)
        BY <2>2, <3>2, <3>5 DEF StatusInv, AckInv
      <4>2. \E j \in DOMAIN tables'.envs :
              tables'.envs[j].gid = m.gid /\ tables'.envs[j].status \in Range(raised[m.gid])
        BY <1>9, <3>4, <4>1
      <4> QED
        BY <1>1, <3>2, <4>2 DEF Settled
    <3>6. CASE a \notin replies
      <4>1. r.from = k
        <5>1. ASSUME NEW res, Answer(r.from, res, 0) PROVE r.from = k
          <6>1. [to |-> r.from, res |-> res, dups |-> 0].to = r.from
            OBVIOUS
          <6> QED
            BY <2>2, <3>6, <5>1, <6>1 DEF Answer
        <5> QED
          BY <1>5, <5>1
      <4>2. ~ \E res \in {"NoRecord", "DbError"} : Answer(r.from, res, 0)
        <5>1. ASSUME NEW res \in {"NoRecord", "DbError"}, Answer(r.from, res, 0) PROVE FALSE
          <6>1. [to |-> r.from, res |-> res, dups |-> 0].res = res
            OBVIOUS
          <6> QED
            BY <2>2, <3>6, <5>1, <6>1 DEF Answer
        <5> QED
          BY <5>1
      <4>3. CallOK(k)
        BY <3>1 DEF StatusInv, CallInv
      <4>4. Stores(r, m)
        BY <1>2, <3>2, <4>1, <4>3 DEF CallOK
      <4>5. m.event \in Range(raised[m.gid])
        BY <3>3 DEF Said
      <4>6. PICK i \in DOMAIN tables.envs, e \in Row :
              /\ DOMAIN tables'.envs = DOMAIN tables.envs /\ tables'.envs[i] = e
              /\ e.gid = r.gid /\ e.status = r.status
        BY <1>5, <4>2
      <4> QED
        BY <1>1, <3>2, <4>4, <4>5, <4>6 DEF Settled, Stores
    <3> QED
      BY <3>5, <3>6
  <2> QED
    BY <1>1, <2>1, <2>2 DEF AckInv, Settled
<1>11. VoidInv'
  <2> SUFFICES ASSUME ~ missed, NEW i \in VoidsToFetch', ~ cpTok, cp # "reading",
                      tables'.envs[i].gid \notin gets,
                      [gid |-> tables'.envs[i].gid, event |-> "voided"] \notin hooks
               PROVE  \E k \in DOMAIN wq' : /\ wq'[k].op = "UpdateStatus"
                                            /\ wq'[k].gid = tables'.envs[i].gid
                                            /\ wq'[k].reason
    BY <1>1 DEF StatusInv, VoidInv, VoidWorkNotForgotten
  <2>1. /\ i \in DOMAIN tables'.envs /\ tables'.envs[i].status = "voided"
        /\ ~ tables'.envs[i].reason
    BY DEF VoidsToFetch
  <2>2. i \in DOMAIN tables.envs /\ tables'.envs[i] = tables.envs[i]
    <3>1. CASE UNCHANGED tables
      BY <2>1, <3>1
    <3>2. ASSUME NEW j \in DOMAIN tables.envs, NEW e \in Row,
                 DOMAIN tables'.envs = DOMAIN tables.envs, tables'.envs[j] = e,
                 \A l \in DOMAIN tables.envs : l # j => tables'.envs[l] = tables.envs[l],
                 e.gid = r.gid, e.status = r.status, e.reason = r.reason
          PROVE  i \in DOMAIN tables.envs /\ tables'.envs[i] = tables.envs[i]
      <4>1. i \in DOMAIN tables.envs
        BY <2>1, <3>2
      <4>2. CASE i = j
        <5>1. r.status = "voided" /\ ~ r.reason /\ r.gid = tables'.envs[i].gid
          BY <2>1, <3>2, <4>2
        <5>2. r.op = "UpdateStatus" /\ r.from # None
          BY <1>1, <1>3, <5>1 DEF WriteSaid
        <5>3. PICK m \in hooks : Stores(r, m)
          BY <1>2, <5>2 DEF StatusInv, HookInv
        <5>4. m.gid = r.gid /\ m.event = "voided"
          BY <5>1, <5>3 DEF Stores
        <5>5. m \in Message
          BY DEF StatusInv, StatusStateOK
        <5>6. m = [gid |-> tables'.envs[i].gid, event |-> "voided"]
          BY <5>1, <5>4, <5>5 DEF Message
        <5> QED
          BY <5>6
      <4> QED
        BY <3>2, <4>1, <4>2
    <3> QED
      BY <1>5, <3>1, <3>2
  <2>3. i \in VoidsToFetch
    BY <2>1, <2>2 DEF VoidsToFetch
  <2>4. PICK k \in DOMAIN wq : /\ wq[k].op = "UpdateStatus"
                               /\ wq[k].gid = tables.envs[i].gid /\ wq[k].reason
    BY <2>2, <2>3 DEF StatusInv, VoidInv, VoidWorkNotForgotten
  <2>5. k # 1
    BY <1>2, <2>1, <2>2, <2>4, ReasonSucceeds DEF r
  <2>6. k - 1 \in DOMAIN wq' /\ wq'[k - 1] = wq[k]
    BY <1>2, <2>5
  <2> QED
    BY <2>2, <2>4, <2>6
<1> QED
  BY <1>6, <1>7, <1>8, <1>10, <1>11 DEF StatusInv

LEMMA BatchStatus ==
  ASSUME StatusInv, SendInv', BeginBatch \/ CommitBatch, UNCHANGED <<sendVars, statusVars>>
  PROVE  StatusInv'
<1>1. /\ UNCHANGED <<copies, raised, hooks, calls, cpTok, cp, gets, acked, missed>>
      /\ UNCHANGED awaiting
  BY DEF sendVars, statusVars, BeginBatch, CommitBatch
<1>2. StatusStateOK'
  BY <1>1 DEF StatusInv, StatusStateOK
<1>3. CASE BeginBatch
  <2>1. /\ wq # << >> /\ wq' = Tail(wq) /\ UNCHANGED tables
        /\ Head(wq).op = "NewBatch"
    BY <1>3 DEF BeginBatch, Serving
  <2>2. /\ 1 \in DOMAIN wq /\ Head(wq) = wq[1] /\ Head(wq).from \notin Calls
        /\ \A n \in DOMAIN wq : n # 1 => n - 1 \in DOMAIN wq' /\ wq'[n - 1] = wq[n]
    BY <2>1, HeadParts DEF StatusInv
  <2>3. \/ UNCHANGED replies
        \/ \E res, dups : Answer(Head(wq).from, res, dups)
    BY <1>3 DEF BeginBatch
  <2>4. CallInv'
    BY <1>1, <2>1, <2>2, <2>3, ServedCalls
  <2>5. NewRowsBlank'
    <3>1. txn' # None => \/ txn' = txn
                         \/ txn' = [req |-> Head(wq), next |-> 1, dups |-> 0,
                                    work |-> [tables EXCEPT !.batches = @ \cup {Head(wq).batch}]]
      BY <1>3 DEF BeginBatch
    <3>2. CASE txn' = txn
      BY <2>1, <3>2 DEF StatusInv, SaidInv, NewRowsBlank
    <3>3. CASE txn' = [req |-> Head(wq), next |-> 1, dups |-> 0,
                       work |-> [tables EXCEPT !.batches = @ \cup {Head(wq).batch}]]
      <4>1. txn'.work.envs = tables.envs
        BY <3>3 DEF StatusInv, SendInv, SendTypes, WriterTypeOK, Tables
      <4> QED
        BY <2>1, <4>1 DEF NewRowsBlank
    <3> QED
      BY <3>1, <3>2, <3>3 DEF NewRowsBlank
  <2>6. SaidInv' /\ HookInv'
    <3>1. \A i \in DOMAIN tables'.envs : RowSaid(tables'.envs[i])
      BY <2>1 DEF StatusInv, SaidInv
    <3> QED
      BY <1>1, <2>1, <2>5, <3>1, ServedSaid
  <2>7. AckInv'
    <3>1. ASSUME NEW a \in replies', a.to \in Calls PROVE a \in replies
      <4>1. ASSUME NEW res, NEW dups, Answer(Head(wq).from, res, dups) PROVE a \in replies
        <5>1. [to |-> Head(wq).from, res |-> res, dups |-> dups].to = Head(wq).from
          OBVIOUS
        <5> QED
          BY <2>2, <3>1, <4>1, <5>1 DEF Answer
      <4> QED
        BY <2>3, <4>1
    <3> QED
      BY <1>1, <2>1, <3>1 DEF StatusInv, AckInv, Settled
  <2>8. VoidInv'
    <3> SUFFICES ASSUME ~ missed, NEW i \in VoidsToFetch, ~ cpTok, cp # "reading",
                        tables.envs[i].gid \notin gets,
                        [gid |-> tables.envs[i].gid, event |-> "voided"] \notin hooks
                 PROVE  \E k \in DOMAIN wq' : /\ wq'[k].op = "UpdateStatus"
                                              /\ wq'[k].gid = tables.envs[i].gid
                                              /\ wq'[k].reason
      BY <1>1, <2>1 DEF StatusInv, VoidInv, VoidWorkNotForgotten, VoidsToFetch
    <3>1. PICK k \in DOMAIN wq : /\ wq[k].op = "UpdateStatus"
                                 /\ wq[k].gid = tables.envs[i].gid /\ wq[k].reason
      BY DEF StatusInv, VoidInv, VoidWorkNotForgotten
    <3>2. k - 1 \in DOMAIN wq' /\ wq'[k - 1] = wq[k]
      BY <2>1, <2>2, <3>1
    <3> QED
      BY <3>1, <3>2
  <2> QED
    BY <1>2, <2>4, <2>6, <2>7, <2>8 DEF StatusInv
<1>4. CASE CommitBatch
  <2>1. /\ txn # None /\ txn' = None /\ tables' = txn.work /\ UNCHANGED wq
        /\ \E res, dups : Answer(txn.req.from, res, dups)
    BY <1>4 DEF CommitBatch
  <2>2. /\ txn.req.from \in Posts /\ txn.req.from \notin Calls
        /\ \A i \in DOMAIN tables.envs :
             i \in DOMAIN tables'.envs /\ tables'.envs[i] = tables.envs[i]
    BY <2>1, CallsAside DEF StatusInv, SendInv, SenderWith, TxnInv
  <2>3. \A i \in DOMAIN tables'.envs \ DOMAIN tables.envs :
          /\ tables'.envs[i].status = None /\ ~ tables'.envs[i].reason
          /\ tables'.envs[i].gid = None
    BY <2>1 DEF StatusInv, SaidInv, NewRowsBlank, SendInv, CopiesInv, RowsInv
  <2>4. /\ replies \subseteq replies'
        /\ \A a \in replies' : a.to \in Calls => a \in replies
    <3>1. ASSUME NEW res, NEW dups, Answer(txn.req.from, res, dups)
          PROVE  /\ replies \subseteq replies'
                 /\ \A a \in replies' : a.to \in Calls => a \in replies
      <4>1. [to |-> txn.req.from, res |-> res, dups |-> dups].to = txn.req.from
        OBVIOUS
      <4> QED
        BY <2>2, <3>1, <4>1 DEF Answer
    <3> QED
      BY <2>1, <3>1
  <2>5. CallInv'
    <3>1. ASSUME NEW k \in Calls, calls[k].pc = "waiting" PROVE CallOK(k)'
      <4>1. CallOK(k)
        BY <3>1 DEF StatusInv, CallInv
      <4>2. (\E a \in replies' : a.to = k) <=> \E a \in replies : a.to = k
        BY <2>4
      <4> QED
        BY <1>1, <2>1, <4>1, <4>2 DEF CallOK
    <3>2. \A a \in replies' : a.to \in Calls => a.to \in awaiting'
      BY <1>1, <2>4 DEF StatusInv, CallInv
    <3>3. \A a, b \in replies' : a.to \in Calls /\ a.to = b.to => a = b
      BY <2>4 DEF StatusInv, CallInv
    <3> QED
      BY <1>1, <2>1, <3>1, <3>2, <3>3 DEF StatusInv, CallInv
  <2>6. SaidInv'
    <3>1. ASSUME NEW i \in DOMAIN tables'.envs PROVE RowSaid(tables.envs[i])'
      <4>1. RowSaid(tables'.envs[i])
        BY <2>2, <2>3 DEF StatusInv, SaidInv, RowSaid
      <4> QED
        BY <1>1, <4>1 DEF RowSaid, Said
    <3>2. NewRowsBlank'
      BY <2>1 DEF NewRowsBlank
    <3>3. \A n \in DOMAIN wq : WriteSaid(wq[n])'
      BY <1>1, <2>1 DEF StatusInv, SaidInv, WriteSaid, Said
    <3>4. /\ \A m \in hooks \cup acked : Said(m.gid, m.event)'
          /\ \A k \in Calls : calls[k].pc = "waiting" =>
               Said(calls[k].msg.gid, calls[k].msg.event)'
          /\ \A g \in gets : Said(g, "voided")'
          /\ Len(copies') <= MaxCopies
      BY <1>1 DEF StatusInv, SaidInv, Said
    <3> QED
      BY <1>1, <2>1, <3>1, <3>2, <3>3, <3>4 DEF SaidInv
  <2>7. HookInv'
    BY <1>1, <2>1 DEF StatusInv, HookInv, Stores
  <2>8. AckInv'
    <3>1. ASSUME NEW m, Settled(m) PROVE Settled(m)'
      BY <1>1, <2>2, <3>1 DEF Settled
    <3>2. \A m \in acked : Settled(m)'
      BY <3>1 DEF StatusInv, AckInv
    <3>3. \A a \in replies' : a.to \in Calls /\ a.res = "Ok" => Settled(calls[a.to].msg)'
      BY <1>1, <2>2, <2>4 DEF StatusInv, AckInv, Settled
    <3> QED
      BY <1>1, <3>2, <3>3 DEF AckInv, Settled
  <2>9. VoidInv'
    <3>1. \A i \in DOMAIN tables'.envs \ DOMAIN tables.envs : tables'.envs[i].status # "voided"
      BY <2>3, EventsAreStatuses
    <3>2. \A i \in VoidsToFetch' : i \in VoidsToFetch /\ tables'.envs[i] = tables.envs[i]
      BY <2>2, <3>1 DEF VoidsToFetch
    <3> QED
      BY <1>1, <2>1, <3>2 DEF StatusInv, VoidInv, VoidWorkNotForgotten
  <2> QED
    BY <1>2, <2>5, <2>6, <2>7, <2>8, <2>9 DEF StatusInv
<1> QED
  BY <1>3, <1>4

LEMMA StatusWriteLostKept ==
  ASSUME StatusInv, SendInv', StatusWriteLost
  PROVE  StatusInv'
<1>1. /\ WriteFails /\ UNCHANGED <<tables, awaiting, copies>>
      /\ UNCHANGED <<raised, hooks, calls, cpTok, cp, gets, acked>>
      /\ missed' = (missed \/ (txn = None /\ Head(wq).from = None))
  BY DEF StatusWriteLost, WriteLost, WriteFails
<1>2. StatusStateOK'
  <2>1. missed' \in BOOLEAN
    BY <1>1 DEF StatusInv, StatusStateOK
  <2> QED
    BY <1>1, <2>1 DEF StatusInv, StatusStateOK
<1>3. CASE txn # None
  <2>1. /\ txn' = None /\ UNCHANGED wq /\ Answer(txn.req.from, "DbError", 0)
    BY <1>1, <1>3 DEF WriteFails
  <2>2. txn.req.from \notin Calls
    BY <1>3, CallsAside DEF StatusInv, SendInv, SenderWith, TxnInv
  <2>3. /\ \A a \in replies : a.to \in Calls => a \in replies'
        /\ \A a \in replies' : a.to \in Calls => a \in replies
    <3>1. [to |-> txn.req.from, res |-> "DbError", dups |-> 0].to = txn.req.from
      OBVIOUS
    <3> QED
      BY <2>1, <2>2, <3>1 DEF Answer
  <2>4. NewRowsBlank'
    BY <2>1 DEF NewRowsBlank
  <2>5. Len(copies') <= MaxCopies
    BY <1>1 DEF StatusInv, SaidInv
  <2>6. UNCHANGED missed
    BY <1>1, <1>3 DEF StatusInv, StatusStateOK
  <2> QED
    BY <1>1, <2>1, <2>3, <2>4, <2>5, <2>6, AsideStep DEF statusVars
<1>4. CASE txn = None
  <2>1. /\ wq # << >> /\ wq' = Tail(wq) /\ Answer(Head(wq).from, "DbError", 0)
        /\ txn' = None
    BY <1>1, <1>4 DEF WriteFails
  <2>2. /\ 1 \in DOMAIN wq /\ Head(wq) = wq[1]
        /\ \A n \in DOMAIN wq : n # 1 => n - 1 \in DOMAIN wq' /\ wq'[n - 1] = wq[n]
    BY <2>1, HeadParts DEF StatusInv
  <2>3. CallInv'
    BY <1>1, <2>1, ServedCalls
  <2>4. SaidInv' /\ HookInv'
    <3>1. \A i \in DOMAIN tables'.envs : RowSaid(tables'.envs[i])
      BY <1>1 DEF StatusInv, SaidInv
    <3>2. NewRowsBlank'
      BY <2>1 DEF NewRowsBlank
    <3> QED
      BY <1>1, <2>1, <3>1, <3>2, ServedSaid
  <2>5. AckInv'
    <3>1. \A a \in replies' : a.to \in Calls /\ a.res = "Ok" => a \in replies
      <4>1. [to |-> Head(wq).from, res |-> "DbError", dups |-> 0].res = "DbError"
        OBVIOUS
      <4> QED
        BY <2>1, <4>1 DEF Answer
    <3> QED
      BY <1>1, <3>1 DEF StatusInv, AckInv, Settled
  <2>6. VoidInv'
    <3> SUFFICES ASSUME ~ missed', NEW i \in VoidsToFetch, ~ cpTok, cp # "reading",
                        tables.envs[i].gid \notin gets,
                        [gid |-> tables.envs[i].gid, event |-> "voided"] \notin hooks
                 PROVE  \E k \in DOMAIN wq' : /\ wq'[k].op = "UpdateStatus"
                                              /\ wq'[k].gid = tables.envs[i].gid
                                              /\ wq'[k].reason
      BY <1>1 DEF StatusInv, VoidInv, VoidWorkNotForgotten, VoidsToFetch
    <3>1. PICK k \in DOMAIN wq : /\ wq[k].op = "UpdateStatus"
                                 /\ wq[k].gid = tables.envs[i].gid /\ wq[k].reason
      BY <1>1 DEF StatusInv, VoidInv, VoidWorkNotForgotten
    <3>2. wq[k].from = None
      BY <3>1 DEF StatusInv, SaidInv, WriteSaid
    <3>3. k # 1
      BY <1>1, <1>4, <2>2, <3>2
    <3>4. k - 1 \in DOMAIN wq' /\ wq'[k - 1] = wq[k]
      BY <2>2, <3>3
    <3> QED
      BY <3>1, <3>4
  <2> QED
    BY <1>2, <2>3, <2>4, <2>5, <2>6 DEF StatusInv
<1> QED
  BY <1>3, <1>4

LEMMA StatusCrashKept ==
  ASSUME StatusInv, SendInv', StatusCrash
  PROVE  StatusInv'
<1>1. /\ wq' = << >> /\ txn' = None /\ awaiting' = {} /\ replies' = {}
      /\ UNCHANGED <<tables, copies, raised, hooks, acked, missed>>
      /\ calls' = [k \in Calls |-> Idle] /\ cpTok' /\ cp' = "idle" /\ gets' = {}
  BY DEF StatusCrash, Crash, WriterCrash
<1>2. DOMAIN wq' = {} /\ \A k \in Calls : calls'[k].pc # "waiting"
  BY <1>1 DEF Idle
<1>3. StatusStateOK'
  <2>1. cpTok' \in BOOLEAN
    BY DEF StatusCrash
  <2>2. calls' \in [Calls -> {Idle} \cup [pc : {"waiting"}, msg : Message]]
    BY <1>1
  <2> QED
    BY <1>1, <2>1, <2>2 DEF StatusInv, StatusStateOK
<1>4. SaidInv'
  <2>1. \A i \in DOMAIN tables.envs : RowSaid(tables.envs[i])'
    BY <1>1 DEF StatusInv, SaidInv, RowSaid, Said
  <2>2. \A m \in hooks \cup acked : Said(m.gid, m.event)'
    BY <1>1 DEF StatusInv, SaidInv, Said
  <2>3. NewRowsBlank' /\ Len(copies') <= MaxCopies
    BY <1>1 DEF StatusInv, SaidInv, NewRowsBlank
  <2> QED
    BY <1>1, <1>2, <2>1, <2>2, <2>3 DEF SaidInv
<1>5. CallInv' /\ HookInv'
  BY <1>1, <1>2 DEF CallInv, HookInv
<1>6. AckInv'
  BY <1>1 DEF StatusInv, AckInv, Settled
<1>7. VoidInv'
  BY <1>1 DEF VoidInv, VoidWorkNotForgotten
<1> QED
  BY <1>3, <1>4, <1>5, <1>6, <1>7 DEF StatusInv

LEMMA SendStatus ==
  ASSUME StatusInv, SendStep, UNCHANGED statusVars
  PROVE  StatusInv'
<1>1. SendInv'
  BY SendInvKept DEF StatusInv, Next
<1>2. CASE WriterStep /\ UNCHANGED sendVars
  <2>1. UNCHANGED copies
    BY <1>2 DEF sendVars
  <2> QED
    BY <1>1, <1>2, <2>1, UpdateRowStatus, BatchStatus, InsertAside DEF WriterStep
<1> QED
  BY <1>1, <1>2, PostAside, JobAside, ProcessorAside DEF SendStep
-----------------------------------------------------------------------------
(***************************************************************************)
(* The steps of DocuSign, the webhook and the completed processor.         *)
(***************************************************************************)

LEMMA QuietStep ==
  ASSUME StatusInv, hooks \subseteq hooks', hooks' \subseteq hooks \cup acked,
         UNCHANGED <<tables, wq, txn, copies, raised, calls, acked>>,
         \A k \in Calls : k \in awaiting' <=> k \in awaiting,
         \A a : a.to \in Calls => (a \in replies' <=> a \in replies),
         \A g \in gets' : Said(g, "voided")
  PROVE  SaidInv' /\ CallInv' /\ HookInv' /\ AckInv'
<1>1. SaidInv'
  <2>1. \A i \in DOMAIN tables.envs : RowSaid(tables.envs[i])'
    BY DEF StatusInv, SaidInv, RowSaid, Said
  <2>2. \A n \in DOMAIN wq : WriteSaid(wq[n])'
    BY DEF StatusInv, SaidInv, WriteSaid, Said
  <2>3. \A m \in hooks' \cup acked : Said(m.gid, m.event)'
    BY DEF StatusInv, SaidInv, Said
  <2>4. /\ \A k \in Calls : calls[k].pc = "waiting" =>
             Said(calls[k].msg.gid, calls[k].msg.event)'
        /\ \A g \in gets' : Said(g, "voided")'
        /\ Len(copies') <= MaxCopies /\ NewRowsBlank'
    BY DEF StatusInv, SaidInv, Said, NewRowsBlank
  <2> QED
    BY <2>1, <2>2, <2>3, <2>4 DEF SaidInv
<1>2. CallInv'
  <2>1. ASSUME NEW k \in Calls, CallOK(k) PROVE CallOK(k)'
    BY <2>1 DEF CallOK, Stores
  <2> QED
    BY <2>1 DEF StatusInv, CallInv
<1>3. HookInv'
  BY DEF StatusInv, HookInv, Stores
<1>4. AckInv'
  BY DEF StatusInv, AckInv, Settled
<1> QED
  BY <1>1, <1>2, <1>3, <1>4

LEMMA RaiseKept ==
  ASSUME StatusInv, NEW g \in Gids, Raise(g) PROVE StatusInv'
<1>1. PICK e \in Events :
        /\ raised' = [raised EXCEPT ![g] = Append(@, e)]
        /\ hooks' = hooks \cup {[gid |-> g, event |-> e]}
  BY DEF Raise
<1>2. /\ UNCHANGED <<tables, wq, txn, awaiting, replies, faults, sendVars>>
      /\ UNCHANGED <<calls, cpTok, cp, gets, acked, missed>> /\ g \in DOMAIN copies
  BY DEF Raise, writerVars
<1>3. UNCHANGED copies
  BY <1>2 DEF sendVars
<1>4. SendInv'
  <2>1. UNCHANGED vars
    BY <1>2 DEF vars, writerVars
  <2> QED
    BY <2>1, SendInvKept DEF StatusInv
<1>5. raised \in [Gids -> Seq(Events)]
  BY DEF StatusInv, StatusStateOK
<1>6. raised' \in [Gids -> Seq(Events)] /\ raised'[g] = Append(raised[g], e)
  BY <1>1, <1>5
<1>7. \A h \in Gids : Range(raised[h]) \subseteq Range(raised'[h])
  <2> SUFFICES ASSUME NEW h \in Gids, NEW n \in DOMAIN raised[h]
               PROVE  \E p \in DOMAIN raised'[h] : raised'[h][p] = raised[h][n]
    BY DEF Range
  <2>1. CASE h # g
    BY <1>1, <1>5, <2>1
  <2>2. CASE h = g
    <3>1. n \in DOMAIN raised'[g] /\ raised'[g][n] = raised[g][n]
      BY <1>5, <1>6, <2>2
    <3> QED
      BY <2>2, <3>1
  <2> QED
    BY <2>1, <2>2
<1>8. e \in Range(raised'[g])
  <2>1. /\ Len(raised[g]) + 1 \in DOMAIN raised'[g]
        /\ raised'[g][Len(raised[g]) + 1] = e
    BY <1>5, <1>6
  <2> QED
    BY <2>1 DEF Range
<1>9. \A h, st : Said(h, st) => h \in DOMAIN copies /\ st \in Range(raised'[h])
  BY <1>7, SaidParts DEF StatusInv, SendInv, Said
<1>10. PICK m0 : m0 = [gid |-> g, event |-> e]
  OBVIOUS
<1>11. m0.gid = g /\ m0.event = e /\ m0 \in Message
  BY <1>10, MessageParts
<1>12. StatusStateOK'
  BY <1>1, <1>2, <1>6, <1>10, <1>11 DEF StatusInv, StatusStateOK
<1>13. SaidInv'
  <2>1. ASSUME NEW i \in DOMAIN tables.envs PROVE RowSaid(tables.envs[i])'
    <3>1. RowSaid(tables.envs[i])
      BY DEF StatusInv, SaidInv
    <3>2. PICK x : x = tables.envs[i]
      OBVIOUS
    <3>3. /\ x.gid # None => (x.status = "sent" \/ Said(x.gid, x.status)) /\ ~ x.apiErr
          /\ x.gid = None => x.status \in {None, "cancelled"}
          /\ x.reason => x.status = "voided"
      BY <3>1, <3>2 DEF RowSaid
    <3> QED
      BY <1>2, <1>3, <1>9, <3>2, <3>3 DEF RowSaid, Said
  <2>2. ASSUME NEW n \in DOMAIN wq PROVE WriteSaid(wq[n])'
    <3>1. WriteSaid(wq[n])
      BY DEF StatusInv, SaidInv
    <3>2. wq[n].op = "UpdateStatus" => Said(wq[n].gid, wq[n].status)
      BY <3>1 DEF WriteSaid
    <3>3. wq[n].op = "UpdateStatus" =>
            wq[n].gid \in DOMAIN copies /\ wq[n].status \in Range(raised'[wq[n].gid])
      BY <1>9, <3>2
    <3> QED
      BY <1>2, <1>3, <3>1, <3>3 DEF WriteSaid, Said
  <2>3. ASSUME NEW m \in hooks' \cup acked PROVE Said(m.gid, m.event)'
    <3>1. CASE m \in hooks \cup acked
      BY <1>3, <1>9, <3>1 DEF StatusInv, SaidInv, Said
    <3>2. CASE m = m0
      BY <1>2, <1>3, <1>8, <1>11, <3>2 DEF Said
    <3> QED
      BY <1>1, <1>10, <3>1, <3>2
  <2>4. ASSUME NEW k \in Calls, calls[k].pc = "waiting"
        PROVE  Said(calls[k].msg.gid, calls[k].msg.event)'
    <3>1. PICK m : m = calls[k].msg
      OBVIOUS
    <3>2. Said(m.gid, m.event)
      BY <2>4, <3>1 DEF StatusInv, SaidInv
    <3>3. m.gid \in DOMAIN copies /\ m.event \in Range(raised'[m.gid])
      BY <1>9, <3>2
    <3> QED
      BY <1>2, <1>3, <3>1, <3>3 DEF Said
  <2>5. /\ \A h \in gets : Said(h, "voided")'
        /\ Len(copies') <= MaxCopies /\ NewRowsBlank'
    BY <1>2, <1>3, <1>9 DEF StatusInv, SaidInv, Said, NewRowsBlank
  <2> QED
    BY <1>2, <2>1, <2>2, <2>3, <2>4, <2>5 DEF SaidInv
<1>14. CallInv'
  BY <1>2 DEF StatusInv, CallInv, CallOK, Stores
<1>15. HookInv'
  BY <1>1, <1>2 DEF StatusInv, HookInv, Stores
<1>16. AckInv'
  <2>1. ASSUME NEW m, Settled(m), m.gid \in Gids PROVE Settled(m)'
    BY <1>2, <1>7, <2>1 DEF Settled
  <2>2. \A m \in acked : m.gid \in Gids
    BY MessageParts DEF StatusInv, StatusStateOK
  <2>3. \A a \in replies : a.to \in Calls => calls[a.to].msg.gid \in Gids
    <3>1. \A k \in Calls : k \in awaiting => calls[k].msg \in Message
      BY CallParts DEF StatusInv, CallInv
    <3> QED
      BY <3>1, MessageParts DEF StatusInv, CallInv
  <2>4. \A m \in acked : Settled(m)'
    BY <2>1, <2>2 DEF StatusInv, AckInv
  <2>5. ASSUME NEW a \in replies, a.to \in Calls, a.res = "Ok"
        PROVE  Settled(calls[a.to].msg)'
    <3>1. PICK m : m = calls[a.to].msg
      OBVIOUS
    <3>2. Settled(m) /\ m.gid \in Gids
      BY <2>3, <2>5, <3>1 DEF StatusInv, AckInv
    <3> QED
      BY <1>2, <1>7, <3>1, <3>2 DEF Settled
  <2> QED
    BY <1>2, <2>4, <2>5 DEF AckInv, Settled
<1>17. VoidInv'
  BY <1>1, <1>2 DEF StatusInv, VoidInv, VoidWorkNotForgotten, VoidsToFetch
<1> QED
  BY <1>4, <1>12, <1>13, <1>14, <1>15, <1>16, <1>17 DEF StatusInv

LEMMA SendAgainKept ==
  ASSUME StatusInv, SendAgain PROVE StatusInv'
<1>1. /\ UNCHANGED <<tables, wq, txn, awaiting, replies, sendVars, raised, calls,
                     cpTok, cp, gets, acked, missed>>
      /\ hooks \subseteq hooks' /\ hooks' \subseteq hooks \cup acked
      /\ faults' \in Nat
  BY DEF SendAgain, StatusInv, SendInv, SendTypes, WriterTypeOK
<1>2. SendInv'
  BY <1>1, OtherAnswered DEF StatusInv
<1>3. UNCHANGED copies /\ \A g \in gets' : Said(g, "voided")
  BY <1>1 DEF sendVars, StatusInv, SaidInv
<1>4. SaidInv' /\ CallInv' /\ HookInv' /\ AckInv'
  BY <1>1, <1>3, QuietStep
<1>5. StatusStateOK'
  BY <1>1 DEF StatusInv, StatusStateOK
<1>6. VoidInv'
  BY <1>1 DEF StatusInv, VoidInv, VoidWorkNotForgotten, VoidsToFetch
<1> QED
  BY <1>2, <1>4, <1>5, <1>6 DEF StatusInv

\* The message's request goes in behind any other for it, and none is left whose
\* handler still waits.
LEMMA DeliverKept ==
  ASSUME StatusInv, NEW k \in Calls, NEW m \in Message, Deliver(k, m)
  PROVE  StatusInv'
<1>1. PICK r : r = [op |-> "UpdateStatus", gid |-> m.gid, status |-> m.event,
                    reason |-> FALSE, apiErr |-> FALSE, from |-> k]
  OBVIOUS
<1>2. /\ r.op = "UpdateStatus" /\ r.gid = m.gid /\ r.status = m.event
      /\ r.reason = FALSE /\ r.apiErr = FALSE /\ r.from = k /\ k # None
  BY <1>1, CallsAside
<1>3. /\ m \in hooks /\ calls[k].pc = "idle"
      /\ \A n \in DOMAIN wq : wq[n].from # k
      /\ \A c \in Calls : calls[c].msg # m
      /\ Submit(r)
      /\ calls' = [calls EXCEPT ![k] = [pc |-> "waiting", msg |-> m]]
      /\ UNCHANGED <<sendVars, raised, hooks, cpTok, cp, gets, acked, missed>>
  BY <1>1 DEF Deliver
<1>4. /\ UNCHANGED <<tables, txn, replies, copies>>
      /\ awaiting' = awaiting \cup {k}
  BY <1>2, <1>3 DEF Submit, sendVars
<1>5. r \in ByGid /\ k \notin SendClients
  <2>1. m.gid \in Nat /\ m.event \in Status
    BY MessageParts, GidsAreNumbers, EventsAreStatuses
  <2> QED
    BY <1>1, <2>1, CallsAside DEF ByGid, StatusReq
<1>6. SendInv'
  BY <1>2, <1>3, <1>5, OtherSubmitted DEF StatusInv
<1>7. wq \in Seq(Request(Everyone)) /\ r \in Request(Everyone)
  BY <1>5 DEF StatusInv, SendInv, SendTypes, WriterTypeOK, ByGid, Request, StatusReq, Everyone
<1>8. /\ Len(wq) + 1 \in DOMAIN wq' /\ wq'[Len(wq) + 1] = r
      /\ \A n \in DOMAIN wq : n \in DOMAIN wq' /\ wq'[n] = wq[n] /\ n # Len(wq) + 1
      /\ \A n \in DOMAIN wq' : n \in DOMAIN wq \/ n = Len(wq) + 1
  BY <1>3, <1>7, AppendQueue DEF Submit
<1>9. /\ calls \in [Calls -> {Idle} \cup [pc : {"waiting"}, msg : Message]]
      /\ calls'[k].pc = "waiting" /\ calls'[k].msg = m
      /\ \A c \in Calls : c # k => calls'[c] = calls[c]
  BY <1>3 DEF StatusInv, StatusStateOK
<1>10. StatusStateOK'
  <2>1. calls' \in [Calls -> {Idle} \cup [pc : {"waiting"}, msg : Message]]
    BY <1>3, <1>9
  <2> QED
    BY <1>3, <2>1 DEF StatusInv, StatusStateOK
<1>11. Said(m.gid, m.event)
  BY <1>3 DEF StatusInv, SaidInv
<1>12. SaidInv'
  <2>1. \A i \in DOMAIN tables.envs : RowSaid(tables.envs[i])'
    BY <1>3, <1>4 DEF StatusInv, SaidInv, RowSaid, Said
  <2>2. ASSUME NEW n \in DOMAIN wq' PROVE WriteSaid(wq[n])'
    <3>1. WriteSaid(wq'[n])
      BY <1>2, <1>8, <1>11 DEF StatusInv, SaidInv, WriteSaid
    <3> QED
      BY <1>3, <1>4, <3>1 DEF WriteSaid, Said
  <2>3. \A p \in hooks \cup acked : Said(p.gid, p.event)'
    BY <1>3, <1>4 DEF StatusInv, SaidInv, Said
  <2>4. \A c \in Calls : calls'[c].pc = "waiting" =>
          Said(calls[c].msg.gid, calls[c].msg.event)'
    BY <1>3, <1>4, <1>9, <1>11 DEF StatusInv, SaidInv, Said
  <2>5. \A g \in gets : Said(g, "voided")'
    BY <1>3, <1>4 DEF StatusInv, SaidInv, Said
  <2>6. Len(copies') <= MaxCopies /\ NewRowsBlank'
    BY <1>4 DEF StatusInv, SaidInv, NewRowsBlank
  <2> QED
    BY <1>3, <1>4, <2>1, <2>2, <2>3, <2>4, <2>5, <2>6 DEF SaidInv
<1>13. \A a \in replies : a.to # k
  BY <1>3 DEF StatusInv, CallInv
<1>14. CallInv'
  <2>1. \A c \in Calls : c \in awaiting' <=> calls'[c].pc = "waiting"
    BY <1>4, <1>9 DEF StatusInv, CallInv
  <2>2. \A a \in replies' : a.to \in Calls => a.to \in awaiting'
    BY <1>4 DEF StatusInv, CallInv
  <2>3. \A a, b \in replies' : a.to \in Calls /\ a.to = b.to => a = b
    BY <1>4 DEF StatusInv, CallInv
  <2>4. \A n, p \in DOMAIN wq' : wq'[n].from \in Calls /\ wq'[n].from = wq'[p].from => n = p
    BY <1>2, <1>3, <1>8 DEF StatusInv, CallInv
  <2>5. ASSUME NEW c \in Calls, calls'[c].pc = "waiting" PROVE CallOK(c)'
    <3>1. CASE c = k
      <4>1. \A n \in DOMAIN wq' : wq'[n].from = k => Stores(wq'[n], m)
        BY <1>2, <1>3, <1>8 DEF Stores
      <4>2. \A n \in DOMAIN wq' : n <= Len(wq) + 1
        BY <1>7, <1>8
      <4> QED
        BY <1>2, <1>4, <1>8, <1>9, <1>13, <3>1, <4>1, <4>2 DEF CallOK
    <3>2. CASE c # k
      <4>1. CallOK(c) /\ calls'[c] = calls[c] /\ calls[c].msg \in Message
        BY <1>9, <2>5, <3>2, CallParts DEF StatusInv, CallInv
      <4>2. ~ Stores(r, calls[c].msg)
        BY <1>2, <1>3, <4>1, SameMessage DEF Stores
      <4>3. \A n \in DOMAIN wq' : wq'[n].from = c => Stores(wq'[n], calls[c].msg)
        BY <1>2, <1>8, <3>2, <4>1 DEF CallOK
      <4>4. \A n \in DOMAIN wq' :
              Stores(wq'[n], calls[c].msg) => n \in DOMAIN wq /\ Stores(wq[n], calls[c].msg)
        BY <1>8, <4>2
      <4>5. CASE \E a \in replies : a.to = c
        BY <1>4, <4>1, <4>3, <4>4, <4>5 DEF CallOK
      <4>6. CASE ~ \E a \in replies : a.to = c
        <5>1. PICK p \in DOMAIN wq :
                wq[p].from = c /\ \A n \in DOMAIN wq : Stores(wq[n], calls[c].msg) => n <= p
          BY <4>1, <4>6 DEF CallOK
        <5>2. p \in DOMAIN wq' /\ wq'[p].from = c
          BY <1>8, <5>1
        <5>3. \A n \in DOMAIN wq' : Stores(wq'[n], calls[c].msg) => n <= p
          BY <4>4, <5>1
        <5> QED
          BY <1>4, <4>1, <4>3, <4>6, <5>2, <5>3 DEF CallOK
      <4> QED
        BY <4>5, <4>6
    <3> QED
      BY <3>1, <3>2
  <2> QED
    BY <2>1, <2>2, <2>3, <2>4, <2>5 DEF CallInv
<1>15. HookInv'
  BY <1>2, <1>3, <1>8 DEF StatusInv, HookInv, Stores
<1>16. AckInv'
  <2>1. ASSUME NEW p, Settled(p) PROVE Settled(p)'
    BY <1>3, <1>4, <2>1 DEF Settled
  <2>2. \A p \in acked' : Settled(p)'
    BY <1>3, <2>1 DEF StatusInv, AckInv
  <2>3. ASSUME NEW a \in replies', a.to \in Calls, a.res = "Ok"
        PROVE  Settled(calls[a.to].msg)'
    <3>1. PICK p : p = calls[a.to].msg
      OBVIOUS
    <3>2. Settled(p) /\ a.to # k
      BY <1>4, <1>13, <2>3, <3>1 DEF StatusInv, AckInv
    <3>3. calls'[a.to].msg = p
      BY <1>9, <2>3, <3>1, <3>2
    <3> QED
      BY <1>3, <1>4, <3>2, <3>3 DEF Settled
  <2> QED
    BY <2>2, <2>3 DEF AckInv, Settled
<1>17. VoidInv'
  BY <1>3, <1>4, <1>8 DEF StatusInv, VoidInv, VoidWorkNotForgotten, VoidsToFetch
<1> QED
  BY <1>6, <1>10, <1>12, <1>14, <1>15, <1>16, <1>17 DEF StatusInv

\* A handler that has its answer, or whose client hung up, waits no more.
LEMMA CallEnds ==
  ASSUME StatusInv, NEW k \in Calls, UNCHANGED <<tables, wq, txn, copies, raised, gets>>,
         awaiting' = awaiting \ {k}, replies' \subseteq replies,
         \A a \in replies : a.to # k => a \in replies',
         \A a \in replies' : a.to # k,
         calls' = [calls EXCEPT ![k] = Idle],
         hooks' \subseteq hooks,
         \/ acked' = acked
         \/ acked' = acked \cup {calls[k].msg} /\ calls[k].pc = "waiting"
  PROVE  SaidInv' /\ CallInv'
<1>1. /\ calls'[k] = Idle /\ Idle.pc # "waiting"
      /\ \A c \in Calls : c # k => calls'[c] = calls[c]
  BY CallParts DEF StatusInv, StatusStateOK
<1>2. SaidInv'
  <2>1. \A i \in DOMAIN tables.envs : RowSaid(tables.envs[i])'
    BY DEF StatusInv, SaidInv, RowSaid, Said
  <2>2. \A n \in DOMAIN wq : WriteSaid(wq[n])'
    BY DEF StatusInv, SaidInv, WriteSaid, Said
  <2>3. \A m \in hooks' \cup acked' : Said(m.gid, m.event)'
    <3>1. \A m \in hooks' \cup acked' : Said(m.gid, m.event)
      BY DEF StatusInv, SaidInv
    <3> QED
      BY <3>1 DEF Said
  <2>4. \A c \in Calls : calls'[c].pc = "waiting" =>
          Said(calls[c].msg.gid, calls[c].msg.event)'
    BY <1>1 DEF StatusInv, SaidInv, Said
  <2>5. /\ \A g \in gets : Said(g, "voided")'
        /\ Len(copies') <= MaxCopies /\ NewRowsBlank'
    BY DEF StatusInv, SaidInv, Said, NewRowsBlank
  <2> QED
    BY <2>1, <2>2, <2>3, <2>4, <2>5 DEF SaidInv
<1>3. CallInv'
  <2>1. \A c \in Calls : c \in awaiting' <=> calls'[c].pc = "waiting"
    BY <1>1 DEF StatusInv, CallInv
  <2>2. \A a \in replies' : a.to \in Calls => a.to \in awaiting'
    BY DEF StatusInv, CallInv
  <2>3. \A a, b \in replies' : a.to \in Calls /\ a.to = b.to => a = b
    BY DEF StatusInv, CallInv
  <2>4. \A n, p \in DOMAIN wq' : wq'[n].from \in Calls /\ wq'[n].from = wq'[p].from => n = p
    BY DEF StatusInv, CallInv
  <2>5. ASSUME NEW c \in Calls, calls'[c].pc = "waiting" PROVE CallOK(c)'
    <3>1. c # k /\ calls'[c] = calls[c]
      BY <1>1, <2>5
    <3>2. CallOK(c)
      BY <2>5, <3>1 DEF StatusInv, CallInv
    <3>3. (\E a \in replies' : a.to = c) <=> \E a \in replies : a.to = c
      BY <3>1
    <3> QED
      BY <3>1, <3>2, <3>3 DEF CallOK
  <2> QED
    BY <2>1, <2>2, <2>3, <2>4, <2>5 DEF CallInv
<1> QED
  BY <1>2, <1>3

LEMMA HangUpKept ==
  ASSUME StatusInv, NEW k \in Calls, HangUp(k) PROVE StatusInv'
<1>1. /\ UNCHANGED <<tables, wq, txn, sendVars, raised, hooks, cpTok, cp, gets,
                     acked, missed>>
      /\ faults' \in Nat /\ calls' = [calls EXCEPT ![k] = Idle]
      /\ awaiting' = awaiting \ {k} /\ replies' = {a \in replies : a.to # k}
  BY DEF HangUp, Abandon, StatusInv, SendInv, SendTypes, WriterTypeOK
<1>2. UNCHANGED copies /\ k \notin RowIds
  BY <1>1, CallsAside DEF sendVars
<1>3. SendInv'
  BY <1>1, <1>2, OtherAnswered DEF StatusInv
<1>4. SaidInv' /\ CallInv'
  <2>1. /\ UNCHANGED <<tables, wq, txn, copies, raised, gets>>
        /\ hooks' \subseteq hooks /\ acked' = acked
        /\ replies' \subseteq replies /\ \A a \in replies' : a.to # k
        /\ \A a \in replies : a.to # k => a \in replies'
    BY <1>1, <1>2
  <2> QED
    BY <1>1, <2>1, CallEnds
<1>5. StatusStateOK'
  <2>1. calls' \in [Calls -> {Idle} \cup [pc : {"waiting"}, msg : Message]]
    BY <1>1 DEF StatusInv, StatusStateOK
  <2> QED
    BY <1>1, <2>1 DEF StatusInv, StatusStateOK
<1>6. HookInv'
  BY <1>1 DEF StatusInv, HookInv, Stores
<1>7. AckInv'
  <2>1. \A c \in Calls : c # k => calls'[c] = calls[c]
    BY <1>1 DEF StatusInv, StatusStateOK
  <2> QED
    BY <1>1, <2>1 DEF StatusInv, AckInv, Settled
<1>8. VoidInv'
  BY <1>1 DEF StatusInv, VoidInv, VoidWorkNotForgotten, VoidsToFetch
<1> QED
  BY <1>3, <1>4, <1>5, <1>6, <1>7, <1>8 DEF StatusInv

\* 200 is only said of a message that no request in the queue is about to store.
LEMMA RespondKept ==
  ASSUME StatusInv, NEW k \in Calls, Respond(k) PROVE StatusInv'
<1>1. PICK m : m = calls[k].msg
  OBVIOUS
<1>2. PICK a \in replies :
        /\ a.to = k /\ TakeReply(a)
        /\ \/ /\ a.res = "Ok"
              /\ hooks' = hooks \ {m}
              /\ acked' = acked \cup {m}
              /\ cpTok' = (cpTok \/ (m.event \in {"completed", "voided"} /\ cp # "dead"))
           \/ /\ a.res # "Ok"
              /\ UNCHANGED <<hooks, acked, cpTok>>
  BY <1>1 DEF Respond
<1>3. /\ UNCHANGED <<tables, wq, txn, faults, sendVars, raised, cp, gets, missed>>
      /\ calls' = [calls EXCEPT ![k] = Idle]
      /\ awaiting' = awaiting \ {k} /\ replies' = replies \ {a}
  BY <1>2 DEF Respond, TakeReply
<1>4. UNCHANGED copies /\ k \notin RowIds /\ faults' \in Nat
  BY <1>3, CallsAside DEF sendVars, StatusInv, SendInv, SendTypes, WriterTypeOK
<1>5. k \in awaiting /\ calls[k].pc = "waiting" /\ m \in Message
  BY <1>1, <1>2, CallParts DEF StatusInv, CallInv
<1>6. \A b \in replies : b.to = k => b = a
  BY <1>2 DEF StatusInv, CallInv
<1>7. SendInv'
  BY <1>2, <1>3, <1>4, OtherAnswered DEF StatusInv
<1>8. SaidInv' /\ CallInv'
  BY <1>1, <1>2, <1>3, <1>4, <1>5, <1>6, CallEnds
<1>9. StatusStateOK'
  <2>1. calls' \in [Calls -> {Idle} \cup [pc : {"waiting"}, msg : Message]]
    BY <1>3 DEF StatusInv, StatusStateOK
  <2>2. cpTok' \in BOOLEAN
    BY <1>2 DEF StatusInv, StatusStateOK
  <2>3. hooks' \subseteq Message /\ acked' \subseteq Message
    BY <1>2, <1>5 DEF StatusInv, StatusStateOK
  <2> QED
    BY <1>3, <2>1, <2>2, <2>3 DEF StatusInv, StatusStateOK
<1>10. HookInv'
  <2>1. \A n \in DOMAIN wq : ~ Stores(wq[n], m)
    BY <1>1, <1>2, <1>5 DEF StatusInv, CallInv, CallOK
  <2>2. hooks \ {m} \subseteq hooks'
    BY <1>2
  <2> QED
    BY <1>3, <2>1, <2>2 DEF StatusInv, HookInv
<1>11. AckInv'
  <2>1. ASSUME NEW p, Settled(p) PROVE Settled(p)'
    BY <1>3, <2>1 DEF Settled
  <2>2. a.res = "Ok" => Settled(m)
    BY <1>1, <1>2 DEF StatusInv, AckInv
  <2>3. \A p \in acked' : Settled(p)'
    BY <1>2, <2>1, <2>2 DEF StatusInv, AckInv
  <2>4. \A c \in Calls : c # k => calls'[c] = calls[c]
    BY <1>3 DEF StatusInv, StatusStateOK
  <2>5. \A b \in replies' : b.to \in Calls /\ b.res = "Ok" => Settled(calls[b.to].msg)'
    BY <1>3, <1>6, <2>4 DEF StatusInv, AckInv, Settled
  <2> QED
    BY <2>3, <2>5 DEF AckInv, Settled
<1>12. VoidInv'
  <2>1. VoidsToFetch' = VoidsToFetch
    BY <1>3 DEF VoidsToFetch
  <2>2. cpTok => cpTok'
    BY <1>2
  <2>3. ASSUME ~ missed, NEW i \in VoidsToFetch, ~ cpTok',
               [gid |-> tables.envs[i].gid, event |-> "voided"] \in hooks
        PROVE  [gid |-> tables.envs[i].gid, event |-> "voided"] \in hooks'
    <3>1. cp # "dead"
      BY <2>3 DEF StatusInv, VoidInv
    <3>2. PICK p : p = [gid |-> tables.envs[i].gid, event |-> "voided"]
      OBVIOUS
    <3>3. p.event = "voided"
      BY <3>2
    <3>4. CASE p = m
      BY <1>2, <2>3, <3>1, <3>2, <3>3, <3>4
    <3>5. CASE p # m
      BY <1>2, <2>3, <3>2, <3>5
    <3> QED
      BY <3>4, <3>5
  <2> QED
    BY <1>3, <2>1, <2>2, <2>3 DEF StatusInv, VoidInv, VoidWorkNotForgotten
<1> QED
  BY <1>7, <1>8, <1>9, <1>10, <1>11, <1>12 DEF StatusInv

\* The processor's list: every row on it has an envelope id.
LEMMA ListedRows ==
  ASSUME StatusInv, NEW i \in Unprocessed(tables)
  PROVE  /\ i \in DOMAIN tables.envs /\ tables.envs[i].gid # None
         /\ tables.envs[i].status = "voided" => Said(tables.envs[i].gid, "voided")
<1>1. /\ i \in DOMAIN tables.envs
      /\ tables.envs[i].status \in {"voided", "completed"}
  BY DEF Unprocessed
<1>2. "voided" # None /\ "completed" # None
  BY NoneAssumption DEF Status, Terminal
<1>3. RowSaid(tables.envs[i])
  BY <1>1 DEF StatusInv, SaidInv
<1> QED
  BY <1>1, <1>2, <1>3 DEF RowSaid

LEMMA CpKept ==
  ASSUME StatusInv, CpWake \/ CpRead \/ CpReadFails \/ CpDone \/ CpPanics
  PROVE  StatusInv'
<1>1. /\ UNCHANGED <<tables, wq, txn, awaiting, replies, sendVars>>
      /\ UNCHANGED <<raised, hooks, calls, acked>>
      /\ faults' \in Nat
  BY DEF CpWake, CpRead, CpReadFails, CpDone, CpPanics, CpUnwinds, writerVars,
         StatusInv, SendInv, SendTypes, WriterTypeOK
<1>2. SendInv'
  BY <1>1, OtherAnswered DEF StatusInv
<1>3. CASE CpRead
  <2> DEFINE list == {tables.envs[i] : i \in Unprocessed(tables)}
  <2>1. \A e \in list : e.gid # None /\ (e.status = "voided" => Said(e.gid, "voided"))
    BY ListedRows
  <2>2. /\ cp' = "fetching" /\ UNCHANGED <<cpTok, missed>>
        /\ gets' = {e.gid : e \in {x \in list : x.status = "voided"}}
    BY <1>3, <2>1 DEF CpRead
  <2>3. \A g \in gets' : Said(g, "voided")
    BY <2>1, <2>2
  <2>4. SaidInv' /\ CallInv' /\ HookInv' /\ AckInv'
    <3> HIDE DEF list
    <3>1. UNCHANGED copies
      BY <1>1 DEF sendVars
    <3> QED
      BY <1>1, <2>3, <3>1, QuietStep
  <2>5. StatusStateOK'
    <3>1. gets' \subseteq Gids
      BY <2>3, SaidParts DEF StatusInv, SendInv
    <3> QED
      BY <1>1, <2>2, <3>1 DEF StatusInv, StatusStateOK
  <2>6. VoidInv'
    <3>1. \A i \in VoidsToFetch : tables.envs[i].gid \in gets'
      BY <2>2 DEF VoidsToFetch, Unprocessed
    <3> QED
      BY <1>1, <2>2, <3>1 DEF VoidInv, VoidWorkNotForgotten, VoidsToFetch
  <2> QED
    BY <1>2, <2>4, <2>5, <2>6 DEF StatusInv
<1>4. CASE CpWake \/ CpReadFails \/ CpDone \/ CpPanics
  <2>1. /\ gets' \subseteq gets /\ cp' \in {"idle", "reading", "dead"}
        /\ cpTok' \in BOOLEAN /\ missed' \in BOOLEAN
    BY <1>4 DEF CpWake, CpReadFails, CpDone, CpPanics, CpUnwinds, StatusInv, StatusStateOK
  <2>2. SaidInv' /\ CallInv' /\ HookInv' /\ AckInv'
    <3>1. UNCHANGED copies /\ \A g \in gets' : Said(g, "voided")
      BY <1>1, <2>1 DEF sendVars, StatusInv, SaidInv
    <3> QED
      BY <1>1, <3>1, QuietStep
  <2>3. StatusStateOK'
    BY <1>1, <2>1 DEF StatusInv, StatusStateOK
  <2>4. VoidInv'
    <3>1. CASE CpWake
      BY <1>1, <3>1 DEF CpWake, VoidInv, VoidWorkNotForgotten
    <3>2. CASE CpReadFails \/ CpPanics
      BY <3>2 DEF CpReadFails, CpPanics, CpUnwinds, VoidInv, VoidWorkNotForgotten
    <3>3. CASE CpDone
      <4>1. /\ UNCHANGED <<tables, wq, hooks, cpTok, gets, missed>>
            /\ cp = "fetching" /\ cp' = "idle" /\ VoidsToFetch' = VoidsToFetch
        BY <1>1, <3>3 DEF CpDone, VoidsToFetch
      <4> QED
        BY <4>1 DEF StatusInv, VoidInv, VoidWorkNotForgotten
    <3> QED
      BY <1>4, <3>1, <3>2, <3>3
  <2> QED
    BY <1>2, <2>2, <2>3, <2>4 DEF StatusInv
<1> QED
  BY <1>3, <1>4

\* The end of the token task drops or strands what asked for a token; what the
\* processor loses with that is missed.
LEMMA BothAskersEnd ==
  ASSUME StatusTaskDies
  PROVE  /\ TokenTaskDies /\ (Unwinds \/ Strands) /\ Unmoved
         /\ CpUnwinds \/ CpStrands
         /\ UNCHANGED <<raised, hooks, calls, acked>>
<1>1. TokenTaskDies
  BY DEF StatusTaskDies, TokenTaskDies
<1> QED
  BY <1>1, AskersEnd DEF StatusTaskDies

LEMMA TaskDiesKept ==
  ASSUME StatusInv, StatusTaskDies PROVE StatusInv'
<1>1. SendInv'
  BY BothAskersEnd, SendInvKept DEF Next, StatusInv
<1>2. /\ UNCHANGED <<tables, wq, txn, copies, raised, hooks, calls, acked>>
      /\ CpUnwinds \/ CpStrands
  BY BothAskersEnd DEF Unmoved
<1>3. /\ \A k \in Calls : k \in awaiting' <=> k \in awaiting
      /\ \A a : a.to \in Calls => (a \in replies' <=> a \in replies)
  BY BothAskersEnd, CallsAside DEF Unwinds, Strands, Abandon
<1>4. gets' \subseteq gets
  BY <1>2 DEF CpUnwinds, CpStrands
<1>5. SaidInv' /\ CallInv' /\ HookInv' /\ AckInv'
  <2>1. \A g \in gets' : Said(g, "voided")
    BY <1>4 DEF StatusInv, SaidInv
  <2> QED
    BY <1>2, <1>3, <2>1, QuietStep
<1>6. StatusStateOK'
  BY <1>2, <1>4 DEF CpUnwinds, CpStrands, StatusInv, StatusStateOK
<1>7. VoidInv'
  BY <1>2 DEF CpUnwinds, CpStrands, StatusInv, VoidInv, VoidWorkNotForgotten, VoidsToFetch
<1> QED
  BY <1>1, <1>5, <1>6, <1>7 DEF StatusInv

\* A reason goes in behind the others, and nobody waits for it.
LEMMA CpWriteKept ==
  ASSUME StatusInv, NEW g \in Gids, CpWrite(g) PROVE StatusInv'
<1>1. PICK r : r = [op |-> "UpdateStatus", gid |-> g, status |-> "voided",
                    reason |-> TRUE, apiErr |-> FALSE, from |-> None]
  OBVIOUS
<1>2. /\ r.op = "UpdateStatus" /\ r.gid = g /\ r.status = "voided"
      /\ r.reason = TRUE /\ r.apiErr = FALSE /\ r.from = None
  BY <1>1
<1>3. /\ g \in gets /\ Submit(r) /\ gets' = gets \ {g}
      /\ UNCHANGED <<sendVars, raised, hooks, calls, cpTok, cp, acked, missed>>
  BY <1>1 DEF CpWrite
<1>4. UNCHANGED <<tables, txn, replies, awaiting, copies>>
  BY <1>2, <1>3 DEF Submit, sendVars
<1>5. r \in ByGid /\ None \notin SendClients /\ None \notin Calls
  BY <1>1, GidsAreNumbers, EventsAreStatuses, CallsAside DEF ByGid, StatusReq
<1>6. SendInv'
  BY <1>2, <1>3, <1>5, OtherSubmitted DEF StatusInv
<1>7. wq \in Seq(Request(Everyone)) /\ r \in Request(Everyone)
  BY <1>5 DEF StatusInv, SendInv, SendTypes, WriterTypeOK, ByGid, Request, StatusReq, Everyone
<1>8. /\ Len(wq) + 1 \in DOMAIN wq' /\ wq'[Len(wq) + 1] = r
      /\ \A n \in DOMAIN wq : n \in DOMAIN wq' /\ wq'[n] = wq[n] /\ n # Len(wq) + 1
      /\ \A n \in DOMAIN wq' : n \in DOMAIN wq \/ n = Len(wq) + 1
  BY <1>3, <1>7, AppendQueue DEF Submit
<1>9. StatusStateOK'
  BY <1>3 DEF StatusInv, StatusStateOK
<1>10. SaidInv'
  <2>1. \A i \in DOMAIN tables.envs : RowSaid(tables.envs[i])'
    BY <1>3, <1>4 DEF StatusInv, SaidInv, RowSaid, Said
  <2>2. ASSUME NEW n \in DOMAIN wq' PROVE WriteSaid(wq[n])'
    <3>1. Said(g, "voided")
      BY <1>3 DEF StatusInv, SaidInv
    <3>2. WriteSaid(wq'[n])
      BY <1>2, <1>8, <3>1 DEF StatusInv, SaidInv, WriteSaid
    <3> QED
      BY <1>3, <1>4, <3>2 DEF WriteSaid, Said
  <2>3. /\ \A p \in hooks \cup acked : Said(p.gid, p.event)'
        /\ \A c \in Calls : calls[c].pc = "waiting" =>
             Said(calls[c].msg.gid, calls[c].msg.event)'
        /\ \A h \in gets' : Said(h, "voided")'
        /\ Len(copies') <= MaxCopies /\ NewRowsBlank'
    BY <1>3, <1>4 DEF StatusInv, SaidInv, Said, NewRowsBlank
  <2> QED
    BY <1>3, <1>4, <2>1, <2>2, <2>3 DEF SaidInv
<1>11. CallInv'
  <2>1. \A n, p \in DOMAIN wq' : wq'[n].from \in Calls /\ wq'[n].from = wq'[p].from => n = p
    BY <1>2, <1>5, <1>8 DEF StatusInv, CallInv
  <2>2. ASSUME NEW c \in Calls, calls[c].pc = "waiting" PROVE CallOK(c)'
    <3>1. CallOK(c) /\ UNCHANGED <<calls, replies>>
      BY <1>3, <1>4, <2>2 DEF StatusInv, CallInv
    <3>2. PICK m : m = calls[c].msg
      OBVIOUS
    <3>3. /\ \A n \in DOMAIN wq' : wq'[n].from = c => Stores(wq'[n], m)
          /\ \A n \in DOMAIN wq' : Stores(wq'[n], m) => n \in DOMAIN wq /\ Stores(wq[n], m)
      BY <1>2, <1>5, <1>8, <3>1, <3>2 DEF CallOK, Stores
    <3>4. CASE \E a \in replies : a.to = c
      BY <3>1, <3>2, <3>3, <3>4 DEF CallOK
    <3>5. CASE ~ \E a \in replies : a.to = c
      <4>1. PICK p \in DOMAIN wq :
              wq[p].from = c /\ \A n \in DOMAIN wq : Stores(wq[n], m) => n <= p
        BY <3>1, <3>2, <3>5 DEF CallOK
      <4>2. p \in DOMAIN wq' /\ wq'[p].from = c
        BY <1>8, <4>1
      <4>3. \A n \in DOMAIN wq' : Stores(wq'[n], m) => n <= p
        BY <3>3, <4>1
      <4> QED
        BY <3>1, <3>2, <3>3, <3>5, <4>2, <4>3 DEF CallOK
    <3> QED
      BY <3>4, <3>5
  <2> QED
    BY <1>3, <1>4, <2>1, <2>2 DEF StatusInv, CallInv
<1>12. HookInv'
  BY <1>2, <1>3, <1>8 DEF StatusInv, HookInv, Stores
<1>13. AckInv'
  BY <1>3, <1>4 DEF StatusInv, AckInv, Settled
<1>14. VoidInv'
  <2> SUFFICES ASSUME ~ missed, NEW i \in VoidsToFetch, ~ cpTok, cp # "reading",
                      tables.envs[i].gid \notin gets',
                      [gid |-> tables.envs[i].gid, event |-> "voided"] \notin hooks
               PROVE  \E k \in DOMAIN wq' : /\ wq'[k].op = "UpdateStatus"
                                            /\ wq'[k].gid = tables.envs[i].gid
                                            /\ wq'[k].reason
    BY <1>3, <1>4 DEF StatusInv, VoidInv, VoidWorkNotForgotten, VoidsToFetch
  <2>1. CASE tables.envs[i].gid = g
    BY <1>2, <1>8, <2>1
  <2>2. CASE tables.envs[i].gid # g
    <3>1. tables.envs[i].gid \notin gets
      BY <1>3, <2>2
    <3>2. PICK k \in DOMAIN wq : /\ wq[k].op = "UpdateStatus"
                                 /\ wq[k].gid = tables.envs[i].gid /\ wq[k].reason
      BY <3>1 DEF StatusInv, VoidInv, VoidWorkNotForgotten
    <3> QED
      BY <1>8, <3>2
  <2> QED
    BY <2>1, <2>2
<1> QED
  BY <1>6, <1>9, <1>10, <1>11, <1>12, <1>13, <1>14 DEF StatusInv

LEMMA StatusInvKept ==
  ASSUME StatusInv, [StatusNext]_allVars PROVE StatusInv'
<1>1. CASE StatusStep
  BY <1>1, SendStatus, RaiseKept, SendAgainKept, DeliverKept, RespondKept, HangUpKept,
     CpKept, CpWriteKept, StatusWriteLostKept, TaskDiesKept, SendInvKept
  DEF StatusStep, StatusWriteLost, Next, StatusInv
<1>2. CASE StatusCrash
  <2>1. SendInv'
    BY <1>2, SendInvKept DEF StatusCrash, Next, StatusInv
  <2> QED
    BY <1>2, <2>1, StatusCrashKept
<1>3. CASE StatusRest \/ UNCHANGED allVars
  <2>1. UNCHANGED <<vars, statusVars>>
    BY <1>3 DEF StatusRest, allVars, vars
  <2>2. SendInv'
    BY <2>1, SendInvKept DEF StatusInv
  <2>3. UNCHANGED <<tables, wq, txn, awaiting, replies, copies>>
    BY <2>1 DEF vars, writerVars, sendVars
  <2> QED
    BY <2>1, <2>2, <2>3, IdleAside
<1> QED
  BY <1>1, <1>2, <1>3 DEF StatusNext

LEMMA StatusInvariant == StatusSpec => []StatusInv
<1>1. StatusInit => StatusInv
  BY StatusInitInv
<1>2. StatusInv /\ [StatusNext]_allVars => StatusInv'
  BY StatusInvKept
<1> QED
  BY <1>1, <1>2, PTL DEF StatusSpec
-----------------------------------------------------------------------------
(***************************************************************************)
(* The properties.                                                         *)
(***************************************************************************)

(* Every variable of the whole server keeps its type: the processor only   *)
(* fetches reasons of envelopes DocuSign created, and a write of the       *)
(* webhook carries a status the schema knows.                              *)
THEOREM StatusTypesCorrect == StatusSpec => []StatusTypeOK
<1>1. StatusInv => StatusTypeOK
  BY StatusTypes DEF StatusInv, SendInv
<1> QED
  BY <1>1, StatusInvariant, PTL

(* A row says only what DocuSign said of that very envelope, whatever      *)
(* reads, answers and events the writes were overtaken by.                 *)
THEOREM RowsSayOnlyReported == StatusSpec => []ReportedOnly
<1>1. ASSUME StatusInv PROVE ReportedOnly
  <2> SUFFICES ASSUME NEW i \in DOMAIN tables.envs
               PROVE  LET e == tables.envs[i] IN
                      /\ e.gid # None => /\ copies[e.gid] = i
                                         /\ e.status \in {"sent"} \cup Range(raised[e.gid])
                                         /\ ~ e.apiErr
                      /\ e.gid = None => e.status \in {None, "cancelled"}
                      /\ e.reason => e.status = "voided"
    BY DEF ReportedOnly
  <2>1. RowSaid(tables.envs[i])
    BY <1>1 DEF StatusInv, SaidInv
  <2>2. tables.envs[i].gid # None => copies[tables.envs[i].gid] = i
    BY <1>1 DEF StatusInv, SendInv, CopiesInv, IdsInv, MadeFor
  <2> QED
    BY <2>1, <2>2 DEF RowSaid, Said
<1> QED
  BY <1>1, StatusInvariant, PTL

(* A 200 means that the row was found, and from then on the row has one of *)
(* the envelope's events: neither the 201 the event overtook nor a second  *)
(* pass of the sender puts it back to "sent".                              *)
THEOREM AckedEventsReachTheRow == StatusSpec => []AckedReachesRow
<1>1. StatusInv => AckedReachesRow
  BY DEF StatusInv, AckInv, Settled, AckedReachesRow
<1> QED
  BY <1>1, StatusInvariant, PTL

(* A voided row without its reason is never forgotten.                     *)
THEOREM VoidWorkKept == StatusSpec => []VoidWorkNotForgotten
<1>1. StatusInv => VoidWorkNotForgotten
  BY DEF StatusInv, VoidInv
<1> QED
  BY <1>1, StatusInvariant, PTL

(* With events, reasons and other batches changing the tables while it     *)
(* waits, an answer of DocuSign's in the queue still meets no unique index.*)
THEOREM ServerWritesFit == StatusSpec => []IdWritesFit
<1>1. StatusInv => IdWritesFit
  BY IdWritesDoFit DEF StatusInv, SendInv, IdWritesFit
<1> QED
  BY <1>1, StatusInvariant, PTL

\* Only the writer touches the tables.
LEMMA OthersLeaveTables ==
  ASSUME StatusNext PROVE WriterStep \/ UNCHANGED tables
<1>1. ASSUME NEW h \in Posts, PostBatch(h) \/ PostAnswered(h) \/ PostCancelled(h)
      PROVE  UNCHANGED tables
  BY <1>1 DEF PostBatch, PostAnswered, PostCancelled, Submit, TakeReply
<1>2. ASSUME NEW j \in RowIds, Job(j)
      PROVE  UNCHANGED tables
  BY <1>2 DEF Job, StartJob, DocusignCreates, RecordSent, ConnectionError,
    NothingRecorded, RateLimited, PostAgain, Written, Write, Submit, TakeReply, writerVars
<1>3. CASE Wake \/ ReadUnsent \/ ReadFails \/ AllSent \/ ProcessorPanics \/ StatusWriteLost
             \/ StatusTaskDies \/ StatusCrash \/ StatusRest \/ SendAgain
  BY <1>3, AskersEnd, BothAskersEnd
  DEF Wake, ReadUnsent, ReadFails, AllSent, Unmoved, StatusWriteLost,
    WriteLost, WriteFails, StatusCrash, Crash, WriterCrash, StatusRest, SendAgain, allVars,
    writerVars
<1>4. ASSUME NEW g \in Gids, Raise(g) \/ CpWrite(g)
      PROVE  UNCHANGED tables
  BY <1>4 DEF Raise, CpWrite, Submit, writerVars
<1>5. ASSUME NEW k \in Calls, (\E m \in Message : Deliver(k, m)) \/ Respond(k) \/ HangUp(k)
      PROVE  UNCHANGED tables
  BY <1>5 DEF Deliver, Respond, HangUp, Submit, TakeReply
<1>6. CASE CpWake \/ CpRead \/ CpReadFails \/ CpDone \/ CpPanics
  BY <1>6 DEF CpWake, CpRead, CpReadFails, CpDone, CpPanics, writerVars
<1> QED
  BY <1>1, <1>2, <1>3, <1>4, <1>5, <1>6 DEF StatusNext, StatusStep, SendStep

(* An envelope id, once stored, is never changed, by either pipeline: the  *)
(* only write with an id of its own waits for a row that has none, and a   *)
(* batch in a transaction only adds rows.                                  *)
THEOREM GidsStay == StatusSpec => GidStays
<1>1. StatusInv /\ [StatusNext]_allVars =>
        [\A i \in DOMAIN tables.envs : tables.envs[i].gid # None =>
           tables'.envs[i].gid = tables.envs[i].gid]_allVars
  <2> SUFFICES ASSUME StatusInv, StatusNext, NEW i \in DOMAIN tables.envs,
                      tables.envs[i].gid # None
               PROVE  tables'.envs[i].gid = tables.envs[i].gid
    OBVIOUS
  <2>1. CASE UpdateRow
    BY <2>1, RowUpdated
  <2>2. CASE CommitBatch
    BY <2>2 DEF CommitBatch, StatusInv, SendInv, SenderWith, TxnInv
  <2>3. CASE BeginBatch \/ InsertNext
    BY <2>3 DEF BeginBatch, InsertNext
  <2> QED
    BY <2>1, <2>2, <2>3, OthersLeaveTables DEF WriterStep
<1> QED
  BY <1>1, StatusInvariant, PTL DEF StatusSpec, GidStays

(* An event that was answered 200 does not come back: the handler that hung*)
(* up left its write in the queue, but its message is delivered again, and *)
(* since the queue is served in order, the 200 of that delivery comes after*)
(* the older write.                                                        *)
THEOREM NoEventReplayed == StatusSpec => NothingReplayed
<1>1. StatusInv /\ [StatusNext]_allVars =>
        [\A i \in DOMAIN tables.envs :
           LET e == tables.envs[i]
               f == tables'.envs[i]
           IN e.gid # None /\ f.status # e.status =>
                \/ [gid |-> e.gid, event |-> f.status] \in hooks
                \/ f.status = "voided" /\ f.reason]_allVars
  <2> SUFFICES ASSUME StatusInv, StatusNext, NEW i \in DOMAIN tables.envs,
                      tables.envs[i].gid # None,
                      tables'.envs[i].status # tables.envs[i].status
               PROVE  \/ [gid |-> tables.envs[i].gid,
                          event |-> tables'.envs[i].status] \in hooks
                      \/ tables'.envs[i].status = "voided" /\ tables'.envs[i].reason
    OBVIOUS
  <2>1. CASE UpdateRow
    <3>1. PICK r : r = Head(wq)
      OBVIOUS
    <3>2. 1 \in DOMAIN wq /\ wq[1] = r /\ r.op \in {"UpdateStatus", "UpdateStatusWithId"}
      BY <2>1, <3>1, HeadParts DEF UpdateRow, Serving, StatusInv
    <3>3. /\ r.op = "UpdateStatus" /\ tables.envs[i].gid = r.gid
          /\ tables'.envs[i].status = r.status /\ tables'.envs[i].reason = r.reason
      BY <2>1, <3>1, <3>2, RowUpdated
    <3>4. CASE r.from = None
      BY <3>2, <3>3, <3>4 DEF StatusInv, SaidInv, WriteSaid
    <3>5. CASE r.from # None
      <4>1. PICK m \in hooks : m.gid = r.gid /\ m.event = r.status
        BY <3>2, <3>3, <3>5 DEF StatusInv, HookInv, Stores
      <4>2. m = [gid |-> r.gid, event |-> r.status]
        BY <4>1 DEF StatusInv, StatusStateOK, Message
      <4> QED
        BY <3>3, <4>1, <4>2
    <3> QED
      BY <3>4, <3>5
  <2>2. CASE CommitBatch
    BY <2>2 DEF CommitBatch, StatusInv, SendInv, SenderWith, TxnInv
  <2>3. CASE BeginBatch \/ InsertNext
    BY <2>3 DEF BeginBatch, InsertNext
  <2> QED
    BY <2>1, <2>2, <2>3, OthersLeaveTables DEF WriterStep
<1> QED
  BY <1>1, StatusInvariant, PTL DEF StatusSpec, NothingReplayed
-----------------------------------------------------------------------------
(***************************************************************************)
(* Uploads, with the whole server at work: a step of the status half leaves*)
(* them and the work list alone.                                           *)
(***************************************************************************)

StatusHalf ==
  \/ \E g \in Gids : Raise(g) \/ CpWrite(g)
  \/ SendAgain
  \/ \E k \in Calls : (\E m \in Message : Deliver(k, m)) \/ Respond(k) \/ HangUp(k)
  \/ CpWake \/ CpRead \/ CpReadFails \/ CpDone \/ CpPanics

LEMMA TwoHalves ==
  ASSUME [StatusNext]_allVars PROVE [Next]_vars \/ StatusHalf
BY BothAskersEnd
   DEF StatusNext, StatusStep, StatusHalf, StatusWriteLost, StatusCrash, StatusRest, Next,
       allVars, vars

\* What the status half leaves to the handlers and the processor.
UploadsLeft ==
  /\ UNCHANGED <<tables, txn, sendVars>>
  /\ \A k \in DOMAIN wq' : k \in Nat
  /\ \A k \in DOMAIN wq' : wq'[k].op = "NewBatch" => k \in DOMAIN wq /\ wq'[k] = wq[k]
  /\ replies' \subseteq replies
  /\ \A a \in replies : a.to \in Posts => a \in replies'
  /\ \A h \in Posts : h \in awaiting' <=> h \in awaiting
  /\ faults' = faults \/ faults' = faults + 1

LEMMA HalfMoves ==
  ASSUME StatusInv, StatusHalf PROVE UploadsLeft
<1>1. wq \in Seq(Request(Everyone)) /\ \A k \in DOMAIN wq : k \in Nat
  BY DEF StatusInv, SendInv, SendTypes, WriterTypeOK
<1>2. ASSUME NEW r \in Request(Everyone), r.op = "UpdateStatus", r.from \notin Posts, Submit(r),
             UNCHANGED sendVars
      PROVE  UploadsLeft
  <2>1. /\ \A k \in DOMAIN wq' : k \in DOMAIN wq \/ k = Len(wq) + 1
        /\ \A k \in DOMAIN wq : wq'[k] = wq[k]
        /\ wq'[Len(wq) + 1] = r /\ Len(wq) + 1 \in Nat
    BY <1>1, <1>2, AppendQueue DEF Submit
  <2> QED
    BY <1>1, <1>2, <2>1 DEF Submit, UploadsLeft
<1>3. ASSUME NEW g \in Gids, CpWrite(g) PROVE UploadsLeft
  <2>1. PICK r : r = [op |-> "UpdateStatus", gid |-> g, status |-> "voided",
                      reason |-> TRUE, apiErr |-> FALSE, from |-> None]
    OBVIOUS
  <2>2. r \in Request(Everyone) /\ r.op = "UpdateStatus" /\ r.from \notin Posts
    BY <2>1, GidsAreNumbers, EventsAreStatuses, RowIdsAndPosts
    DEF Request, StatusReq
  <2> QED
    BY <1>2, <1>3, <2>1, <2>2 DEF CpWrite
<1>4. ASSUME NEW k \in Calls, NEW m \in Message, Deliver(k, m) PROVE UploadsLeft
  <2>1. PICK r : r = [op |-> "UpdateStatus", gid |-> m.gid, status |-> m.event,
                      reason |-> FALSE, apiErr |-> FALSE, from |-> k]
    OBVIOUS
  <2>2. r \in Request(Everyone) /\ r.op = "UpdateStatus" /\ r.from \notin Posts
    BY <2>1, MessageParts, GidsAreNumbers, EventsAreStatuses, CallsAside
    DEF Request, StatusReq
  <2> QED
    BY <1>2, <1>4, <2>1, <2>2 DEF Deliver
<1>5. ASSUME NEW k \in Calls, Respond(k) \/ HangUp(k) PROVE UploadsLeft
  BY <1>1, <1>5, CallsAside DEF Respond, HangUp, TakeReply, Abandon, UploadsLeft
<1>6. CASE \/ \E g \in Gids : Raise(g)
           \/ SendAgain \/ CpWake \/ CpRead \/ CpReadFails \/ CpDone \/ CpPanics
  BY <1>1, <1>6 DEF Raise, SendAgain, CpWake, CpRead, CpReadFails, CpDone, CpPanics, writerVars,
                UploadsLeft
<1> QED
  BY <1>3, <1>4, <1>5, <1>6 DEF StatusHalf

ServerInv == StatusInv /\ UploadInv /\ NewOnlyInv /\ CalmInv

LEMMA HalfUpload ==
  ASSUME ServerInv, StatusHalf PROVE UploadInv' /\ NewOnlyInv' /\ CalmInv'
<1>1. UploadsLeft
  BY HalfMoves DEF ServerInv
<1>2. SenderWith(ByGid) /\ faults \in Nat
  BY DEF ServerInv, StatusInv, SendInv, SendTypes, WriterTypeOK
<1>3. UNCHANGED <<tables, txn, posts, auth, nbTok, nbp, job, tried>>
  BY <1>1 DEF sendVars, UploadsLeft
<1>4. UploadInv'
  <2>1. \A k \in DOMAIN wq' : IsBatch(k)' => k + 0 \in DOMAIN wq /\ wq'[k] = wq[k + 0]
    BY <1>1 DEF IsBatch, UploadsLeft
  <2>2. \A a : a.to \in Posts => (a \in replies' <=> a \in replies)
    BY <1>1 DEF UploadsLeft
  <2> QED
    BY <1>1, <1>2, <1>3, <2>1, <2>2, QuietUpload DEF ServerInv, UploadsLeft
<1>5. NewOnlyInv'
  BY <1>1, <1>3, QuietNewOnly DEF ServerInv
<1>6. CalmInv'
  BY <1>1, <1>2, <1>3 DEF ServerInv, CalmInv, Noticed, UploadsLeft
<1> QED
  BY <1>4, <1>5, <1>6

LEMMA ServerInvKept ==
  ASSUME ServerInv, [StatusNext]_allVars PROVE ServerInv'
<1>1. StatusInv'
  BY StatusInvKept DEF ServerInv
<1>2. CASE StatusHalf
  BY <1>1, <1>2, HalfUpload DEF ServerInv
<1>3. CASE [Next]_vars
  <2>1. SendTypes(Everyone) /\ SenderWith(ByGid)
    BY DEF ServerInv, StatusInv, SendInv
  <2> QED
    BY <1>1, <1>3, <2>1, NextUpload, NextNewOnly, NextCalm DEF ServerInv
<1> QED
  BY <1>2, <1>3, TwoHalves

LEMMA ServerInit ==
  ASSUME StatusInit PROVE ServerInv
<1>1. Init
  BY DEF StatusInit
<1> QED
  BY <1>1, StatusInitInv, UploadInit, NewOnlyInit, CalmInit DEF ServerInv

LEMMA ServerInvariant == StatusSpec => []ServerInv
<1>1. ServerInv /\ [StatusNext]_allVars => ServerInv'
  BY ServerInvKept
<1> QED
  BY <1>1, ServerInit, PTL DEF StatusSpec

(* What a 201 promises holds with the webhook's and the processor's writes *)
(* between the uploads: the batch stays, and whole.                        *)
THEOREM ServerKeepsBatches == StatusSpec => [](AckedBatchDurable /\ BatchesAreWhole)
<1>1. ServerInv => AckedBatchDurable /\ BatchesAreWhole
  BY UploadMeansAcked, UploadMeansWhole DEF ServerInv, StatusInv, SendInv
<1> QED
  BY <1>1, ServerInvariant, PTL

(* A 201 without duplicates speaks true of the commit it answers for, with *)
(* the events' writes between the inserts of the batches.                  *)
THEOREM ServerAnswersAreTrue == StatusSpec => CleanMeansNew
<1>1. ServerInv /\ [StatusNext]_allVars => [CleanStep]_vars
  <2> SUFFICES ASSUME ServerInv, [StatusNext]_allVars PROVE CleanStep
    OBVIOUS
  <2>1. CASE [Next]_vars
    BY <2>1, NextNewOnly DEF ServerInv, StatusInv, SendInv
  <2>2. CASE StatusHalf
    BY <2>2, HalfMoves DEF ServerInv, UploadsLeft, CleanStep
  <2> QED
    BY <2>1, <2>2, TwoHalves
<1> QED
  BY <1>1, ServerInvariant, PTL DEF StatusSpec, CleanMeansNew, CleanStep

(* Without a fault no upload is overlooked, whatever DocuSign says of other*)
(* envelopes meanwhile.                                                    *)
THEOREM ServerKeepsWakeups == StatusSpec /\ []RowsFit => []NoLostWakeup
<1>1. ServerInv /\ RowsFit => NoLostWakeup
  BY DEF ServerInv, CalmInv, RowsFit, NoLostWakeup, Noticed, Unsent
<1> QED
  BY <1>1, ServerInvariant, PTL
-----------------------------------------------------------------------------
(***************************************************************************)
(* The end of the server.  A task that has ended had nothing to do and can *)
(* be given nothing: what feeds it has ended before.                       *)
(***************************************************************************)

CpInv ==
  /\ nbp = "dead" => ~ nbTok
  /\ cp = "dead" => ~ cpTok
  /\ gets # {} => cp \in {"fetching", "stuck"}

EndedInv ==
  /\ ended # {} => web = "down"
  /\ web = "down" => ~ InHandler /\ ~ InWebhook
  /\ "newBatch" \in ended => nbp = "idle" /\ ~ nbTok
  /\ "completed" \in ended => cp = "idle" /\ ~ cpTok
  /\ "writer" \in ended => NewBatchGone /\ CompletedGone /\ wq = << >> /\ txn = None
  /\ "main" \in ended => "writer" \in ended

StopInv == CpInv /\ EndedInv

\* What moves the processors, and what fills the queue.
LEMMA NewBatchMoves ==
  ASSUME ServerInv, CpInv, StatusStep
  PROVE  /\ nbTok' /\ ~ nbTok => nbp # "dead" /\ \E a \in replies : a.to \in Posts
         /\ nbp' # nbp => nbp # "dead"
         /\ nbp' # nbp /\ nbp = "idle" => nbTok \/ \E i \in RowIds : job[i] # "none"
         /\ nbp' = "dead" => nbp = "dead" \/ ~ nbTok'
<1>0. nbTok \in BOOLEAN
  BY DEF ServerInv, StatusInv, SendInv, SendTypes, SendStateOK
<1>1. CASE StatusHalf
  BY <1>1, HalfMoves DEF ServerInv, UploadsLeft, sendVars
<1>2. CASE SendStep
  <2>1. ASSUME NEW h \in Posts, PostBatch(h) \/ PostAnswered(h) \/ PostCancelled(h)
        PROVE  /\ nbp' = nbp
               /\ nbTok' /\ ~ nbTok => nbp # "dead" /\ \E a \in replies : a.to \in Posts
    <3>1. CASE PostBatch(h) \/ PostCancelled(h)
      BY <3>1 DEF PostBatch, PostCancelled
    <3>2. CASE PostAnswered(h)
      <4>1. PICK a \in replies :
              a.to = h /\ nbTok' = (nbTok \/ (a.res = "Ok" /\ nbp # "dead"))
        BY <3>2 DEF PostAnswered, TakeReply
      <4>2. nbTok' /\ ~ nbTok => nbp # "dead"
        BY <4>1
      <4> QED
        BY <3>2, <4>1, <4>2 DEF PostAnswered
    <3> QED
      BY <2>1, <3>1, <3>2
  <2>2. ASSUME NEW i \in RowIds, Job(i)
        PROVE  UNCHANGED <<nbp, nbTok>>
    BY <2>2 DEF Job, StartJob, DocusignCreates, RecordSent, ConnectionError,
      NothingRecorded, RateLimited, PostAgain, Written
  <2>3. CASE WriterStep /\ UNCHANGED sendVars
    BY <2>3 DEF sendVars
  <2>4. CASE Wake \/ ReadUnsent \/ ReadFails \/ AllSent
    BY <1>0, <2>4 DEF Wake, ReadUnsent, ReadFails, AllSent
  <2>5. CASE ProcessorPanics
    <3>1. nbp # "dead"
      BY <2>5 DEF ProcessorPanics, Asking, ServerInv, StatusInv, SendInv, SenderWith, JobInv
    <3>2. ~ nbTok' /\ (nbp = "reading" \/ \E i \in RowIds : job[i] # "none")
      BY <2>5 DEF ProcessorPanics, Asking, Unwinds
    <3> QED
      BY <3>1, <3>2
  <2> QED
    BY <1>0, <1>2, <2>1, <2>2, <2>3, <2>4, <2>5 DEF SendStep, CpInv
<1>3. CASE StatusWriteLost
  BY <1>3 DEF StatusWriteLost, WriteLost
<1>4. CASE StatusTaskDies
  <2>1. CASE Strands
    BY <2>1 DEF Strands, CpInv
  <2>2. CASE Asking /\ Unwinds
    <3>1. nbp # "dead" /\ (nbp = "reading" \/ \E i \in RowIds : job[i] # "none")
      BY <2>2 DEF Asking, ServerInv, StatusInv, SendInv, SenderWith, JobInv
    <3> QED
      BY <2>2, <3>1 DEF Unwinds
  <2> QED
    BY <1>4, <2>1, <2>2 DEF StatusTaskDies
<1> QED
  BY <1>1, <1>2, <1>3, <1>4 DEF StatusStep, StatusHalf

LEMMA CompletedMoves ==
  ASSUME ServerInv, CpInv, StatusStep
  PROVE  /\ cpTok' /\ ~ cpTok => cp # "dead" /\ \E a \in replies : a.to \in Calls
         /\ cp' # cp => cp # "dead"
         /\ cp' # cp /\ cp = "idle" => cpTok
         /\ cp' = "dead" => cp = "dead" \/ ~ cpTok'
         /\ gets' # {} => cp' \in {"fetching", "stuck"}
<1>0. cpTok \in BOOLEAN
  BY DEF ServerInv, StatusInv, StatusStateOK
<1>1. CASE (SendStep /\ UNCHANGED statusVars) \/ StatusWriteLost
  BY <1>1 DEF statusVars, StatusWriteLost, CpInv
<1>2. ASSUME NEW g \in Gids, Raise(g) \/ CpWrite(g)
      PROVE  UNCHANGED <<cp, cpTok>> /\ (gets' # {} => gets # {})
  BY <1>2 DEF Raise, CpWrite
<1>3. ASSUME NEW k \in Calls, (\E m \in Message : Deliver(k, m)) \/ HangUp(k)
      PROVE  UNCHANGED <<cp, cpTok, gets>>
  BY <1>3 DEF Deliver, HangUp
<1>4. ASSUME NEW k \in Calls, Respond(k)
      PROVE  /\ UNCHANGED <<cp, gets>>
             /\ cpTok' /\ ~ cpTok => cp # "dead" /\ \E a \in replies : a.to \in Calls
  BY <1>0, <1>4 DEF Respond, TakeReply
<1>5. CASE CpWake \/ CpRead \/ CpReadFails \/ CpDone \/ SendAgain
  BY <1>0, <1>5 DEF CpWake, CpRead, CpReadFails, CpDone, SendAgain, CpInv
<1>6. CASE CpPanics
  BY <1>0, <1>6 DEF CpPanics, CpAsking, CpUnwinds, CpInv
<1>7. CASE StatusTaskDies
  <2>1. CASE CpStrands
    BY <2>1 DEF CpStrands, CpAsking, CpInv
  <2>2. CASE CpAsking /\ CpUnwinds
    BY <2>2 DEF CpAsking, CpUnwinds, CpInv
  <2> QED
    BY <1>7, <2>1, <2>2 DEF StatusTaskDies
<1> QED
  BY <1>1, <1>2, <1>3, <1>4, <1>5, <1>6, <1>7 DEF StatusStep, CpInv

\* A request that moves was idle or waiting.
LEMMA PostMoves ==
  ASSUME ServerInv, StatusStep, NEW h \in Posts, posts'[h] # posts[h]
  PROVE  posts[h].pc \in {"idle", "waiting"}
<1>0. posts \in [Posts -> Post]
  BY DEF ServerInv, StatusInv, SendInv, SendTypes, SendStateOK
<1>1. CASE StatusHalf \/ StatusWriteLost \/ StatusTaskDies
  BY <1>1, HalfMoves, BothAskersEnd
  DEF ServerInv, UploadsLeft, sendVars, StatusWriteLost, WriteLost, Unmoved
<1>2. CASE SendStep
  <2>1. ASSUME NEW g \in Posts, PostBatch(g) \/ PostAnswered(g) \/ PostCancelled(g)
        PROVE  g = h /\ posts[h].pc \in {"idle", "waiting"}
    <3>1. g = h
      BY <1>0, <2>1 DEF PostBatch, PostAnswered, PostCancelled
    <3>2. (\E a \in replies : a.to = h) => posts[h].pc = "waiting"
      BY DEF ServerInv, UploadInv, AnswerInv
    <3> QED
      BY <2>1, <3>1, <3>2 DEF PostBatch, PostAnswered, PostCancelled, TakeReply
  <2>2. (\E i \in RowIds : Job(i)) => UNCHANGED posts
    BY DEF Job, StartJob, DocusignCreates, RecordSent, ConnectionError,
      NothingRecorded, RateLimited, PostAgain, Written
  <2>3. Wake \/ ReadUnsent \/ ReadFails \/ AllSent \/ ProcessorPanics
          \/ (WriterStep /\ UNCHANGED sendVars) => UNCHANGED posts
    BY DEF Wake, ReadUnsent, ReadFails, AllSent, ProcessorPanics, sendVars
  <2> QED
    BY <1>2, <2>1, <2>2, <2>3 DEF SendStep
<1> QED
  BY <1>1, <1>2 DEF StatusStep, StatusHalf

\* With nobody left to ask, nothing more comes to the writer.
LEMMA WriterMoves ==
  ASSUME ServerInv, StatusStep, TakesNoRequest, wq = << >>, txn = None, gets = {},
         \A i \in RowIds : job[i] = "none"
  PROVE  wq' = << >> /\ txn' = None
<1>1. ASSUME NEW h \in Posts PROVE ~ PostBatch(h)
  <2>1. PostBatch(h) => posts[h].pc = "idle" /\ posts'[h].pc = "waiting"
    BY DEF PostBatch, ServerInv, StatusInv, SendInv, SendTypes, SendStateOK
  <2> QED
    BY <2>1 DEF TakesNoRequest
<1>2. ASSUME NEW h \in Posts, PostAnswered(h) \/ PostCancelled(h)
      PROVE  UNCHANGED <<wq, txn>>
  BY <1>2 DEF PostAnswered, PostCancelled, TakeReply
<1>3. ASSUME NEW i \in RowIds PROVE ~ Job(i)
  BY DEF Job, StartJob, DocusignCreates, RecordSent, ConnectionError,
    NothingRecorded, RateLimited, PostAgain, Written
<1>4. ~ WriterStep /\ ~ StatusWriteLost
  BY DEF WriterStep, BeginBatch, InsertNext, CommitBatch, UpdateRow, Serving,
         StatusWriteLost, WriteLost, WriteFails
<1>5. Wake \/ ReadUnsent \/ ReadFails \/ AllSent \/ ProcessorPanics \/ StatusTaskDies
        => UNCHANGED <<wq, txn>>
  BY AskersEnd, BothAskersEnd
  DEF Wake, ReadUnsent, ReadFails, AllSent, Unmoved, writerVars
<1>6. ASSUME NEW k \in Calls, NEW m \in Message PROVE ~ Deliver(k, m)
  <2>1. Deliver(k, m) => calls[k].pc = "idle" /\ calls'[k].pc = "waiting"
    BY DEF Deliver, ServerInv, StatusInv, StatusStateOK
  <2> QED
    BY <2>1 DEF TakesNoRequest
<1>7. ASSUME NEW k \in Calls, Respond(k) \/ HangUp(k) PROVE UNCHANGED <<wq, txn>>
  BY <1>7 DEF Respond, HangUp, TakeReply
<1>8. ASSUME NEW g \in Gids PROVE ~ CpWrite(g) /\ (Raise(g) => UNCHANGED <<wq, txn>>)
  BY DEF CpWrite, Raise, writerVars
<1>9. SendAgain \/ CpWake \/ CpRead \/ CpReadFails \/ CpDone \/ CpPanics
        => UNCHANGED <<wq, txn>>
  BY DEF SendAgain, CpWake, CpRead, CpReadFails, CpDone, CpPanics, writerVars
<1> QED
  BY <1>1, <1>2, <1>3, <1>4, <1>5, <1>6, <1>7, <1>8, <1>9 DEF StatusStep, SendStep

\* What has come to its end stays there.
LEMMA Stopped ==
  ASSUME ServerInv, StopInv, web = "down"
  PROVE  /\ \A a \in replies : a.to \notin Posts /\ a.to \notin Calls
         /\ NewBatchGone => \A i \in RowIds : job[i] = "none"
         /\ CompletedGone => gets = {}
<1>1. \A a \in replies : a.to \notin Posts
  BY DEF ServerInv, UploadInv, AnswerInv, StopInv, EndedInv, InHandler
<1>2. \A a \in replies : a.to \notin Calls
  BY DEF ServerInv, StatusInv, CallInv, StopInv, EndedInv, InWebhook
<1>3. NewBatchGone => nbp # "sending"
  BY DEF NewBatchGone, StopInv, EndedInv
<1>4. NewBatchGone => \A i \in RowIds : job[i] = "none"
  BY <1>3 DEF ServerInv, StatusInv, SendInv, SenderWith, JobInv
<1>5. CompletedGone => gets = {}
  BY DEF CompletedGone, StopInv, EndedInv, CpInv
<1> QED
  BY <1>1, <1>2, <1>4, <1>5

LEMMA ServesStop ==
  ASSUME ServerInv, StopInv, Serves PROVE StopInv'
<1>1. StatusStep /\ UNCHANGED <<web, ended>> /\ CpInv
  BY DEF Serves, stopVars, StopInv
<1>0. nbTok \in BOOLEAN /\ cpTok \in BOOLEAN
  BY DEF ServerInv, StatusInv, SendInv, SendTypes, SendStateOK, StatusStateOK
<1>2. CpInv'
  BY <1>1, NewBatchMoves, CompletedMoves DEF CpInv
<1>3. CASE web # "down"
  BY <1>1, <1>2, <1>3 DEF StopInv, EndedInv
<1>4. CASE web = "down"
  <2>1. TakesNoRequest
    BY <1>4 DEF Serves
  <2>2. ~ InHandler'
    BY <1>1, <1>4, <2>1, PostMoves DEF StopInv, EndedInv, InHandler, TakesNoRequest
  <2>3. ~ InWebhook'
    <3>1. \A k \in Calls : calls[k].pc = "idle"
      BY <1>4 DEF StopInv, EndedInv, InWebhook, ServerInv, StatusInv, StatusStateOK, Idle
    <3> QED
      BY <2>1, <3>1 DEF InWebhook, TakesNoRequest
  <2>4. "newBatch" \in ended => nbp' = "idle" /\ ~ nbTok'
    BY <1>0, <1>1, <1>4, Stopped, NewBatchMoves DEF StopInv, EndedInv, NewBatchGone
  <2>5. "completed" \in ended => cp' = "idle" /\ ~ cpTok'
    BY <1>0, <1>1, <1>4, Stopped, CompletedMoves DEF StopInv, EndedInv
  <2>6. "writer" \in ended => NewBatchGone' /\ CompletedGone' /\ wq' = << >> /\ txn' = None
    <3> SUFFICES ASSUME "writer" \in ended
                 PROVE  NewBatchGone' /\ CompletedGone' /\ wq' = << >> /\ txn' = None
      OBVIOUS
    <3>1. NewBatchGone /\ CompletedGone /\ wq = << >> /\ txn = None
      BY DEF StopInv, EndedInv
    <3>2. wq' = << >> /\ txn' = None
      BY <1>1, <1>4, <2>1, <3>1, Stopped, WriterMoves
    <3>3. NewBatchGone' /\ CompletedGone'
      BY <1>1, <3>1, NewBatchMoves, CompletedMoves DEF NewBatchGone, CompletedGone
    <3> QED
      BY <3>2, <3>3
  <2>7. EndedInv'
    BY <1>1, <1>4, <2>2, <2>3, <2>4, <2>5, <2>6 DEF EndedInv, StopInv
  <2> QED
    BY <1>2, <2>7 DEF StopInv
<1> QED
  BY <1>3, <1>4

LEMMA RestartsStop ==
  ASSUME ServerInv, Restarts PROVE StopInv'
<1>1. /\ ended' = {} /\ web' = "up" /\ nbp' = "idle" /\ cp' = "idle" /\ gets' = {}
  BY DEF Restarts, StatusCrash, Crash
<1> QED
  BY <1>1 DEF StopInv, CpInv, EndedInv

LEMMA EndsStop ==
  ASSUME ServerInv, StopInv, Signal \/ ShutdownStep PROVE StopInv'
<1>1. UNCHANGED <<wq, txn, posts, calls, nbTok, nbp, cpTok, cp, gets>>
  BY DEF Signal, ShutdownStep, WebEnds, NewBatchEnds, CompletedEnds, ConnectorEnds, WriterEnds,
         ReadersEnd, MainEnds, Ends, allVars, writerVars, sendVars, statusVars
<1>2. CpInv'
  BY <1>1 DEF StopInv, CpInv
<1>3. CASE Signal \/ WebEnds
  <2>1. ended' = ended /\ ended = {}
    BY <1>3 DEF Signal, WebEnds, StopInv, EndedInv
  <2>2. web' = "down" => ~ InHandler' /\ ~ InWebhook'
    BY <1>1, <1>3 DEF Signal, WebEnds, InHandler, InWebhook
  <2> QED
    BY <1>2, <2>1, <2>2 DEF StopInv, EndedInv
<1>4. ASSUME NEW t, Ends(t), web = "down",
             t = "newBatch" => nbp = "idle" /\ ~ nbTok,
             t = "completed" => cp = "idle" /\ ~ cpTok,
             t = "writer" => NewBatchGone /\ CompletedGone /\ wq = << >> /\ txn = None,
             t = "main" => "writer" \in ended
      PROVE  StopInv'
  <2>1. ended' = ended \cup {t} /\ web' = web
    BY <1>4 DEF Ends
  <2>2. /\ InHandler' <=> InHandler
        /\ InWebhook' <=> InWebhook
        /\ NewBatchGone => NewBatchGone'
        /\ CompletedGone => CompletedGone'
    BY <1>1, <2>1 DEF InHandler, InWebhook, NewBatchGone, CompletedGone
  <2> QED
    BY <1>1, <1>2, <1>4, <2>1, <2>2 DEF StopInv, EndedInv
<1> QED
  BY <1>3, <1>4 DEF ShutdownStep, NewBatchEnds, CompletedEnds, ConnectorEnds, WriterEnds,
                    ReadersEnd, MainEnds

LEMMA ShutdownInvKept ==
  ASSUME ServerInv, StopInv, [ShutdownNext]_serverVars PROVE ServerInv' /\ StopInv'
<1>1. CASE Serves
  BY <1>1, ServesStop, ServerInvKept DEF Serves, StatusNext
<1>2. CASE Restarts
  BY <1>2, RestartsStop, ServerInvKept DEF Restarts, StatusNext
<1>3. CASE Signal \/ ShutdownStep
  <2>1. UNCHANGED allVars
    BY <1>3 DEF Signal, ShutdownStep, WebEnds, NewBatchEnds, CompletedEnds, ConnectorEnds,
      WriterEnds, ReadersEnd, MainEnds, Ends
  <2> QED
    BY <1>3, <2>1, EndsStop, ServerInvKept
<1>4. CASE AtEase \/ UNCHANGED serverVars
  <2>1. UNCHANGED allVars /\ UNCHANGED <<web, ended>>
    BY <1>4 DEF AtEase, serverVars, stopVars
  <2>2. UNCHANGED <<wq, txn, posts, calls, nbTok, nbp, cpTok, cp, gets>>
    BY <2>1 DEF allVars, writerVars, sendVars, statusVars
  <2>3. StopInv'
    BY <2>1, <2>2 DEF StopInv, CpInv, EndedInv, InHandler, InWebhook, NewBatchGone,
                      CompletedGone
  <2> QED
    BY <2>1, <2>3, ServerInvKept
<1> QED
  BY <1>1, <1>2, <1>3, <1>4 DEF ShutdownNext

LEMMA ShutdownInvariant == ShutdownSpec => [](ServerInv /\ StopInv)
<1>1. ShutdownInit => ServerInv /\ StopInv
  <2> SUFFICES ASSUME ShutdownInit PROVE ServerInv /\ StopInv
    OBVIOUS
  <2>1. ServerInv
    BY ServerInit DEF ShutdownInit
  <2>2. web = "up" /\ ended = {} /\ gets = {} /\ nbp = "idle" /\ cp = "idle"
    BY DEF ShutdownInit, StatusInit, Init
  <2> QED
    BY <2>1, <2>2 DEF StopInv, CpInv, EndedInv
<1>2. ServerInv /\ StopInv /\ [ShutdownNext]_serverVars => (ServerInv /\ StopInv)'
  BY ShutdownInvKept
<1> QED
  BY <1>1, <1>2, PTL DEF ShutdownSpec

(* Nothing is cut short: when the writer ends, and when main() returns and *)
(* ends whatever still runs, no request, job, fetch or write is under way, *)
(* although main() has dropped the completed processor's handle.           *)
THEOREM NothingIsCutShort == ShutdownSpec => []NothingCutShort
<1>1. ASSUME ServerInv, StopInv PROVE NothingCutShort
  <2> SUFFICES ASSUME "writer" \in ended
               PROVE  /\ wq = << >> /\ txn = None
                      /\ ~ InHandler /\ ~ InWebhook
                      /\ \A i \in RowIds : job[i] = "none"
                      /\ gets = {}
    BY <1>1 DEF NothingCutShort, Exited, StopInv, EndedInv
  <2>1. web = "down" /\ NewBatchGone /\ CompletedGone
    BY <1>1 DEF StopInv, EndedInv
  <2> QED
    BY <1>1, <2>1, Stopped DEF StopInv, EndedInv
<1> QED
  BY <1>1, ShutdownInvariant, PTL

(* The wake-ups that are in the channels when the server is told to stop   *)
(* are worked off: without a fault no stored row is left untried, and no   *)
(* voided row without its reason unless its event comes again.             *)
THEOREM NoWorkIsLeft == ShutdownSpec /\ []RowsFit => []NoWorkLeft
<1>1. ASSUME ServerInv, StopInv, RowsFit PROVE NoWorkLeft
  <2> SUFFICES ASSUME "main" \in ended
               PROVE  /\ faults = 0 => Unsent(tables) \subseteq tried
                      /\ missed \/ \A i \in VoidsToFetch :
                           [gid |-> tables.envs[i].gid, event |-> "voided"] \in hooks
    BY DEF NoWorkLeft, Exited
  <2>1. /\ web = "down" /\ NewBatchGone /\ CompletedGone /\ DOMAIN wq = {}
        /\ ~ InHandler
    BY <1>1 DEF StopInv, EndedInv
  <2>2. /\ \A i \in RowIds : job[i] = "none"
        /\ gets = {}
        /\ \A a \in replies : a.to \notin Posts
    BY <1>1, <2>1, Stopped
  <2>3. ASSUME faults = 0 PROVE Unsent(tables) \subseteq tried
    <3>1. nbp = "idle" /\ ~ nbTok
      BY <1>1, <2>1, <2>3 DEF NewBatchGone, StopInv, EndedInv, ServerInv, CalmInv
    <3>2. \A i \in RowIds : ~ Noticed(i)
      BY <2>2, <3>1 DEF Noticed
    <3> QED
      BY <1>1, <2>3, <3>2 DEF ServerInv, CalmInv, RowsFit, Unsent
  <2>4. ASSUME ~ missed, NEW i \in VoidsToFetch
        PROVE  [gid |-> tables.envs[i].gid, event |-> "voided"] \in hooks
    <3>1. cp = "idle" /\ ~ cpTok
      BY <1>1, <2>1, <2>4 DEF CompletedGone, StopInv, EndedInv, ServerInv, StatusInv, VoidInv
    <3> QED
      BY <1>1, <2>1, <2>2, <2>4, <3>1
      DEF ServerInv, StatusInv, VoidInv, VoidWorkNotForgotten
  <2> QED
    BY <2>3, <2>4
<1> QED
  BY <1>1, ShutdownInvariant, PTL

(* A server that may be told to stop does nothing the server would not do: *)
(* what is shown of the whole server holds while it drains.                *)
THEOREM StoppingAddsNothing == ShutdownSpec => StatusSpec
<1>1. ShutdownInit => StatusInit
  BY DEF ShutdownInit
<1>2. [ShutdownNext]_serverVars => [StatusNext]_allVars
  <2> SUFFICES ASSUME [ShutdownNext]_serverVars PROVE [StatusNext]_allVars
    OBVIOUS
  <2>1. CASE Serves \/ Restarts
    BY <2>1 DEF Serves, Restarts, StatusNext
  <2>2. CASE Signal \/ ShutdownStep
    BY <2>2 DEF Signal, ShutdownStep, WebEnds, NewBatchEnds, CompletedEnds, ConnectorEnds,
      WriterEnds, ReadersEnd, MainEnds, Ends
  <2>3. CASE AtEase \/ UNCHANGED serverVars
    BY <2>3 DEF AtEase, serverVars
  <2> QED
    BY <2>1, <2>2, <2>3 DEF ShutdownNext
<1> QED
  BY <1>1, <1>2, PTL DEF ShutdownSpec, StatusSpec
=============================================================================
