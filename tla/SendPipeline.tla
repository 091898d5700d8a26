---------------------------- MODULE SendPipeline ----------------------------
(***************************************************************************)
(* From a posted batch to DocuSign: the POST /api/batches handler          *)
(* (create_server/api.rs, new_batch), the database writer (DbWriter), the  *)
(* new_batch_processor task with its concurrent send_envelope jobs         *)
(* (batch_processor.rs), and DocuSign, which is external and known only by *)
(* how send_envelope treats its answers.                                   *)
(*                                                                         *)
(* The handler stores the batch and then wakes the processor through a     *)
(* channel of one slot; the processor reads every unsent row and posts     *)
(* each to DocuSign, at most Concurrency at a time.  Every await is a      *)
(* point where the others run: they are the boundaries of the actions.     *)
(*                                                                         *)
(* Of the token task (oauth.rs, TokenAuth) only its end matters here.  It  *)
(* dies when a renewal fails.  The get() it was serving panics, and so does*)
(* every later one that needs it; those still queued behind it wait for    *)
(* ever, in a closed channel that keeps what it holds.                     *)
(***************************************************************************)
EXTENDS DbWriter

CONSTANTS
  Posts,        \* the POST /api/batches requests
  Inputs,       \* record lists a request may carry
  MaxRows,      \* bound on rows: as many as the posts can insert
  MaxCopies,    \* bound on envelopes DocuSign creates
  Concurrency   \* CONCURRENCY_BUFFER

ASSUME InputsAssumption      == Inputs \subseteq Seq(Ssns)
ASSUME MaxRowsAssumption     == MaxRows \in Nat
ASSUME MaxCopiesAssumption   == MaxCopies \in Nat
ASSUME ConcurrencyAssumption == Concurrency \in Nat \ {0}
ASSUME PostsAssumption       == Posts \cap (Nat \cup {None}) = {}
ASSUME NoBatchAssumption     == None \notin Batches

VARIABLES
  posts,    \* the handler of each request
  auth,     \* the token task
  nbTok,    \* is the processor's channel holding its one ()?
  nbp,      \* the processor task
  job,      \* send_envelope, per row
  got,      \* the envelope id in the 201 DocuSign sent for a row
  copies,   \* the envelopes at DocuSign: copies[g] is the row g was made for
  tried,    \* history: rows posted at least once
  orphans   \* history: envelopes whose id a fault kept from the table

sendVars == <<posts, auth, nbTok, nbp, job, got, copies, tried, orphans>>
vars == <<writerVars, sendVars>>

RowIds == 1 .. MaxRows
SendClients == Posts \cup RowIds   \* a job waits under its row's id

\* A job, or the processor, is stuck in a get() nobody will answer.
JobState == {"none", "todo", "posting", "created", "sleeping", "writing", "stuck"}
InFlight == {i \in RowIds : job[i] \notin {"none", "todo"}}

Post == [pc : {"idle", "waiting", "201", "409", "500", "gone"},
         batch : Batches \cup {None}, recs : Seq(Ssns), dups : Nat]

SendStateOK ==
  /\ posts \in [Posts -> Post]
  /\ nbTok \in BOOLEAN
  /\ auth \in {"up", "dead"}
  /\ nbp \in {"idle", "reading", "sending", "stuck", "dead"}
  /\ job \in [RowIds -> JobState]
  /\ got \in [RowIds -> Nat \cup {None}]
  /\ copies \in Seq(RowIds)
  /\ tried \subseteq RowIds
  /\ orphans \subseteq Nat

(* Every variable has its type.                                            *)
SendTypeOK == WriterTypeOK(SendClients) /\ SendStateOK

\* main() wakes the completed processor at start-up, not this one.
Init ==
  /\ WriterInit
  /\ posts = [h \in Posts |-> [pc |-> "idle", batch |-> None, recs |-> << >>,
                               dups |-> 0]]
  /\ auth = "up"
  /\ nbTok = FALSE
  /\ nbp = "idle"
  /\ job = [i \in RowIds |-> "none"]
  /\ got = [i \in RowIds |-> None]
  /\ copies = << >>
  /\ tried = {}
  /\ orphans = {}

-----------------------------------------------------------------------------
(* The request handler.                                                    *)

PostBatch(h) ==
  /\ posts[h].pc = "idle"
  /\ \E b \in Batches, recs \in Inputs :
       /\ Submit([op |-> "NewBatch", batch |-> b, recs |-> recs, from |-> h])
       /\ posts' = [posts EXCEPT ![h] = [pc |-> "waiting", batch |-> b,
                                         recs |-> recs, dups |-> 0]]
  /\ UNCHANGED <<auth, nbTok, nbp, job, got, copies, tried, orphans>>

\* Seeded fault: the processor is woken only while it is idle.
PostAnsweredIdle(h) ==
  /\ \E a \in replies :
       /\ a.to = h
       /\ TakeReply(a)
       /\ posts' = [posts EXCEPT ![h].dups = a.dups,
                                 ![h].pc = IF a.res = "Ok" THEN "201" ELSE "500"]
       /\ nbTok' = (nbTok \/ (a.res = "Ok" /\ nbp = "idle"))
  /\ UNCHANGED <<auth, nbp, job, got, copies, tried, orphans>>

\* btx.try_send(()) fills the slot; it fails, ignored, when the slot is full
\* or the processor has dropped its receiver.
PostAnswered(h) ==
  /\ \E a \in replies :
       /\ a.to = h
       /\ TakeReply(a)
       /\ posts' = [posts EXCEPT ![h].dups = a.dups,
                                 ![h].pc = CASE a.res = "Ok"        -> "201"
                                             [] a.res = "Duplicate" -> "409"
                                             [] OTHER               -> "500"]
       /\ nbTok' = (nbTok \/ (a.res = "Ok" /\ nbp # "dead"))
  /\ UNCHANGED <<auth, nbp, job, got, copies, tried, orphans>>

\* The client hangs up while the handler awaits: hyper drops the future.
PostCancelled(h) ==
  /\ posts[h].pc = "waiting"
  /\ faults < MaxFaults
  /\ faults' = faults + 1
  /\ Abandon({h})
  /\ posts' = [posts EXCEPT ![h].pc = "gone"]
  /\ UNCHANGED <<tables, wq, txn, auth, nbTok, nbp, job, got, copies, tried, orphans>>

-----------------------------------------------------------------------------
(* The processor's loop.                                                   *)

Wake ==
  /\ nbp = "idle"
  /\ nbTok
  /\ nbTok' = FALSE
  /\ nbp' = "reading"
  /\ UNCHANGED <<writerVars, posts, auth, job, got, copies, tried, orphans>>

\* Seeded fault: a row that was refused once is not read again.
ReadUntried ==
  /\ nbp = "reading"
  /\ nbp' = "sending"
  /\ job' = [i \in RowIds |-> IF i \in Unsent(tables) \ tried THEN "todo" ELSE job[i]]
  /\ UNCHANGED <<writerVars, posts, auth, nbTok, got, copies, tried, orphans>>

ReadUnsent ==
  /\ nbp = "reading"
  /\ nbp' = "sending"
  /\ job' = [i \in RowIds |-> IF i \in Unsent(tables) THEN "todo" ELSE job[i]]
  /\ UNCHANGED <<writerVars, posts, auth, nbTok, got, copies, tried, orphans>>

\* "unable to get batch from db": the wake-up is spent.
ReadFails ==
  /\ nbp = "reading"
  /\ faults < MaxFaults
  /\ faults' = faults + 1
  /\ nbp' = "idle"
  /\ UNCHANGED <<tables, wq, txn, awaiting, replies, posts, auth, nbTok, job, got,
                 copies, tried, orphans>>

\* Seeded fault: the jobs are spawned and not awaited.
AllSentEarly ==
  /\ nbp = "sending"
  /\ nbp' = "idle"
  /\ UNCHANGED <<writerVars, posts, auth, nbTok, job, got, copies, tried, orphans>>

\* buffer_unordered(..).collect() ends when every job has.
AllSent ==
  /\ nbp = "sending"
  /\ \A i \in RowIds : job[i] = "none"
  /\ nbp' = "idle"
  /\ UNCHANGED <<writerVars, posts, auth, nbTok, job, got, copies, tried, orphans>>

-----------------------------------------------------------------------------
(* send_envelope for row i.                                                *)

StartJob(i) ==
  /\ job[i] = "todo"
  /\ Cardinality(InFlight) < Concurrency
  /\ job' = [job EXCEPT ![i] = "posting"]
  /\ tried' = tried \cup {i}
  /\ UNCHANGED <<writerVars, posts, auth, nbTok, nbp, got, copies, orphans>>

\* DocuSign creates and mails the envelope; its 201 is on the way.
DocusignCreates(i) ==
  /\ job[i] = "posting"
  /\ Len(copies) < MaxCopies
  /\ copies' = Append(copies, i)
  /\ got' = [got EXCEPT ![i] = Len(copies) + 1]
  /\ job' = [job EXCEPT ![i] = "created"]
  /\ UNCHANGED <<writerVars, posts, auth, nbTok, nbp, tried, orphans>>

Write(i, g, st, err) ==
  /\ Submit([op |-> "UpdateStatusWithId", id |-> i, gid |-> g, status |-> st,
             reason |-> FALSE, apiErr |-> err, from |-> i])
  /\ job' = [job EXCEPT ![i] = "writing"]
  /\ got' = [got EXCEPT ![i] = None]

\* Seeded faults: the answer is that of an envelope created as a draft; the
\* envelope id is left out.
RecordDraft(i) ==
  /\ job[i] = "created"
  /\ Write(i, got[i], "created", FALSE)
  /\ UNCHANGED <<posts, auth, nbTok, nbp, copies, tried, orphans>>

RecordNoId(i) ==
  /\ job[i] = "created"
  /\ Write(i, None, "sent", FALSE)
  /\ UNCHANGED <<posts, auth, nbTok, nbp, copies, tried, orphans>>

\* Some(envelope_id) and the status of the answer.
RecordSent(i) ==
  /\ job[i] = "created"
  /\ Write(i, got[i], "sent", FALSE)
  /\ UNCHANGED <<posts, auth, nbTok, nbp, copies, tried, orphans>>

\* send() returns Err: DocuSign was not reached, or its answer was lost.
ConnectionError(i) ==
  /\ job[i] \in {"posting", "created"}
  /\ Write(i, None, "cancelled", TRUE)
  /\ orphans' = orphans \cup ({got[i]} \ {None})
  /\ UNCHANGED <<posts, auth, nbTok, nbp, copies, tried>>

\* Answers that write nothing: 4xx other than the rate limit, 5xx, any other
\* code, and a 201 whose body does not parse.
NothingRecorded(i) ==
  /\ job[i] \in {"posting", "created"}
  /\ job' = [job EXCEPT ![i] = "none"]
  /\ got' = [got EXCEPT ![i] = None]
  /\ orphans' = orphans \cup ({got[i]} \ {None})
  /\ UNCHANGED <<writerVars, posts, auth, nbTok, nbp, copies, tried>>

\* HOURLY_APIINVOCATION_LIMIT_EXCEEDED: sleep until the reset, then recurse.
RateLimited(i) ==
  /\ job[i] = "posting"
  /\ job' = [job EXCEPT ![i] = "sleeping"]
  /\ UNCHANGED <<writerVars, posts, auth, nbTok, nbp, got, copies, tried, orphans>>

PostAgain(i) ==
  /\ job[i] = "sleeping"
  /\ job' = [job EXCEPT ![i] = "posting"]
  /\ UNCHANGED <<writerVars, posts, auth, nbTok, nbp, got, copies, tried, orphans>>

\* Seeded fault: the job ends without waiting for its write.
WrittenEarly(i) ==
  /\ job[i] = "writing"
  /\ job' = [job EXCEPT ![i] = "none"]
  /\ UNCHANGED <<writerVars, posts, auth, nbTok, nbp, got, copies, tried, orphans>>

\* The result of the write is awaited and then ignored.
Written(i) ==
  /\ job[i] = "writing"
  /\ \E a \in replies : a.to = i /\ TakeReply(a)
  /\ job' = [job EXCEPT ![i] = "none"]
  /\ UNCHANGED <<posts, auth, nbTok, nbp, got, copies, tried, orphans>>

Job(i) ==
  \/ StartJob(i) \/ DocusignCreates(i) \/ RecordSent(i) \/ ConnectionError(i)
  \/ NothingRecorded(i) \/ RateLimited(i) \/ PostAgain(i) \/ Written(i)

-----------------------------------------------------------------------------
(* Faults.                                                                 *)

\* Who may be waiting for the token task: the processor between its wake-up and
\* its read, and every job until it has posted.
Asking == nbp = "reading" \/ \E i \in RowIds : job[i] = "posting"

\* A panic unwinds the processor: its jobs and its receiver are dropped.
Unwinds ==
  /\ nbp' = "dead"
  /\ nbTok' = FALSE
  /\ job' = [i \in RowIds |-> "none"]
  /\ got' = [i \in RowIds |-> None]
  /\ orphans' = orphans \cup ({got[i] : i \in RowIds} \ {None})
  /\ Abandon(RowIds)

\* oneshotrx.await.unwrap() when the token task is gone; and X-RateLimit-Reset
\* minus the clock is an unsigned subtraction.
ProcessorPanics ==
  /\ \/ auth = "dead" /\ Asking /\ UNCHANGED faults
     \/ /\ \E i \in RowIds : job[i] = "posting"
        /\ faults < MaxFaults
        /\ faults' = faults + 1
  /\ Unwinds
  /\ UNCHANGED <<tables, wq, txn, posts, auth, copies, tried>>

\* Whoever had asked and was not yet served stays in the closed channel.
Strands ==
  /\ nbp' \in IF nbp = "reading" THEN {"reading", "stuck"} ELSE {nbp}
  /\ \E w \in SUBSET {i \in RowIds : job[i] = "posting"} :
       job' = [i \in RowIds |-> IF i \in w THEN "stuck" ELSE job[i]]
  /\ UNCHANGED <<awaiting, replies, nbTok, got, orphans>>

\* An unwrap() of renew_token fails.
TaskDies ==
  /\ auth = "up"
  /\ faults < MaxFaults
  /\ faults' = faults + 1
  /\ auth' = "dead"
  /\ UNCHANGED <<tables, wq, txn, posts, copies, tried>>

\* The renewal was for this processor, which panics, or for the other one.
TokenTaskDies == TaskDies /\ ((Asking /\ Unwinds) \/ Strands)

\* A write the writer could not make was all there was of its envelope id.
WriteLost ==
  /\ WriteFails
  /\ orphans' = IF txn = None /\ Head(wq).op = "UpdateStatusWithId"
                  THEN orphans \cup ({Head(wq).gid} \ {None}) ELSE orphans
  /\ UNCHANGED <<posts, auth, nbTok, nbp, job, got, copies, tried>>

\* Envelope ids on their way to the table.
QueuedIds == {wq[k].gid : k \in {n \in DOMAIN wq : wq[n].op = "UpdateStatusWithId"}}

Crash ==
  /\ WriterCrash
  /\ posts' = [h \in Posts |-> IF posts[h].pc = "waiting"
                                 THEN [posts[h] EXCEPT !.pc = "gone"] ELSE posts[h]]
  /\ auth' = "up"
  /\ nbTok' = FALSE
  /\ nbp' = "idle"
  /\ job' = [i \in RowIds |-> "none"]
  /\ got' = [i \in RowIds |-> None]
  /\ orphans' = orphans \cup
       ((QueuedIds \cup {got[i] : i \in RowIds}) \ {None})
  /\ UNCHANGED <<copies, tried>>

Stranded == nbp = "stuck" \/ \E i \in RowIds : job[i] = "stuck"

\* Nothing left to do: every request has ended and the server is at rest.
AtRest ==
  /\ \A h \in Posts : posts[h].pc \notin {"idle", "waiting"}
  /\ \/ nbp \in {"idle", "dead"} /\ ~ nbTok
     \/ Stranded
  /\ wq = << >> /\ txn = None

Rest == AtRest /\ UNCHANGED vars

-----------------------------------------------------------------------------
SendStep ==
  \/ \E h \in Posts : PostBatch(h) \/ PostAnswered(h) \/ PostCancelled(h)
  \/ WriterStep /\ UNCHANGED sendVars
  \/ Wake \/ ReadUnsent \/ ReadFails \/ AllSent
  \/ \E i \in RowIds : Job(i)
  \/ ProcessorPanics

Next == SendStep \/ WriteLost \/ TokenTaskDies \/ Crash \/ Rest

Spec == Init /\ [][Next]_vars

\* The answers that end a job's call: all but the rate limit.
Answered(i) == DocusignCreates(i) \/ ConnectionError(i) \/ NothingRecorded(i)

-----------------------------------------------------------------------------
(* Properties.                                                             *)

Queued(i) == {k \in DOMAIN wq : wq[k].op = "UpdateStatusWithId" /\ wq[k].id = i}
Working == {i \in RowIds : job[i] \notin {"none", "writing"}}

(* The list the processor read stays true while it works through it: over  *)
(* every await, a row whose job has not written yet is still unsent, at    *)
(* most one write for a row is under way, and a job that awaits its answer *)
(* has either its write in the queue and the row unsent, or the answer.    *)
WorkIsFresh ==
  /\ Working \subseteq Unsent(tables)
  /\ \A i \in RowIds : \A k, n \in Queued(i) : k = n
  /\ \A i \in RowIds : Queued(i) # {} => i \in Unsent(tables) \ Working
  /\ \A i \in RowIds : job[i] = "writing" =>
       Queued(i) # {} \/ \E a \in replies : a.to = i

(***************************************************************************)
(* The inductive invariant behind WorkIsFresh: who may have a request in   *)
(* the queue, who waits for an answer, and that a transaction under way    *)
(* leaves the committed rows as they are.                                  *)
(***************************************************************************)
IsIdWrite(k) == wq[k].op = "UpdateStatusWithId"

QueueInv ==
  /\ \A k \in DOMAIN wq :
       \/ wq[k].op = "NewBatch" /\ wq[k].from \in Posts
       \/ /\ IsIdWrite(k)
          /\ wq[k].from = wq[k].id
          /\ wq[k].id \in RowIds \cap Unsent(tables)
          /\ job[wq[k].id] = "writing" \/ nbp = "dead"
          /\ \A a \in replies : a.to # wq[k].id
  /\ \A k, n \in DOMAIN wq :
       IsIdWrite(k) /\ IsIdWrite(n) /\ wq[k].id = wq[n].id => k = n

JobInv ==
  /\ \A i \in Working : i \in Unsent(tables)
  /\ \A i \in RowIds : job[i] = "writing" <=> i \in awaiting
  /\ \A i \in RowIds : job[i] = "writing" =>
       \/ \E k \in DOMAIN wq : IsIdWrite(k) /\ wq[k].id = i
       \/ \E a \in replies : a.to = i
  /\ nbp # "sending" => \A i \in RowIds : job[i] = "none"

ReplyInv ==
  /\ \A a \in replies : a.to \in RowIds => a.to \in awaiting
  /\ \A a, b \in replies : a.to \in RowIds /\ a.to = b.to => a = b

TxnInv ==
  txn # None =>
    /\ txn.req.from \in Posts
    /\ \A i \in DOMAIN tables.envs :
         i \in DOMAIN txn.work.envs /\ txn.work.envs[i] = tables.envs[i]

(* The four parts together: they hold in every state and imply WorkIsFresh.*)
SenderInv == QueueInv /\ JobInv /\ ReplyInv /\ TxnInv

(* Every envelope DocuSign created is known to the server (stored with the *)
(* row it was made for, in the answer its job holds, or in the write       *)
(* queue) unless one of the named faults kept its id from the table.       *)
EveryCopyAccounted ==
  \A g \in DOMAIN copies :
    \/ g \in orphans
    \/ tables.envs[copies[g]].gid = g
    \/ job[copies[g]] = "created" /\ got[copies[g]] = g
    \/ \E k \in Queued(copies[g]) : wq[k].gid = g

(* A member is mailed a second envelope for the same row only after the id *)
(* of the first was lost: overlapping batches, wake-ups that come while    *)
(* the processor is busy and rate-limit retries never do that.             *)
OneEnvelopePerRow ==
  \A g, h \in DOMAIN copies :
    g # h /\ copies[g] = copies[h] => g \in orphans \/ h \in orphans

(* As long as nothing failed, a row nobody has tried to send is known to   *)
(* the processor, or will be: the answer that makes its handler fill the   *)
(* slot, a filled slot, or a read about to happen stands for it.  Covers   *)
(* try_send on a full slot and the slot emptied before the read.           *)
NoLostWakeup ==
  faults = 0 =>
    \A i \in Unsent(tables) \ tried :
      \/ nbTok
      \/ nbp = "reading"
      \/ job[i] = "todo"
      \/ \E a \in replies : a.to \in Posts /\ a.res = "Ok"

(* 201 means stored for good: the batch, each of its people, and for each  *)
(* an envelope row.  No later batch, failed write or crash takes it back.  *)
AckedBatchDurable ==
  \A h \in Posts : posts[h].pc = "201" =>
    /\ posts[h].batch \in tables.batches
    /\ \A s \in Range(posts[h].recs) :
         /\ <<posts[h].batch, s>> \in tables.relat
         /\ \E i \in DOMAIN tables.envs : tables.envs[i].ssn = s

(* A batch is in the tables whole or not at all: what is related to a name *)
(* is exactly the list of one request that was not refused.                *)
BatchesAreWhole ==
  /\ \A r \in tables.relat : r[1] \in tables.batches /\ r[2] \in tables.accts
  /\ \A b \in tables.batches : \E h \in Posts :
       /\ posts[h].batch = b
       /\ posts[h].pc \in {"waiting", "201", "gone"}
       /\ {r[2] : r \in {q \in tables.relat : q[1] = b}} = Range(posts[h].recs)

(* A 201 that counts no duplicate is true: at the commit it answers for,   *)
(* every record got a row of its own, every person was new and is related  *)
(* to the batch, whatever other batches were stored since it was posted.   *)
CleanMeansNew ==
  [][\A a \in replies' \ replies :
       a.to \in Posts /\ a.res = "Ok" /\ a.dups = 0 =>
         LET recs == posts[a.to].recs
             old  == Len(tables.envs)
         IN /\ Len(tables'.envs) = old + Len(recs)
            /\ \A k \in DOMAIN recs :
                 /\ tables'.envs[old + k].ssn = recs[k]
                 /\ recs[k] \notin tables.accts
                 /\ <<posts[a.to].batch, recs[k]>> \in tables'.relat
            /\ IsInjective(recs)]_vars

(* No answer of DocuSign's is turned away by the tables: a write of a job  *)
(* that waits in the queue would meet no unique index, although other      *)
(* batches and late events change the person's other rows meanwhile.       *)
IdWritesFit ==
  \A k \in DOMAIN wq : IsIdWrite(k) =>
    RowOK(tables, wq[k].id, Revised(tables.envs[wq[k].id], wq[k]))

(* The sender never writes a row twice: once a row has left the work list, *)
(* no late answer, retry or second pass of the processor changes it.       *)
SettledOnce ==
  [][\A i \in DOMAIN tables.envs \ Unsent(tables) :
       tables'.envs[i] = tables.envs[i]]_vars
=============================================================================
