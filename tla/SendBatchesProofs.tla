------------------------- MODULE SendBatchesProofs -------------------------
(***************************************************************************)
(* Theorems about the uploads of SendPipeline: what a 201 promises, that a *)
(* batch is stored whole or not at all, and that none is overlooked.  Like *)
(* those of SendPipelineProofs, the lemmas about steps hold for a writer   *)
(* with more clients C and with writes O of theirs in its queue.           *)
(***************************************************************************)
EXTENDS SendPipelineProofs, FiniteSetTheorems

(***************************************************************************)
(* The inductive invariant.  A request lives in one place at a time: in    *)
(* the queue, in the transaction, in an answer or in the tables; and its   *)
(* handler, unless the client hung up, waits until the answer is there.    *)
(***************************************************************************)

IsBatch(k) == wq[k].op = "NewBatch"

\* b and s are related in tables t, and s has an envelope row.
Has(t, b, s) ==
  /\ <<b, s>> \in t.relat
  /\ \E i \in DOMAIN t.envs : t.envs[i].ssn = s

\* Everything the request of h asked for is in the tables.
Kept(h) ==
  /\ posts[h].batch \in tables.batches
  /\ \A n \in DOMAIN posts[h].recs : Has(tables, posts[h].batch, posts[h].recs[n])

\* Request r was not served yet.
Asked(r) ==
  /\ posts[r.from].pc \in {"waiting", "gone"}
  /\ posts[r.from].batch = r.batch
  /\ posts[r.from].recs = r.recs
  /\ \A a \in replies : a.to # r.from

Pending(h) ==
  \/ \E k \in DOMAIN wq : IsBatch(k) /\ wq[k].from = h
  \/ txn # None /\ txn.req.from = h

AskedInv ==
  /\ \A k \in DOMAIN wq : IsBatch(k) => Asked(wq[k])
  /\ \A k, n \in DOMAIN wq : IsBatch(k) /\ IsBatch(n) /\ wq[k].from = wq[n].from => k = n
  /\ txn # None =>
       /\ Asked(txn.req)
       /\ \A k \in DOMAIN wq : IsBatch(k) => wq[k].from # txn.req.from

AnswerInv ==
  /\ \A h \in Posts : posts[h].pc = "waiting" <=> h \in awaiting
  /\ \A a \in replies : a.to \in Posts =>
       posts[a.to].pc = "waiting" /\ (a.res = "Ok" => Kept(a.to))
  /\ \A a, c \in replies : a.to \in Posts /\ a.to = c.to => a = c
  /\ \A h \in Posts : posts[h].pc = "201" => Kept(h)

\* The transaction adds what its request names, one record after the other.
WorkInv ==
  txn # None =>
    /\ txn.req.batch \notin tables.batches
    /\ txn.work.batches = tables.batches \cup {txn.req.batch}
    /\ tables.accts \subseteq txn.work.accts
    /\ tables.relat \subseteq txn.work.relat
    /\ \A n \in DOMAIN txn.req.recs : n < txn.next =>
         Has(txn.work, txn.req.batch, txn.req.recs[n])
    /\ \A r \in txn.work.relat :
         /\ r[2] \in txn.work.accts
         /\ \/ r \in tables.relat
            \/ r[1] = txn.req.batch /\ \E n \in DOMAIN txn.req.recs : txn.req.recs[n] = r[2]

\* Batch b was made by the request of h, and h cannot be told otherwise.
MadeBy(b, h) ==
  /\ posts[h].batch = b
  /\ posts[h].pc \in {"waiting", "201", "gone"}
  /\ ~ Pending(h)
  /\ \A a \in replies : a.to = h => a.res = "Ok"
  /\ \A s \in Ssns :
       <<b, s>> \in tables.relat <=> \E n \in DOMAIN posts[h].recs : posts[h].recs[n] = s

WholeInv ==
  /\ \A r \in tables.relat : r[1] \in tables.batches /\ r[2] \in tables.accts
  /\ \A b \in tables.batches : \E h \in Posts : MadeBy(b, h)

UploadInv == AskedInv /\ AnswerInv /\ WorkInv /\ WholeInv
-----------------------------------------------------------------------------
LEMMA UploadInit ==
  ASSUME Init PROVE UploadInv
<1>1. /\ DOMAIN wq = {} /\ replies = {} /\ awaiting = {} /\ txn = None
      /\ tables.batches = {} /\ tables.relat = {}
      /\ \A h \in Posts : posts[h].pc = "idle"
  BY DEF Init, WriterInit, EmptyTables
<1> QED
  BY <1>1 DEF UploadInv, AskedInv, AnswerInv, WorkInv, WholeInv

\* Who is behind a queued request or the transaction.
LEMMA BatchFrom ==
  ASSUME NEW O, SenderWith(O)
  PROVE  /\ \A k \in DOMAIN wq : IsBatch(k) => wq[k].from \in Posts
         /\ txn # None => txn.req.from \in Posts
         /\ \A k \in DOMAIN wq : ~ IsBatch(k) => wq[k].from \notin Posts
BY RowIdsAndPosts
DEF SenderWith, QueueWith, TxnInv, IsBatch, IsIdWrite, OtherWrite, SendClients

\* A step that takes nothing from the tables and concerns no handler: of the
\* queue it may take the first request, or add one, if it is not a batch.
LEMMA QuietUpload ==
  ASSUME NEW O, SenderWith(O), UploadInv, UNCHANGED <<posts, txn>>,
         /\ tables'.batches = tables.batches
         /\ tables'.accts = tables.accts
         /\ tables'.relat = tables.relat,
         \A s : (\E i \in DOMAIN tables.envs : tables.envs[i].ssn = s) =>
                   \E i \in DOMAIN tables'.envs : tables'.envs[i].ssn = s,
         NEW d \in {0, 1},
         \A k \in DOMAIN wq' : k \in Nat,
         \A k \in DOMAIN wq' : IsBatch(k)' => k + d \in DOMAIN wq /\ wq'[k] = wq[k + d],
         \A a : a.to \in Posts => (a \in replies' <=> a \in replies),
         \A h \in Posts : h \in awaiting' <=> h \in awaiting
  PROVE  UploadInv'
<1>1. \A h \in Posts : Kept(h) => Kept(h)'
  BY DEF Kept, Has
<1>2. AskedInv'
  <2>1. ASSUME NEW k \in DOMAIN wq', IsBatch(k)'
        PROVE  Asked(wq[k])' /\ wq'[k].from \in Posts
    <3>1. k + d \in DOMAIN wq /\ wq'[k] = wq[k + d] /\ IsBatch(k + d)
      BY <2>1 DEF IsBatch
    <3>2. wq[k + d].from \in Posts
      BY <3>1, BatchFrom
    <3>3. Asked(wq[k + d])
      BY <3>1 DEF UploadInv, AskedInv
    <3> QED
      BY <3>1, <3>2, <3>3 DEF Asked
  <2>2. ASSUME NEW k \in DOMAIN wq', NEW n \in DOMAIN wq', IsBatch(k)', IsBatch(n)',
               wq'[k].from = wq'[n].from
        PROVE  k = n
    <3>1. /\ k + d \in DOMAIN wq /\ wq'[k] = wq[k + d] /\ IsBatch(k + d)
          /\ n + d \in DOMAIN wq /\ wq'[n] = wq[n + d] /\ IsBatch(n + d)
      BY <2>2 DEF IsBatch
    <3>2. k + d = n + d
      BY <2>2, <3>1 DEF UploadInv, AskedInv
    <3> QED
      BY <3>2
  <2>3. txn' # None => Asked(txn.req)'
    BY BatchFrom DEF UploadInv, AskedInv, Asked
  <2>4. ASSUME txn' # None, NEW k \in DOMAIN wq', IsBatch(k)'
        PROVE  wq'[k].from # txn'.req.from
    <3>1. k + d \in DOMAIN wq /\ wq'[k] = wq[k + d] /\ IsBatch(k + d)
      BY <2>4 DEF IsBatch
    <3> QED
      BY <2>4, <3>1 DEF UploadInv, AskedInv
  <2> QED
    BY <2>1, <2>2, <2>3, <2>4 DEF AskedInv
<1>3. AnswerInv'
  BY <1>1 DEF UploadInv, AnswerInv
<1>4. WorkInv'
  BY DEF UploadInv, WorkInv, Has
<1>5. \A h : Pending(h)' => Pending(h)
  BY DEF Pending, IsBatch
<1>6. WholeInv'
  <2>1. \A b : \A h \in Posts : MadeBy(b, h) => MadeBy(b, h)'
    BY <1>5 DEF MadeBy
  <2> QED
    BY <2>1 DEF UploadInv, WholeInv
<1> QED
  BY <1>2, <1>3, <1>4, <1>6 DEF UploadInv

-----------------------------------------------------------------------------
(***************************************************************************)
(* The handlers.                                                           *)
(***************************************************************************)

\* A handler has a request in one place at most.
LEMMA OnePlace ==
  ASSUME NEW O, SenderWith(O), UploadInv, NEW h \in Posts
  PROVE  /\ posts[h].pc \notin {"waiting", "gone"} => ~ Pending(h)
         /\ posts[h].pc # "waiting" => \A a \in replies : a.to # h
         /\ (\E a \in replies : a.to = h) => ~ Pending(h)
BY DEF UploadInv, AskedInv, AnswerInv, Asked, Pending, IsBatch

LEMMA PostBatchUpload ==
  ASSUME NEW C, NEW O, SendTypes(C), SenderWith(O), UploadInv, NEW h \in Posts, PostBatch(h)
  PROVE  UploadInv'
<1>1. PICK b \in Batches, recs \in Inputs :
        /\ Submit([op |-> "NewBatch", batch |-> b, recs |-> recs, from |-> h])
        /\ posts' = [posts EXCEPT ![h] = [pc |-> "waiting", batch |-> b,
                                          recs |-> recs, dups |-> 0]]
  BY DEF PostBatch
<1> DEFINE r == [op |-> "NewBatch", batch |-> b, recs |-> recs, from |-> h]
<1>2. /\ r \in Request(C)
      /\ r.op = "NewBatch" /\ r.batch = b /\ r.recs = recs /\ r.from = h
  BY InputsAssumption DEF Request, BatchReq, SendClients, SendTypes
<1>3. Submit(r)
  BY <1>1
<1>4. /\ \A g \in Posts : g # h => posts'[g] = posts[g]
      /\ posts'[h].pc = "waiting" /\ posts'[h].batch = b /\ posts'[h].recs = recs
      /\ posts[h].pc = "idle"
  BY <1>1 DEF PostBatch, SendTypes, SendStateOK
<1> HIDE DEF r
<1>5. /\ Len(wq) + 1 \in DOMAIN wq' /\ wq'[Len(wq) + 1] = r
      /\ \A k \in DOMAIN wq : k \in DOMAIN wq' /\ wq'[k] = wq[k] /\ k # Len(wq) + 1
      /\ \A k \in DOMAIN wq' : k \in DOMAIN wq \/ k = Len(wq) + 1
  BY <1>2, <1>3, AppendQueue DEF Submit, SendTypes, WriterTypeOK
<1>6. h # None /\ awaiting' = awaiting \cup {h} /\ UNCHANGED <<tables, txn, replies>>
  BY <1>2, <1>3, RowIdsAndPosts DEF Submit
<1>7. ~ Pending(h) /\ \A a \in replies : a.to # h
  BY <1>4, OnePlace
<1>8. \A g \in Posts : Kept(g) /\ g # h => Kept(g)'
  BY <1>4, <1>6 DEF Kept, Has
<1>9. AskedInv'
  <2>1. ASSUME NEW k \in DOMAIN wq, IsBatch(k)
        PROVE  Asked(wq[k]) /\ wq[k].from \in Posts \ {h}
    BY <1>7, <2>1, BatchFrom DEF UploadInv, AskedInv, Pending
  <2>2. \A k \in DOMAIN wq' : IsBatch(k)' => Asked(wq[k])'
    BY <1>2, <1>4, <1>5, <1>6, <1>7, <2>1 DEF Asked, IsBatch
  <2>3. \A k, n \in DOMAIN wq' :
          IsBatch(k)' /\ IsBatch(n)' /\ wq'[k].from = wq'[n].from => k = n
    BY <1>2, <1>5, <2>1 DEF UploadInv, AskedInv, IsBatch
  <2>4. txn' # None =>
          /\ Asked(txn.req)'
          /\ \A k \in DOMAIN wq' : IsBatch(k)' => wq'[k].from # txn'.req.from
    <3>1. txn # None => txn.req.from \in Posts \ {h}
      BY <1>7, BatchFrom DEF Pending
    <3> QED
      BY <1>2, <1>4, <1>5, <1>6, <2>1, <3>1 DEF UploadInv, AskedInv, Asked, IsBatch
  <2> QED
    BY <2>2, <2>3, <2>4 DEF AskedInv
<1>10. AnswerInv'
  BY <1>4, <1>6, <1>7, <1>8 DEF UploadInv, AnswerInv
<1>11. WorkInv'
  BY <1>6 DEF UploadInv, WorkInv, Has
<1>12. WholeInv'
  <2>1. \A g \in Posts : g # h /\ Pending(g)' => Pending(g)
    BY <1>2, <1>5, <1>6 DEF Pending, IsBatch
  <2>2. \A c : \A g \in Posts : MadeBy(c, g) => MadeBy(c, g)'
    BY <1>4, <1>6, <2>1 DEF MadeBy
  <2> QED
    BY <1>6, <2>2 DEF UploadInv, WholeInv
<1> QED
  BY <1>9, <1>10, <1>11, <1>12 DEF UploadInv

\* A handler that ends: with its answer, or because its client hung up.
LEMMA PostEndsUpload ==
  ASSUME NEW C, NEW O, SendTypes(C), SenderWith(O), UploadInv, NEW h \in Posts,
         PostAnswered(h) \/ PostCancelled(h)
  PROVE  UploadInv'
<1>1. /\ UNCHANGED <<tables, wq, txn>>
      /\ awaiting' = awaiting \ {h}
      /\ replies' \subseteq replies
      /\ \A a \in replies : a.to # h => a \in replies'
  BY DEF PostAnswered, PostCancelled, TakeReply, Abandon
<1>2. /\ \A g \in Posts : g # h => posts'[g] = posts[g]
      /\ posts'[h].batch = posts[h].batch /\ posts'[h].recs = posts[h].recs
      /\ posts[h].pc = "waiting"
      /\ \/ posts'[h].pc = "gone"
         \/ \E a \in replies :
              /\ a.to = h
              /\ a.res = "Ok" => posts'[h].pc = "201"
              /\ a.res # "Ok" => posts'[h].pc \in {"409", "500"}
      /\ \A a \in replies' : a.to # h
  <2>1. CASE PostCancelled(h)
    BY <2>1 DEF PostCancelled, Abandon, SendTypes, SendStateOK, Post
  <2>2. CASE PostAnswered(h)
    <3>1. PICK a \in replies :
            /\ a.to = h /\ TakeReply(a)
            /\ posts' = [posts EXCEPT ![h].dups = a.dups,
                                      ![h].pc = CASE a.res = "Ok"        -> "201"
                                                  [] a.res = "Duplicate" -> "409"
                                                  [] OTHER               -> "500"]
      BY <2>2 DEF PostAnswered
    <3> DEFINE pc == CASE a.res = "Ok" -> "201" [] a.res = "Duplicate" -> "409"
                       [] OTHER -> "500"
    <3>2. /\ a.res = "Ok" => pc = "201"
          /\ a.res # "Ok" => pc \in {"409", "500"}
      OBVIOUS
    <3>3. posts' = [posts EXCEPT ![h].dups = a.dups, ![h].pc = pc]
      BY <3>1
    <3> HIDE DEF pc
    <3>4. /\ \A g \in Posts : g # h => posts'[g] = posts[g]
          /\ posts'[h].batch = posts[h].batch /\ posts'[h].recs = posts[h].recs
          /\ posts'[h].pc = pc
      BY <3>3 DEF SendTypes, SendStateOK, Post
    <3>5. posts[h].pc = "waiting" /\ \A c \in replies : c.to = h => c = a
      BY <3>1 DEF UploadInv, AnswerInv
    <3>6. \A c \in replies' : c.to # h
      BY <3>1, <3>5 DEF TakeReply
    <3> QED
      BY <3>1, <3>2, <3>4, <3>5, <3>6
  <2> QED
    BY <2>1, <2>2
<1>3. posts'[h].pc # "gone" => ~ Pending(h)
  BY <1>2, OnePlace
<1>4. \A g \in Posts : Kept(g) => Kept(g)'
  BY <1>1, <1>2 DEF Kept, Has
<1>5. \A g \in Posts : Pending(g)' <=> Pending(g)
  BY <1>1 DEF Pending, IsBatch
<1>6. AskedInv'
  <2>1. ASSUME NEW k \in DOMAIN wq, IsBatch(k)
        PROVE  Asked(wq[k])'
    <3>1. wq[k].from \in Posts /\ Asked(wq[k]) /\ Pending(wq[k].from)
      BY <2>1, BatchFrom DEF UploadInv, AskedInv, Pending
    <3>2. wq[k].from = h => posts'[h].pc = "gone"
      BY <1>3, <3>1
    <3> QED
      BY <1>1, <1>2, <3>1, <3>2 DEF Asked
  <2>2. ASSUME txn # None
        PROVE  Asked(txn.req)'
    <3>1. txn.req.from \in Posts /\ Asked(txn.req) /\ Pending(txn.req.from)
      BY <2>2, BatchFrom DEF UploadInv, AskedInv, Pending
    <3>2. txn.req.from = h => posts'[h].pc = "gone"
      BY <1>3, <3>1
    <3> QED
      BY <1>1, <1>2, <3>1, <3>2 DEF Asked
  <2> QED
    BY <1>1, <2>1, <2>2 DEF UploadInv, AskedInv, IsBatch
<1>7. AnswerInv'
  <2>1. posts'[h].pc = "201" => Kept(h)
    BY <1>2 DEF UploadInv, AnswerInv
  <2> QED
    BY <1>1, <1>2, <1>4, <2>1 DEF UploadInv, AnswerInv
<1>8. WorkInv'
  BY <1>1 DEF UploadInv, WorkInv, Has
<1>9. WholeInv'
  <2>1. ASSUME NEW b, NEW g \in Posts, MadeBy(b, g)
        PROVE  MadeBy(b, g)'
    <3>1. g = h => posts'[h].pc \in {"201", "gone"}
      BY <1>2, <2>1 DEF MadeBy
    <3> QED
      BY <1>1, <1>2, <1>5, <2>1, <3>1 DEF MadeBy
  <2> QED
    BY <1>1, <2>1 DEF UploadInv, WholeInv
<1> QED
  BY <1>6, <1>7, <1>8, <1>9 DEF UploadInv

-----------------------------------------------------------------------------
(***************************************************************************)
(* The writer.                                                             *)
(***************************************************************************)

\* The writer refuses a request of h, or its transaction fails: the tables
\* stay as they are.
LEMMA RefusedUpload ==
  ASSUME NEW C, NEW O, SendTypes(C), SenderWith(O), UploadInv,
         UNCHANGED <<tables, posts, awaiting>>,
         NEW h \in Posts, NEW res \in Result \ {"Ok"}, Answer(h, res, 0),
         \/ /\ txn # None /\ txn.req.from = h
            /\ txn' = None /\ UNCHANGED wq
         \/ /\ txn = None /\ UNCHANGED txn
            /\ wq # << >> /\ Head(wq).op = "NewBatch" /\ Head(wq).from = h
            /\ wq' = Tail(wq)
  PROVE  UploadInv'
<1> DEFINE a0 == [to |-> h, res |-> res, dups |-> 0]
<1>1. /\ a0.to = h /\ a0.res # "Ok"
      /\ replies' = IF h \in awaiting THEN replies \cup {a0} ELSE replies
  BY DEF Answer
<1> HIDE DEF a0
<1>2. PICK d \in {0, 1} :
        /\ \A k \in DOMAIN wq' : k \in Nat /\ k + d \in DOMAIN wq /\ wq'[k] = wq[k + d]
                                 /\ (IsBatch(k + d) => wq[k + d].from # h)
        /\ txn' = None
        /\ Pending(h)
  <2>1. CASE txn # None /\ txn.req.from = h /\ txn' = None /\ UNCHANGED wq
    <3>1. \A k \in DOMAIN wq : k \in Nat /\ k + 0 = k
      BY DEF SendTypes, WriterTypeOK
    <3> QED
      BY <2>1, <3>1 DEF UploadInv, AskedInv, Pending
  <2>2. CASE /\ txn = None /\ UNCHANGED txn
             /\ wq # << >> /\ Head(wq).op = "NewBatch" /\ Head(wq).from = h
             /\ wq' = Tail(wq)
    <3>1. /\ 1 \in DOMAIN wq /\ Head(wq) = wq[1]
          /\ \A k \in DOMAIN wq' : k \in Nat /\ k + 1 \in DOMAIN wq
                                   /\ wq'[k] = wq[k + 1] /\ k + 1 # 1
      BY <2>2, TailQueue DEF SendTypes, WriterTypeOK
    <3>2. IsBatch(1) /\ wq[1].from = h
      BY <2>2, <3>1 DEF IsBatch
    <3>3. \A k \in DOMAIN wq : k # 1 /\ IsBatch(k) => wq[k].from # h
      BY <3>1, <3>2 DEF UploadInv, AskedInv
    <3> QED
      BY <2>2, <3>1, <3>2, <3>3 DEF Pending
  <2> QED
    BY <2>1, <2>2
<1>3. /\ \A a \in replies : a.to # h
      /\ posts[h].pc \in {"waiting", "gone"}
  BY <1>2 DEF Pending, UploadInv, AskedInv, Asked, IsBatch
<1>4. \A g \in Posts : Kept(g) => Kept(g)'
  BY DEF Kept, Has
<1>5. AskedInv'
  <2>1. ASSUME NEW k \in DOMAIN wq', IsBatch(k)'
        PROVE  Asked(wq[k])'
    <3>1. k + d \in DOMAIN wq /\ wq'[k] = wq[k + d] /\ IsBatch(k + d)
          /\ wq[k + d].from # h
      BY <1>2, <2>1 DEF IsBatch
    <3>2. Asked(wq[k + d])
      BY <3>1 DEF UploadInv, AskedInv
    <3> QED
      BY <1>1, <3>1, <3>2 DEF Asked
  <2>2. ASSUME NEW k \in DOMAIN wq', NEW n \in DOMAIN wq', IsBatch(k)', IsBatch(n)',
               wq'[k].from = wq'[n].from
        PROVE  k = n
    <3>1. /\ k + d \in DOMAIN wq /\ wq'[k] = wq[k + d] /\ IsBatch(k + d) /\ k \in Nat
          /\ n + d \in DOMAIN wq /\ wq'[n] = wq[n + d] /\ IsBatch(n + d) /\ n \in Nat
      BY <1>2, <2>2 DEF IsBatch
    <3>2. k + d = n + d
      BY <2>2, <3>1 DEF UploadInv, AskedInv
    <3> QED
      BY <3>1, <3>2
  <2> QED
    BY <1>2, <2>1, <2>2 DEF AskedInv
<1>6. AnswerInv'
  <2>1. \A a \in replies' : a \in replies \/ (a = a0 /\ h \in awaiting)
    BY <1>1
  <2>2. h \in awaiting => posts[h].pc = "waiting"
    BY DEF UploadInv, AnswerInv
  <2> QED
    BY <1>1, <1>3, <1>4, <2>1, <2>2 DEF UploadInv, AnswerInv
<1>7. WorkInv'
  BY <1>2 DEF WorkInv
<1>8. \A g \in Posts : Pending(g)' => Pending(g)
  BY <1>2 DEF Pending, IsBatch
<1>9. WholeInv'
  <2>1. ASSUME NEW b, NEW g \in Posts, MadeBy(b, g)
        PROVE  MadeBy(b, g)'
    <3>1. g # h
      BY <1>2, <2>1 DEF MadeBy
    <3> QED
      BY <1>1, <1>8, <2>1, <3>1 DEF MadeBy
  <2> QED
    BY <2>1 DEF UploadInv, WholeInv
<1> QED
  BY <1>5, <1>6, <1>7, <1>9 DEF UploadInv

LEMMA BeginBatchUpload ==
  ASSUME NEW C, NEW O, SendTypes(C), SenderWith(O), UploadInv, BeginBatch, UNCHANGED sendVars
  PROVE  UploadInv'
<1> DEFINE r == Head(wq)
<1>1. /\ wq # << >> /\ r.op = "NewBatch" /\ wq' = Tail(wq) /\ txn = None
      /\ UNCHANGED <<tables, awaiting, faults, posts>>
  BY DEF BeginBatch, Serving, sendVars
<1>2. /\ 1 \in DOMAIN wq /\ r = wq[1]
      /\ \A k \in DOMAIN wq' : k \in Nat /\ k + 1 \in DOMAIN wq
                               /\ wq'[k] = wq[k + 1] /\ k + 1 # 1
  BY <1>1, TailQueue DEF SendTypes, WriterTypeOK
<1>3. IsBatch(1) /\ r.from \in Posts /\ r \in BatchReq(C)
  <2>1. wq[1] \in Request(C)
    BY <1>2 DEF SendTypes, WriterTypeOK
  <2> QED
    BY <1>1, <1>2, <2>1, BatchFrom
    DEF IsBatch, Request, BatchReq, StatusReq, IdReq, OtherReq
<1>4. CASE Answer(r.from, "Duplicate", 0) /\ UNCHANGED txn
  <2>1. "Duplicate" \in Result \ {"Ok"}
    BY DEF Result
  <2> HIDE DEF r
  <2> QED
    BY <1>1, <1>3, <1>4, <2>1, RefusedUpload DEF r
<1>5. CASE /\ r.batch \notin tables.batches
           /\ txn' = [req |-> r, next |-> 1, dups |-> 0,
                      work |-> [tables EXCEPT !.batches = @ \cup {r.batch}]]
           /\ UNCHANGED replies
  <2>1. /\ txn'.req = r /\ txn'.next = 1
        /\ txn'.work.batches = tables.batches \cup {r.batch}
        /\ txn'.work.relat = tables.relat /\ txn'.work.accts = tables.accts
        /\ txn'.work.envs = tables.envs
    BY <1>5 DEF SendTypes, WriterTypeOK, Tables
  <2> HIDE DEF r
  <2>2. \A k \in DOMAIN wq : k # 1 /\ IsBatch(k) => wq[k].from # r.from
    BY <1>2, <1>3 DEF UploadInv, AskedInv
  <2>3. AskedInv'
    <3>1. ASSUME NEW k \in DOMAIN wq', IsBatch(k)'
          PROVE  Asked(wq[k])' /\ wq'[k].from # r.from
      <4>1. k + 1 \in DOMAIN wq /\ wq'[k] = wq[k + 1] /\ IsBatch(k + 1) /\ k + 1 # 1
        BY <1>2, <3>1 DEF IsBatch
      <4>2. Asked(wq[k + 1])
        BY <4>1 DEF UploadInv, AskedInv
      <4> QED
        BY <1>1, <1>5, <2>2, <4>1, <4>2 DEF Asked
    <3>2. ASSUME NEW k \in DOMAIN wq', NEW n \in DOMAIN wq', IsBatch(k)', IsBatch(n)',
                 wq'[k].from = wq'[n].from
          PROVE  k = n
      <4>1. /\ k + 1 \in DOMAIN wq /\ wq'[k] = wq[k + 1] /\ IsBatch(k + 1) /\ k \in Nat
            /\ n + 1 \in DOMAIN wq /\ wq'[n] = wq[n + 1] /\ IsBatch(n + 1) /\ n \in Nat
        BY <1>2, <3>2 DEF IsBatch
      <4>2. k + 1 = n + 1
        BY <3>2, <4>1 DEF UploadInv, AskedInv
      <4> QED
        BY <4>1, <4>2
    <3>3. Asked(txn.req)'
      <4>1. Asked(wq[1])
        BY <1>2, <1>3 DEF UploadInv, AskedInv
      <4> QED
        BY <1>1, <1>2, <1>5, <2>1, <4>1 DEF Asked
    <3> QED
      BY <2>1, <3>1, <3>2, <3>3 DEF AskedInv
  <2>4. AnswerInv'
    BY <1>1, <1>5 DEF UploadInv, AnswerInv, Kept, Has
  <2>5. WorkInv'
    <3>1. \A n \in DOMAIN r.recs : ~ (n < 1)
      BY <1>3 DEF BatchReq
    <3> QED
      BY <1>1, <1>5, <2>1, <3>1 DEF UploadInv, WorkInv, WholeInv
  <2>6. \A g \in Posts : Pending(g)' => Pending(g)
    BY <1>2, <1>3, <2>1 DEF Pending, IsBatch
  <2>7. WholeInv'
    <3>1. \A b : \A g \in Posts : MadeBy(b, g) => MadeBy(b, g)'
      BY <1>1, <1>5, <2>6 DEF MadeBy
    <3> QED
      BY <1>1, <3>1 DEF UploadInv, WholeInv
  <2> QED
    BY <2>3, <2>4, <2>5, <2>7 DEF UploadInv
<1> QED
  BY <1>4, <1>5 DEF BeginBatch

LEMMA InsertNextUpload ==
  ASSUME NEW C, NEW O, SendTypes(C), SenderWith(O), UploadInv, InsertNext, UNCHANGED sendVars
  PROVE  UploadInv'
<1>0. PICK b, s : b = txn.req.batch /\ s = txn.req.recs[txn.next]
  OBVIOUS
<1>1. /\ txn # None /\ txn \in Txn(C)
      /\ UNCHANGED <<tables, wq, awaiting, replies, posts>>
  BY DEF InsertNext, sendVars, SendTypes, WriterTypeOK
<1>2. /\ txn.next \in DOMAIN txn.req.recs /\ txn.req.recs \in Seq(Ssns)
      /\ txn.next \in Nat
  BY <1>1 DEF InsertNext, Txn, BatchReq
<1>3. PICK d \in Clock(txn.work) :
        txn' = [txn EXCEPT !.work = InsertRecord(txn.work, b, s, d),
                           !.next = txn.next + 1,
                           !.dups = txn.dups + Duplicates(txn.work, b, s, d)]
  BY <1>0 DEF InsertNext
<1>4. /\ txn'.req = txn.req /\ txn'.next = txn.next + 1
      /\ txn'.work = InsertRecord(txn.work, b, s, d)
  BY <1>1, <1>3 DEF Txn
<1>5. /\ txn'.work.batches = txn.work.batches
      /\ txn'.work.accts = txn.work.accts \cup {s}
      /\ txn'.work.relat = txn.work.relat \cup {<<b, s>>}
      /\ txn'.work.envs = IF DupEnvelope(txn.work, s, d) THEN txn.work.envs
                            ELSE Append(txn.work.envs, NewRow(s, d))
  BY <1>1, <1>4 DEF InsertRecord, Txn, Tables
<1>6. /\ \A i \in DOMAIN txn.work.envs :
           i \in DOMAIN txn'.work.envs /\ txn'.work.envs[i] = txn.work.envs[i]
      /\ \E i \in DOMAIN txn'.work.envs : txn'.work.envs[i].ssn = s
  <2> DEFINE e == NewRow(s, d)
  <2>1. e.ssn = s
    BY DEF NewRow
  <2>2. txn.work.envs \in Seq(Row)
    BY <1>1 DEF Txn, Tables
  <2> HIDE DEF e
  <2>3. CASE DupEnvelope(txn.work, s, d)
    BY <1>5, <2>3 DEF DupEnvelope
  <2>4. CASE ~ DupEnvelope(txn.work, s, d)
    <3>1. txn'.work.envs = Append(txn.work.envs, e)
      BY <1>5, <2>4 DEF e
    <3>2. /\ Len(txn.work.envs) + 1 \in DOMAIN txn'.work.envs
          /\ txn'.work.envs[Len(txn.work.envs) + 1] = e
      BY <2>2, <3>1
    <3> QED
      BY <2>1, <2>2, <3>1, <3>2
  <2> QED
    BY <2>3, <2>4
<1>7. AskedInv' /\ AnswerInv'
  <2>1. AskedInv'
    BY <1>1, <1>4 DEF UploadInv, AskedInv, Asked, IsBatch
  <2>2. AnswerInv'
    BY <1>1 DEF UploadInv, AnswerInv, Kept, Has
  <2> QED
    BY <2>1, <2>2
<1>8. WorkInv'
  <2>1. ASSUME NEW n \in DOMAIN txn.req.recs, n < txn.next + 1
        PROVE  Has(txn'.work, b, txn.req.recs[n])
    <3>1. CASE n < txn.next
      <4>1. Has(txn.work, b, txn.req.recs[n])
        BY <1>0, <1>1, <3>1 DEF UploadInv, WorkInv
      <4> QED
        BY <1>5, <1>6, <4>1 DEF Has
    <3>2. CASE n = txn.next
      BY <1>0, <1>5, <1>6, <3>2 DEF Has
    <3> QED
      BY <1>2, <2>1, <3>1, <3>2
  <2>2. ASSUME NEW r \in txn'.work.relat
        PROVE  /\ r[2] \in txn'.work.accts
               /\ \/ r \in tables.relat
                  \/ r[1] = b /\ \E n \in DOMAIN txn.req.recs : txn.req.recs[n] = r[2]
    <3>1. CASE r \in txn.work.relat
      BY <1>0, <1>1, <1>5, <3>1 DEF UploadInv, WorkInv
    <3>2. CASE r = <<b, s>>
      <4>1. r[1] = b /\ r[2] = s
        BY <3>2
      <4> QED
        BY <1>0, <1>2, <1>5, <4>1
    <3> QED
      BY <1>5, <2>2, <3>1, <3>2
  <2>3. /\ b \notin tables.batches
        /\ txn.work.batches = tables.batches \cup {b}
        /\ tables.accts \subseteq txn.work.accts
        /\ tables.relat \subseteq txn.work.relat
    BY <1>0, <1>1 DEF UploadInv, WorkInv
  <2>4. /\ txn'.work.batches = tables.batches \cup {b}
        /\ tables.accts \subseteq txn'.work.accts
        /\ tables.relat \subseteq txn'.work.relat
    BY <1>5, <2>3
  <2> QED
    BY <1>0, <1>1, <1>4, <2>1, <2>2, <2>3, <2>4 DEF WorkInv
<1>9. WholeInv'
  <2>1. \A c : \A h \in Posts : MadeBy(c, h) => MadeBy(c, h)'
    BY <1>1, <1>4 DEF MadeBy, Pending, IsBatch
  <2> QED
    BY <1>1, <2>1 DEF UploadInv, WholeInv
<1> QED
  BY <1>7, <1>8, <1>9 DEF UploadInv

\* COMMIT: the request of h leaves the transaction for the tables.
LEMMA CommitUpload ==
  ASSUME NEW C, NEW O, SendTypes(C), SenderWith(O), UploadInv, CommitBatch, UNCHANGED sendVars
  PROVE  UploadInv'
<1>0. PICK h, b, a0 :
        /\ h = txn.req.from /\ b = txn.req.batch
        /\ a0 = [to |-> h, res |-> "Ok", dups |-> txn.dups]
  OBVIOUS
<1>1. /\ txn # None /\ txn' = None /\ tables' = txn.work /\ txn \in Txn(C)
      /\ UNCHANGED <<wq, awaiting, posts>>
  BY DEF CommitBatch, sendVars, SendTypes, WriterTypeOK
<1>2. /\ a0.to = h /\ a0.res = "Ok"
      /\ replies' = IF h \in awaiting THEN replies \cup {a0} ELSE replies
  BY <1>0 DEF CommitBatch, Answer
<1>3. /\ h \in Posts
      /\ posts[h].pc \in {"waiting", "gone"}
      /\ posts[h].batch = b /\ posts[h].recs = txn.req.recs
      /\ \A a \in replies : a.to # h
      /\ \A k \in DOMAIN wq : IsBatch(k) => wq[k].from # h
  BY <1>0, <1>1, BatchFrom DEF UploadInv, AskedInv, Asked
<1>4. /\ b \notin tables.batches /\ tables'.batches = tables.batches \cup {b}
      /\ tables.accts \subseteq tables'.accts /\ tables.relat \subseteq tables'.relat
      /\ \A n \in DOMAIN txn.req.recs : Has(tables', b, txn.req.recs[n])
      /\ \A r \in tables'.relat :
           /\ r[2] \in tables'.accts
           /\ \/ r \in tables.relat
              \/ r[1] = b /\ \E n \in DOMAIN txn.req.recs : txn.req.recs[n] = r[2]
  <2>1. \A n \in DOMAIN txn.req.recs : n < txn.next
    BY <1>1 DEF CommitBatch, Txn, BatchReq
  <2> QED
    BY <1>0, <1>1, <2>1 DEF UploadInv, WorkInv
<1>5. \A i \in DOMAIN tables.envs :
        i \in DOMAIN tables'.envs /\ tables'.envs[i] = tables.envs[i]
  BY <1>1 DEF SenderWith, TxnInv
<1>6. \A g \in Posts : Kept(g) => Kept(g)'
  BY <1>1, <1>4, <1>5 DEF Kept, Has
<1>7. Kept(h)'
  BY <1>0, <1>1, <1>3, <1>4 DEF Kept
<1>8. AskedInv'
  <2>1. ASSUME NEW k \in DOMAIN wq, IsBatch(k)
        PROVE  Asked(wq[k])'
    BY <1>1, <1>2, <1>3, <2>1 DEF UploadInv, AskedInv, Asked
  <2> QED
    BY <1>1, <2>1 DEF UploadInv, AskedInv, IsBatch
<1>9. AnswerInv'
  <2>1. \A a \in replies' : a \in replies \/ (a = a0 /\ h \in awaiting)
    BY <1>2
  <2>2. h \in awaiting => posts[h].pc = "waiting"
    BY <1>3 DEF UploadInv, AnswerInv
  <2> QED
    BY <1>1, <1>2, <1>3, <1>6, <1>7, <2>1, <2>2 DEF UploadInv, AnswerInv
<1>10. WorkInv'
  BY <1>1 DEF WorkInv
<1>11. WholeInv'
  <2>1. \A g \in Posts : Pending(g)' => Pending(g) /\ g # h
    BY <1>1, <1>3 DEF Pending, IsBatch
  <2>2. ASSUME NEW c \in tables.batches, NEW g \in Posts, MadeBy(c, g)
        PROVE  MadeBy(c, g)'
    <3>1. c # b
      BY <1>4
    <3>2. \A s \in Ssns : <<c, s>> \in tables'.relat <=> <<c, s>> \in tables.relat
      <4>1. ASSUME NEW s \in Ssns, <<c, s>> \in tables'.relat
            PROVE  <<c, s>> \in tables.relat
        <5>1. <<c, s>>[1] # b
          BY <3>1
        <5> QED
          BY <1>4, <4>1, <5>1
      <4> QED
        BY <1>4, <4>1
    <3>3. g # h
      BY <1>0, <1>1, <2>2 DEF MadeBy, Pending
    <3> QED
      BY <1>1, <1>2, <2>1, <2>2, <3>2, <3>3 DEF MadeBy
  <2>3. MadeBy(b, h)'
    <3>1. ASSUME NEW s \in Ssns
          PROVE  <<b, s>> \in tables'.relat <=> \E n \in DOMAIN txn.req.recs : txn.req.recs[n] = s
      <4>1. <<b, s>> \notin tables.relat
        <5>1. <<b, s>>[1] = b
          OBVIOUS
        <5> QED
          BY <1>4, <5>1 DEF UploadInv, WholeInv
      <4>2. <<b, s>>[2] = s
        OBVIOUS
      <4>3. <<b, s>> \in tables'.relat => \E n \in DOMAIN txn.req.recs : txn.req.recs[n] = s
        BY <1>4, <4>1, <4>2
      <4>4. ASSUME NEW n \in DOMAIN txn.req.recs, txn.req.recs[n] = s
            PROVE  <<b, s>> \in tables'.relat
        BY <1>4, <4>4 DEF Has
      <4> QED
        BY <4>3, <4>4
    <3>2. \A a \in replies' : a.to = h => a.res = "Ok"
      BY <1>2, <1>3
    <3>3. ~ Pending(h)'
      BY <1>3, <2>1
    <3> QED
      BY <1>1, <1>3, <3>1, <3>2, <3>3 DEF MadeBy
  <2>4. \A r \in tables'.relat : r[1] \in tables'.batches /\ r[2] \in tables'.accts
    BY <1>4 DEF UploadInv, WholeInv
  <2> QED
    BY <1>3, <1>4, <2>2, <2>3, <2>4 DEF UploadInv, WholeInv
<1> QED
  BY <1>8, <1>9, <1>10, <1>11 DEF UploadInv

\* An UPDATE changes no batch, no relation and nobody's row into another's.
LEMMA UpdateRowUpload ==
  ASSUME NEW C, NEW O, SendTypes(C), SenderWith(O), UploadInv, UpdateRow, UNCHANGED sendVars
  PROVE  UploadInv'
<1>1. /\ wq # << >> /\ wq' = Tail(wq) /\ UNCHANGED <<txn, awaiting, posts>>
      /\ Head(wq).op # "NewBatch"
  BY DEF UpdateRow, Serving, sendVars
<1>2. /\ 1 \in DOMAIN wq /\ Head(wq) = wq[1]
      /\ \A k \in DOMAIN wq' : k \in Nat /\ k + 1 \in DOMAIN wq /\ wq'[k] = wq[k + 1]
  BY <1>1, TailQueue DEF SendTypes, WriterTypeOK
<1>3. Head(wq).from \notin Posts
  BY <1>1, <1>2, BatchFrom, RowIdsAndPosts DEF IsBatch
<1>4. \A a : a.to \in Posts => (a \in replies' <=> a \in replies)
  BY <1>3 DEF UpdateRow, Answer
<1>5. /\ tables'.batches = tables.batches /\ tables'.accts = tables.accts
      /\ tables'.relat = tables.relat
      /\ \A i \in DOMAIN tables.envs :
           i \in DOMAIN tables'.envs /\ tables'.envs[i].ssn = tables.envs[i].ssn
  <2>1. CASE UNCHANGED tables
    BY <2>1
  <2>2. ASSUME NEW i \in Targets(tables, Head(wq)),
               tables' = [tables EXCEPT !.envs[i] = Revised(tables.envs[i], Head(wq))]
        PROVE  <1>5!:
    <3> DEFINE e == Revised(tables.envs[i], Head(wq))
    <3>1. i \in DOMAIN tables.envs /\ tables.envs \in Seq(Row) /\ tables.envs[i] \in Row
      BY DEF Targets, SendTypes, WriterTypeOK, Tables
    <3>2. e.ssn = tables.envs[i].ssn
      BY <3>1 DEF Revised, Row
    <3> HIDE DEF e
    <3>3. /\ tables'.batches = tables.batches /\ tables'.accts = tables.accts
          /\ tables'.relat = tables.relat
          /\ tables'.envs = [tables.envs EXCEPT ![i] = e]
      BY <2>2 DEF e, SendTypes, WriterTypeOK, Tables
    <3> QED
      BY <3>1, <3>2, <3>3
  <2> QED
    BY <2>1, <2>2 DEF UpdateRow
<1> QED
  BY <1>1, <1>2, <1>4, <1>5, QuietUpload DEF IsBatch

-----------------------------------------------------------------------------
(***************************************************************************)
(* The processor, its jobs, and the faults.                                *)
(***************************************************************************)

LEMMA IdleUpload ==
  ASSUME NEW C, NEW O, SendTypes(C), SenderWith(O), UploadInv,
         UNCHANGED <<tables, wq, txn, awaiting, replies, posts>>
  PROVE  UploadInv'
<1>1. \A k \in DOMAIN wq' : k \in Nat /\ k + 0 = k
  BY DEF SendTypes, WriterTypeOK
<1> QED
  BY <1>1, QuietUpload DEF IsBatch

LEMMA JobUpload ==
  ASSUME NEW C, NEW O, SendTypes(C), SenderWith(O), UploadInv, NEW i \in RowIds, Job(i)
  PROVE  UploadInv'
<1>1. CASE \/ StartJob(i) \/ DocusignCreates(i) \/ NothingRecorded(i)
           \/ RateLimited(i) \/ PostAgain(i)
  BY <1>1, IdleUpload
  DEF StartJob, DocusignCreates, NothingRecorded, RateLimited, PostAgain, writerVars
<1>2. CASE RecordSent(i) \/ ConnectionError(i)
  <2>1. PICK r :
          /\ r.op = "UpdateStatusWithId" /\ r.from = i
          /\ Submit(r)
    <3>1. PICK g, st, err : Write(i, g, st, err)
      BY <1>2 DEF RecordSent, ConnectionError
    <3> DEFINE r == [op |-> "UpdateStatusWithId", id |-> i, gid |-> g, status |-> st,
                     reason |-> FALSE, apiErr |-> err, from |-> i]
    <3>2. r.op = "UpdateStatusWithId" /\ r.from = i
      OBVIOUS
    <3> QED
      BY <3>1, <3>2 DEF Write
  <2>2. /\ UNCHANGED <<tables, txn, replies, posts>>
        /\ awaiting' = awaiting \cup {i} /\ i \notin Posts
    BY <1>2, <2>1, RowIdsAndPosts DEF Submit, RecordSent, ConnectionError
  <2>3. /\ \A k \in DOMAIN wq' : k \in Nat
        /\ \A k \in DOMAIN wq' : IsBatch(k)' => k + 0 \in DOMAIN wq /\ wq'[k] = wq[k + 0]
    BY <2>1 DEF Submit, SendTypes, WriterTypeOK, IsBatch
  <2> QED
    BY <2>2, <2>3, QuietUpload
<1>3. CASE Written(i)
  <2>1. /\ UNCHANGED <<tables, wq, txn, posts>> /\ i \notin Posts
        /\ awaiting' = awaiting \ {i}
        /\ \E a \in replies : a.to = i /\ replies' = replies \ {a}
    BY <1>3, RowIdsAndPosts DEF Written, TakeReply
  <2>2. \A k \in DOMAIN wq' : k \in Nat /\ k + 0 = k
    BY <2>1 DEF SendTypes, WriterTypeOK
  <2> QED
    BY <2>1, <2>2, QuietUpload DEF IsBatch
<1> QED
  BY <1>1, <1>2, <1>3 DEF Job

LEMMA WriteLostUpload ==
  ASSUME NEW C, NEW O, SendTypes(C), SenderWith(O), UploadInv, WriteLost
  PROVE  UploadInv'
<1>1. UNCHANGED <<tables, awaiting, posts>> /\ "DbError" \in Result \ {"Ok"}
  BY DEF WriteLost, WriteFails, Result
<1>2. CASE txn # None /\ txn' = None /\ Answer(txn.req.from, "DbError", 0) /\ UNCHANGED wq
  BY <1>1, <1>2, BatchFrom, RefusedUpload
<1>3. CASE /\ txn = None /\ UNCHANGED txn
           /\ wq # << >> /\ wq' = Tail(wq) /\ Answer(Head(wq).from, "DbError", 0)
  <2>1. /\ 1 \in DOMAIN wq /\ Head(wq) = wq[1]
        /\ \A k \in DOMAIN wq' : k \in Nat /\ k + 1 \in DOMAIN wq /\ wq'[k] = wq[k + 1]
    BY <1>3, TailQueue DEF SendTypes, WriterTypeOK
  <2>2. CASE Head(wq).op = "NewBatch"
    <3>1. Head(wq).from \in Posts
      BY <2>1, <2>2, BatchFrom DEF IsBatch
    <3> QED
      BY <1>1, <1>3, <2>2, <3>1, RefusedUpload
  <2>3. CASE Head(wq).op # "NewBatch"
    <3>1. Head(wq).from \notin Posts
      BY <2>1, <2>3, BatchFrom, RowIdsAndPosts DEF IsBatch
    <3>2. \A a : a.to \in Posts => (a \in replies' <=> a \in replies)
      BY <1>3, <3>1 DEF Answer
    <3> QED
      BY <1>1, <1>3, <2>1, <3>2, QuietUpload DEF IsBatch
  <2> QED
    BY <2>2, <2>3
<1> QED
  BY <1>2, <1>3 DEF WriteLost, WriteFails

LEMMA PanicUpload ==
  ASSUME NEW C, NEW O, SendTypes(C), SenderWith(O), UploadInv, Unwinds, Unmoved
  PROVE  UploadInv'
<1>1. /\ UNCHANGED <<tables, wq, txn, posts>>
      /\ awaiting' = awaiting \ RowIds
      /\ replies' = {a \in replies : a.to \notin RowIds}
  BY DEF Unwinds, Unmoved, Abandon
<1>2. \A k \in DOMAIN wq' : k \in Nat /\ k + 0 = k
  BY <1>1 DEF SendTypes, WriterTypeOK
<1> QED
  BY <1>1, <1>2, RowIdsAndPosts, QuietUpload DEF IsBatch

LEMMA StrandsUpload ==
  ASSUME NEW C, NEW O, SendTypes(C), SenderWith(O), UploadInv, Strands, Unmoved
  PROVE  UploadInv'
BY IdleUpload DEF Strands, Unmoved

\* After a crash nothing is pending and nobody waits; the tables are there.
LEMMA CrashUpload ==
  ASSUME NEW C, NEW O, SendTypes(C), SenderWith(O), UploadInv, Crash
  PROVE  UploadInv'
<1>1. /\ UNCHANGED tables
      /\ DOMAIN wq' = {} /\ txn' = None /\ awaiting' = {} /\ replies' = {}
  BY DEF Crash, WriterCrash
<1>2. \A h \in Posts :
        /\ posts'[h].batch = posts[h].batch /\ posts'[h].recs = posts[h].recs
        /\ posts'[h].pc = IF posts[h].pc = "waiting" THEN "gone" ELSE posts[h].pc
  <2>1. posts' = [h \in Posts |-> IF posts[h].pc = "waiting"
                                    THEN [posts[h] EXCEPT !.pc = "gone"] ELSE posts[h]]
    BY DEF Crash
  <2> QED
    BY <2>1 DEF SendTypes, SendStateOK, Post
<1>3. AskedInv' /\ WorkInv'
  BY <1>1 DEF AskedInv, WorkInv, IsBatch
<1>4. \A h \in Posts : Kept(h) => Kept(h)'
  BY <1>1, <1>2 DEF Kept, Has
<1>5. AnswerInv'
  BY <1>1, <1>2, <1>4 DEF UploadInv, AnswerInv
<1>6. WholeInv'
  <2>1. \A b : \A h \in Posts : MadeBy(b, h) => MadeBy(b, h)'
    BY <1>1, <1>2 DEF MadeBy, Pending
  <2> QED
    BY <1>1, <2>1 DEF UploadInv, WholeInv
<1> QED
  BY <1>3, <1>5, <1>6 DEF UploadInv

LEMMA NextUpload ==
  ASSUME NEW C, NEW O, SendTypes(C), SenderWith(O), UploadInv, [Next]_vars
  PROVE  UploadInv'
<1>1. CASE WriterStep /\ UNCHANGED sendVars
  BY <1>1, BeginBatchUpload, InsertNextUpload, CommitUpload, UpdateRowUpload DEF WriterStep
<1>2. CASE Wake \/ ReadUnsent \/ ReadFails \/ AllSent \/ Rest \/ UNCHANGED vars
  BY <1>2, IdleUpload
  DEF Wake, ReadUnsent, ReadFails, AllSent, Rest, vars, sendVars, writerVars
<1>3. ASSUME NEW h \in Posts, PostBatch(h) \/ PostAnswered(h) \/ PostCancelled(h)
      PROVE  UploadInv'
  BY <1>3, PostBatchUpload, PostEndsUpload
<1> QED
  BY <1>1, <1>2, <1>3, JobUpload, WriteLostUpload, PanicUpload, StrandsUpload,
     CrashUpload, AskersEnd
  DEF Next, SendStep

LEMMA UploadInvariant ==
  Spec => [](SendTypes(SendClients) /\ SenderWith({}) /\ UploadInv)
<1>1. Init => SendTypes(SendClients) /\ SenderWith({}) /\ UploadInv
  BY SendInitType, SenderInit, UploadInit
<1>2. SendTypes(SendClients) /\ SenderWith({}) /\ UploadInv /\ [Next]_vars
        => (SendTypes(SendClients) /\ SenderWith({}) /\ UploadInv)'
  BY NextTypes, NextSenders, NextUpload
<1> QED
  BY <1>1, <1>2, PTL DEF Spec

LEMMA UploadMeansAcked ==
  ASSUME UploadInv PROVE AckedBatchDurable
<1> SUFFICES ASSUME NEW h \in Posts, posts[h].pc = "201"
             PROVE  /\ posts[h].batch \in tables.batches
                    /\ \A s \in Range(posts[h].recs) :
                         /\ <<posts[h].batch, s>> \in tables.relat
                         /\ \E i \in DOMAIN tables.envs : tables.envs[i].ssn = s
  BY DEF AckedBatchDurable
<1>1. Kept(h)
  BY DEF UploadInv, AnswerInv
<1> QED
  BY <1>1 DEF Kept, Has, Range

LEMMA UploadMeansWhole ==
  ASSUME NEW C, SendTypes(C), UploadInv PROVE BatchesAreWhole
<1> SUFFICES ASSUME NEW b \in tables.batches
             PROVE  \E h \in Posts :
                      /\ posts[h].batch = b
                      /\ posts[h].pc \in {"waiting", "201", "gone"}
                      /\ {r[2] : r \in {q \in tables.relat : q[1] = b}}
                           = Range(posts[h].recs)
  BY DEF BatchesAreWhole, UploadInv, WholeInv
<1>1. PICK h \in Posts : MadeBy(b, h)
  BY DEF UploadInv, WholeInv
<1>2. posts[h].recs \in Seq(Ssns) /\ tables.relat \subseteq Batches \X Ssns
  BY DEF SendTypes, SendStateOK, Post, WriterTypeOK, Tables
<1>3. ASSUME NEW r \in tables.relat, r[1] = b
      PROVE  r[2] \in Range(posts[h].recs)
  <2>1. r = <<b, r[2]>> /\ r[2] \in Ssns
    BY <1>2, <1>3
  <2>2. <<b, r[2]>> \in tables.relat
    BY <2>1
  <2>3. \E n \in DOMAIN posts[h].recs : posts[h].recs[n] = r[2]
    BY <1>1, <2>1, <2>2 DEF MadeBy
  <2> QED
    BY <2>3 DEF Range
<1>4. ASSUME NEW s \in Range(posts[h].recs)
      PROVE  \E r \in tables.relat : r[1] = b /\ r[2] = s
  <2>1. PICK n \in DOMAIN posts[h].recs : posts[h].recs[n] = s
    BY DEF Range
  <2>2. <<b, s>> \in tables.relat
    BY <1>1, <1>2, <2>1 DEF MadeBy
  <2>3. <<b, s>>[1] = b /\ <<b, s>>[2] = s
    OBVIOUS
  <2> QED
    BY <2>2, <2>3
<1>5. {r[2] : r \in {q \in tables.relat : q[1] = b}} = Range(posts[h].recs)
  BY <1>3, <1>4
<1> QED
  BY <1>1, <1>5 DEF MadeBy

(* 201 means stored for good: the batch, each of its people and a row for  *)
(* each stay in the tables through every later batch, write and crash.     *)
THEOREM AckedIsDurable == Spec => []AckedBatchDurable
<1>1. UploadInv => AckedBatchDurable
  BY UploadMeansAcked
<1> QED
  BY <1>1, UploadInvariant, PTL

(* A batch is in the tables with exactly the people of one request that was*)
(* not refused, or not at all.                                             *)
THEOREM BatchesStayWhole == Spec => []BatchesAreWhole
<1>1. UploadInv /\ SendTypes(SendClients) => BatchesAreWhole
  BY UploadMeansWhole
<1> QED
  BY <1>1, UploadInvariant, PTL

-----------------------------------------------------------------------------
(***************************************************************************)
(* No upload is overlooked.  Rows above MaxRows, the model's bound, have no*)
(* job; RowsFit says there are none.                                       *)
(***************************************************************************)

Noticed(i) ==
  \/ nbTok
  \/ nbp = "reading"
  \/ job[i] = "todo"
  \/ \E a \in replies : a.to \in Posts /\ a.res = "Ok"

\* As long as nothing failed no handler is gone, and both tasks run.
CalmInv ==
  faults = 0 =>
    /\ auth = "up"
    /\ nbp # "dead"
    /\ \A h \in Posts : posts[h].pc # "gone"
    /\ \A i \in (Unsent(tables) \cap RowIds) \ tried : Noticed(i)

RowsFit == DOMAIN tables.envs \subseteq RowIds

\* No UPDATE puts a row on the work list.
LEMMA UpdateListsNone ==
  ASSUME NEW C, NEW O, SendTypes(C), SenderWith(O), UpdateRow
  PROVE  \A i \in Unsent(tables') : i \in Unsent(tables)
<1>1. tables.envs \in Seq(Row) /\ tables'.envs \in Seq(Row)
  BY UpdateRowType DEF SendTypes, WriterTypeOK, Tables
<1>2. CASE Head(wq).op = "UpdateStatusWithId"
  BY <1>1, <1>2, IdUpdateTouches DEF Unsent
<1>3. CASE Head(wq).op = "UpdateStatus"
  BY <1>1, <1>3, GidUpdateTouches, NoneAssumption DEF Unsent
<1> QED
  BY <1>2, <1>3 DEF UpdateRow, Serving

\* The writer: a batch that commits is answered Ok, its handler being there.
LEMMA WriterCalm ==
  ASSUME NEW C, NEW O, SendTypes(C), SenderWith(O), UploadInv, CalmInv,
         WriterStep, UNCHANGED sendVars
  PROVE  CalmInv'
<1>1. UNCHANGED <<faults, awaiting, posts, auth, nbTok, nbp, job, tried>>
  BY DEF WriterStep, BeginBatch, InsertNext, CommitBatch, UpdateRow, sendVars
<1>2. \A a \in replies : a \in replies'
  BY DEF WriterStep, BeginBatch, InsertNext, CommitBatch, UpdateRow, Answer
<1>3. CASE BeginBatch \/ InsertNext
  <2>1. UNCHANGED tables
    BY <1>3 DEF BeginBatch, InsertNext
  <2> QED
    BY <1>1, <1>2, <2>1 DEF CalmInv, Noticed
<1>4. CASE UpdateRow
  <2>1. \A i \in Unsent(tables') : i \in Unsent(tables)
    BY <1>4, UpdateListsNone
  <2> QED
    BY <1>1, <1>2, <2>1 DEF CalmInv, Noticed
<1>5. CASE CommitBatch
  <2> SUFFICES ASSUME faults = 0
               PROVE  \E a \in replies' : a.to \in Posts /\ a.res = "Ok"
    BY <1>1 DEF CalmInv, Noticed
  <2>1. PICK h, a0 : h = txn.req.from /\ a0 = [to |-> h, res |-> "Ok", dups |-> txn.dups]
    OBVIOUS
  <2>2. h \in Posts /\ posts[h].pc = "waiting"
    BY <1>5, <2>1, BatchFrom DEF CommitBatch, UploadInv, AskedInv, Asked, CalmInv
  <2>3. h \in awaiting
    BY <2>2 DEF UploadInv, AnswerInv
  <2>4. a0 \in replies' /\ a0.to = h /\ a0.res = "Ok"
    BY <1>5, <2>1, <2>3 DEF CommitBatch, Answer
  <2> QED
    BY <2>2, <2>4
<1> QED
  BY <1>3, <1>4, <1>5 DEF WriterStep

\* The handler that takes the Ok fills the slot.
LEMMA PostCalm ==
  ASSUME NEW C, NEW O, SendTypes(C), SenderWith(O), CalmInv, NEW h \in Posts,
         PostBatch(h) \/ PostAnswered(h)
  PROVE  CalmInv'
<1>1. CASE PostBatch(h)
  <2>1. /\ UNCHANGED <<tables, replies, faults, auth, nbTok, nbp, job, tried>>
        /\ \A g \in Posts : posts'[g].pc # "gone" \/ posts'[g] = posts[g]
    BY <1>1 DEF PostBatch, Submit, SendTypes, SendStateOK
  <2> QED
    BY <2>1 DEF CalmInv, Noticed
<1>2. CASE PostAnswered(h)
  <2>1. PICK a \in replies :
          /\ replies' = replies \ {a} /\ UNCHANGED <<tables, faults>>
          /\ posts' = [posts EXCEPT ![h].dups = a.dups,
                                    ![h].pc = CASE a.res = "Ok"        -> "201"
                                                [] a.res = "Duplicate" -> "409"
                                                [] OTHER               -> "500"]
          /\ nbTok' = (nbTok \/ (a.res = "Ok" /\ nbp # "dead"))
    BY <1>2 DEF PostAnswered, TakeReply
  <2> DEFINE pc == CASE a.res = "Ok" -> "201" [] a.res = "Duplicate" -> "409"
                     [] OTHER -> "500"
  <2>2. pc # "gone" /\ posts' = [posts EXCEPT ![h].dups = a.dups, ![h].pc = pc]
    BY <2>1
  <2> HIDE DEF pc
  <2>3. \A g \in Posts : posts'[g].pc # "gone" \/ posts'[g] = posts[g]
    BY <2>2 DEF SendTypes, SendStateOK, Post
  <2>4. UNCHANGED <<auth, nbp, job, tried>>
    BY <1>2 DEF PostAnswered
  <2> QED
    BY <2>1, <2>3, <2>4 DEF CalmInv, Noticed
<1> QED
  BY <1>1, <1>2

LEMMA JobCalm ==
  ASSUME NEW C, NEW O, SendTypes(C), SenderWith(O), CalmInv, NEW i \in RowIds, Job(i)
  PROVE  CalmInv'
<1>1. UNCHANGED <<tables, faults, posts, auth, nbTok, nbp>>
  BY DEF Job, StartJob, DocusignCreates, RecordSent, ConnectionError, NothingRecorded,
         RateLimited, PostAgain, Written, Write, Submit, TakeReply, writerVars
<1>2. \A a \in replies : a.to \in Posts => a \in replies'
  BY RowIdsAndPosts
  DEF Job, StartJob, DocusignCreates, RecordSent, ConnectionError, NothingRecorded,
      RateLimited, PostAgain, Written, Write, Submit, TakeReply, writerVars
<1>3. /\ tried \subseteq tried'
      /\ \A k \in RowIds : k # i => job'[k] = job[k]
      /\ job[i] = "todo" => i \in tried'
  BY DEF Job, StartJob, DocusignCreates, RecordSent, ConnectionError, NothingRecorded,
         RateLimited, PostAgain, Written, Write, SendTypes, SendStateOK
<1> QED
  BY <1>1, <1>2, <1>3 DEF CalmInv, Noticed

LEMMA NextCalm ==
  ASSUME NEW C, NEW O, SendTypes(C), SenderWith(O), UploadInv, CalmInv, [Next]_vars
  PROVE  CalmInv'
<1>1. CASE ReadFails \/ ProcessorPanics \/ WriteLost \/ TokenTaskDies \/ Crash
  <2>1. \/ faults' = faults + 1 /\ faults \in Nat
        \/ auth = "dead" /\ UNCHANGED faults
    BY <1>1 DEF ReadFails, ProcessorPanics, WriteLost, WriteFails, TokenTaskDies, TaskDies,
                Crash, WriterCrash, SendTypes, WriterTypeOK
  <2> QED
    BY <2>1 DEF CalmInv
<1>2. ASSUME NEW h \in Posts, PostCancelled(h)
      PROVE  CalmInv'
  <2>1. faults' = faults + 1 /\ faults \in Nat
    BY <1>2 DEF PostCancelled, SendTypes, WriterTypeOK
  <2> QED
    BY <2>1 DEF CalmInv
<1>3. CASE Wake \/ ReadUnsent \/ AllSent
  BY <1>3 DEF Wake, ReadUnsent, AllSent, writerVars, CalmInv, Noticed
<1>4. CASE Rest \/ UNCHANGED vars
  BY <1>4 DEF Rest, vars, sendVars, writerVars, CalmInv, Noticed
<1> QED
  BY <1>1, <1>2, <1>3, <1>4, WriterCalm, PostCalm, JobCalm
  DEF Next, SendStep

LEMMA CalmInit ==
  ASSUME Init PROVE CalmInv
BY DEF Init, WriterInit, EmptyTables, CalmInv, Unsent

(* Without a fault no upload is overlooked: a row nobody has tried to send *)
(* is known to the processor or will be, however the wake-ups fall on the  *)
(* full slot and between its reads.                                        *)
THEOREM WakeupsAreKept == Spec /\ []RowsFit => []NoLostWakeup
<1>1. Init => CalmInv
  BY CalmInit
<1>2. CalmInv /\ (SendTypes(SendClients) /\ SenderWith({}) /\ UploadInv) /\ [Next]_vars
        => CalmInv'
  BY NextCalm
<1>3. CalmInv /\ RowsFit => NoLostWakeup
  BY DEF CalmInv, RowsFit, NoLostWakeup, Noticed, Unsent
<1> QED
  BY <1>1, <1>2, <1>3, UploadInvariant, PTL DEF Spec

-----------------------------------------------------------------------------
(***************************************************************************)
(* What a 201 without duplicates means.                                    *)
(***************************************************************************)

\* As long as the transaction met no duplicate, each record it inserted has
\* the next row, was unknown before, and is not named twice.
NewOnlyInv ==
  txn # None /\ txn.dups = 0 =>
    /\ txn.next <= Len(txn.req.recs) + 1
    /\ Len(txn.work.envs) = Len(tables.envs) + txn.next - 1
    /\ \A n \in DOMAIN txn.req.recs : n < txn.next =>
         /\ txn.work.envs[Len(tables.envs) + n].ssn = txn.req.recs[n]
         /\ txn.req.recs[n] \notin tables.accts
         /\ \A m \in DOMAIN txn.req.recs : txn.req.recs[m] = txn.req.recs[n] /\ m < txn.next
                                             => m = n

\* What CleanMeansNew asks of a step.
CleanStep ==
  \A a \in replies' \ replies :
       a.to \in Posts /\ a.res = "Ok" /\ a.dups = 0 =>
         LET recs == posts[a.to].recs
             old  == Len(tables.envs)
         IN /\ Len(tables'.envs) = old + Len(recs)
            /\ \A k \in DOMAIN recs :
                 /\ tables'.envs[old + k].ssn = recs[k]
                 /\ recs[k] \notin tables.accts
                 /\ <<posts[a.to].batch, recs[k]>> \in tables'.relat
            /\ IsInjective(recs)

LEMMA QuietNewOnly ==
  ASSUME NewOnlyInv, UNCHANGED tables, txn' = None \/ txn' = txn
  PROVE  NewOnlyInv'
BY DEF NewOnlyInv

LEMMA BeginNewOnly ==
  ASSUME NEW C, NEW O, SendTypes(C), SenderWith(O), NewOnlyInv, BeginBatch
  PROVE  NewOnlyInv'
<1>1. UNCHANGED tables
  BY DEF BeginBatch
<1>2. CASE txn' = txn \/ txn' = None
  BY <1>1, <1>2, QuietNewOnly
<1>3. CASE /\ txn' # None /\ txn'.next = 1
           /\ txn'.work = [tables EXCEPT !.batches = @ \cup {Head(wq).batch}]
  <2>1. txn' \in Txn(C)
    <3>1. WriterTypeOK(C)'
      BY BeginBatchType DEF SendTypes
    <3> QED
      BY <1>3, <3>1 DEF WriterTypeOK
  <2>2. txn'.work.envs = tables.envs /\ Len(tables.envs) \in Nat
    BY <1>3 DEF SendTypes, WriterTypeOK, Tables
  <2>3. Len(txn'.req.recs) \in Nat /\ \A n \in DOMAIN txn'.req.recs : ~ (n < 1)
    BY <2>1 DEF Txn, BatchReq
  <2>4. 1 <= Len(txn'.req.recs) + 1
    BY <2>3
  <2> QED
    BY <1>1, <1>3, <2>2, <2>3, <2>4 DEF NewOnlyInv
<1>4. \/ txn' = txn
      \/ /\ txn'.next = 1
         /\ txn'.work = [tables EXCEPT !.batches = @ \cup {Head(wq).batch}]
  <2>1. PICK r, work : r = Head(wq) /\ work = [tables EXCEPT !.batches = @ \cup {r.batch}]
    OBVIOUS
  <2>2. txn' = txn \/ txn' = [req |-> r, next |-> 1, dups |-> 0, work |-> work]
    BY <2>1 DEF BeginBatch
  <2> QED
    BY <2>1, <2>2
<1> QED
  BY <1>2, <1>3, <1>4

LEMMA InsertNewOnly ==
  ASSUME NEW C, NEW O, SendTypes(C), SenderWith(O), UploadInv, NewOnlyInv,
         InsertNext, UNCHANGED sendVars
  PROVE  NewOnlyInv'
<1>1. /\ txn # None /\ txn \in Txn(C)
      /\ UNCHANGED <<tables, replies, posts>>
  BY DEF InsertNext, sendVars, SendTypes, WriterTypeOK
<1>2. PICK b, s :
        b = txn.req.batch /\ s = txn.req.recs[txn.next]
  OBVIOUS
<1>3. /\ txn.next \in DOMAIN txn.req.recs /\ txn.req.recs \in Seq(Ssns)
      /\ txn.next \in Nat /\ txn.dups \in Nat
      /\ txn.work.envs \in Seq(Row) /\ Len(tables.envs) \in Nat
  BY <1>1 DEF InsertNext, Txn, BatchReq, Tables, SendTypes, WriterTypeOK
<1>4. PICK d \in Clock(txn.work) :
        txn' = [txn EXCEPT !.work = InsertRecord(txn.work, b, s, d),
                           !.next = txn.next + 1,
                           !.dups = txn.dups + Duplicates(txn.work, b, s, d)]
  BY <1>2 DEF InsertNext
<1>5. /\ txn'.req = txn.req /\ txn'.next = txn.next + 1
      /\ txn'.work = InsertRecord(txn.work, b, s, d)
      /\ txn'.dups = txn.dups + Duplicates(txn.work, b, s, d)
  BY <1>1, <1>4 DEF Txn
<1>6. txn'.dups = 0 => /\ txn.dups = 0 /\ s \notin txn.work.accts
                       /\ ~ DupEnvelope(txn.work, s, d)
  <2>1. Duplicates(txn.work, b, s, d) \in Nat
    BY DuplicatesType
  <2>2. Duplicates(txn.work, b, s, d) = 0 =>
          s \notin txn.work.accts /\ ~ DupEnvelope(txn.work, s, d)
    BY DEF Duplicates
  <2> QED
    BY <1>3, <1>5, <2>1, <2>2
<1>7. /\ tables.accts \subseteq txn.work.accts
      /\ \A n \in DOMAIN txn.req.recs : n < txn.next => txn.req.recs[n] \in txn.work.accts
  <2>1. ASSUME NEW n \in DOMAIN txn.req.recs, n < txn.next
        PROVE  txn.req.recs[n] \in txn.work.accts
    <3>1. <<b, txn.req.recs[n]>> \in txn.work.relat
      BY <1>1, <1>2, <2>1 DEF UploadInv, WorkInv, Has
    <3>2. <<b, txn.req.recs[n]>>[2] = txn.req.recs[n]
      OBVIOUS
    <3> QED
      BY <1>1, <3>1, <3>2 DEF UploadInv, WorkInv
  <2> QED
    BY <1>1, <2>1 DEF UploadInv, WorkInv
<1>8. ASSUME txn'.dups = 0, NEW n \in DOMAIN txn.req.recs, n < txn.next + 1
      PROVE  /\ txn.req.recs[n] \notin tables.accts
             /\ \A m \in DOMAIN txn.req.recs :
                  txn.req.recs[m] = txn.req.recs[n] /\ m < txn.next + 1 => m = n
  <2>1. \A m \in DOMAIN txn.req.recs : m < txn.next + 1 => m < txn.next \/ m = txn.next
    BY <1>3
  <2>2. CASE n < txn.next
    BY <1>1, <1>2, <1>6, <1>7, <1>8, <2>1, <2>2 DEF NewOnlyInv
  <2>3. CASE n = txn.next
    BY <1>2, <1>6, <1>7, <1>8, <2>1, <2>3
  <2> QED
    BY <1>8, <2>1, <2>2, <2>3
<1>9. ASSUME txn'.dups = 0
      PROVE  /\ txn'.next <= Len(txn.req.recs) + 1
             /\ Len(txn'.work.envs) = Len(tables.envs) + txn'.next - 1
             /\ \A n \in DOMAIN txn.req.recs : n < txn.next + 1 =>
                  txn'.work.envs[Len(tables.envs) + n].ssn = txn.req.recs[n]
  <2> DEFINE e == NewRow(s, d)
  <2>1. e.ssn = s
    BY DEF NewRow
  <2>2. txn'.work.envs = Append(txn.work.envs, e)
    BY <1>1, <1>5, <1>6, <1>9 DEF InsertRecord, Txn, Tables
  <2> HIDE DEF e
  <2>3. Len(txn.work.envs) = Len(tables.envs) + txn.next - 1
    BY <1>1, <1>6, <1>9 DEF NewOnlyInv
  <2>4. /\ Len(txn'.work.envs) = Len(txn.work.envs) + 1
        /\ txn'.work.envs[Len(tables.envs) + txn.next] = e
        /\ \A k \in 1 .. Len(txn.work.envs) : txn'.work.envs[k] = txn.work.envs[k]
    <3>1. Len(tables.envs) + txn.next = Len(txn.work.envs) + 1
      BY <1>3, <2>3
    <3> QED
      BY <1>3, <2>2, <3>1
  <2>5. ASSUME NEW n \in DOMAIN txn.req.recs, n < txn.next
        PROVE  txn'.work.envs[Len(tables.envs) + n].ssn = txn.req.recs[n]
    <3>1. txn.work.envs[Len(tables.envs) + n].ssn = txn.req.recs[n]
      BY <1>1, <1>6, <1>9, <2>5 DEF NewOnlyInv
    <3>2. n \in Nat /\ n >= 1
      BY <1>3
    <3>3. Len(tables.envs) + n \in 1 .. Len(txn.work.envs)
      BY <1>3, <2>3, <2>5, <3>2
    <3> QED
      BY <2>4, <3>1, <3>3
  <2>6. \A n \in DOMAIN txn.req.recs : n < txn.next + 1 => n < txn.next \/ n = txn.next
    BY <1>3
  <2>7. Len(txn'.work.envs) = Len(tables.envs) + txn'.next - 1
    BY <1>3, <1>5, <2>3, <2>4
  <2>8. txn'.next <= Len(txn.req.recs) + 1
    BY <1>3, <1>5
  <2> QED
    BY <1>2, <2>1, <2>4, <2>5, <2>6, <2>7, <2>8
<1> QED
  BY <1>1, <1>5, <1>8, <1>9 DEF NewOnlyInv

\* The commit is the step that tells.
LEMMA CommitClean ==
  ASSUME NEW C, NEW O, SendTypes(C), SenderWith(O), UploadInv, NewOnlyInv, CommitBatch
  PROVE  CleanStep
<1>1. /\ txn # None /\ txn \in Txn(C) /\ tables' = txn.work
      /\ txn.next > Len(txn.req.recs)
      /\ \A a \in replies' \ replies :
           a.to = txn.req.from /\ a.dups = txn.dups
  BY DEF CommitBatch, Answer, SendTypes, WriterTypeOK
<1>2. posts[txn.req.from].recs = txn.req.recs /\ posts[txn.req.from].batch = txn.req.batch
  BY <1>1 DEF UploadInv, AskedInv, Asked
<1> SUFFICES ASSUME txn.dups = 0
             PROVE  LET recs == txn.req.recs
                        old  == Len(tables.envs)
                    IN /\ Len(tables'.envs) = old + Len(recs)
                       /\ \A k \in DOMAIN recs :
                            /\ tables'.envs[old + k].ssn = recs[k]
                            /\ recs[k] \notin tables.accts
                            /\ <<txn.req.batch, recs[k]>> \in tables'.relat
                       /\ IsInjective(recs)
  BY <1>1, <1>2 DEF CleanStep
<1>3. /\ Len(tables.envs) \in Nat /\ txn.next \in Nat /\ Len(txn.req.recs) \in Nat
      /\ \A n \in DOMAIN txn.req.recs : n < txn.next
  BY <1>1 DEF SendTypes, WriterTypeOK, Tables, Txn, BatchReq
<1>4. txn.next = Len(txn.req.recs) + 1
  BY <1>1, <1>3 DEF NewOnlyInv
<1>5. Len(tables'.envs) = Len(tables.envs) + Len(txn.req.recs)
  <2>1. Len(tables'.envs) = Len(tables.envs) + txn.next - 1
    BY <1>1 DEF NewOnlyInv
  <2> QED
    BY <1>3, <1>4, <2>1
<1>6. ASSUME NEW k \in DOMAIN txn.req.recs
      PROVE  /\ tables'.envs[Len(tables.envs) + k].ssn = txn.req.recs[k]
             /\ txn.req.recs[k] \notin tables.accts
             /\ <<txn.req.batch, txn.req.recs[k]>> \in tables'.relat
  BY <1>1, <1>3 DEF NewOnlyInv, UploadInv, WorkInv, Has
<1>7. IsInjective(txn.req.recs)
  BY <1>1, <1>3 DEF NewOnlyInv, IsInjective
<1> QED
  BY <1>5, <1>6, <1>7

\* Elsewhere nothing tells a handler that its batch is stored, and the
\* transaction stays, ends, begins or takes one record more.
LEMMA NextNewOnly ==
  ASSUME NEW C, NEW O, SendTypes(C), SenderWith(O), UploadInv, NewOnlyInv, [Next]_vars
  PROVE  NewOnlyInv' /\ CleanStep
<1>1. CASE WriterStep /\ UNCHANGED sendVars
  <2>1. CASE BeginBatch
    <3>1. \A a \in replies' \ replies : a.res = "Duplicate"
      BY <2>1 DEF BeginBatch, Answer
    <3> QED
      BY <2>1, <3>1, BeginNewOnly DEF CleanStep
  <2>2. CASE InsertNext
    BY <1>1, <2>2, InsertNewOnly DEF InsertNext, CleanStep
  <2>3. CASE CommitBatch
    BY <2>3, CommitClean DEF CommitBatch, NewOnlyInv
  <2>4. CASE UpdateRow
    <3>1. Head(wq).from \notin Posts
      <4>1. 1 \in DOMAIN wq /\ Head(wq) = wq[1]
        BY <2>4, TailQueue DEF UpdateRow, Serving, SendTypes, WriterTypeOK
      <4> QED
        BY <2>4, <4>1, BatchFrom, RowIdsAndPosts DEF UpdateRow, Serving, IsBatch
    <3>2. \A a \in replies' \ replies : a.to = Head(wq).from
      BY <2>4 DEF UpdateRow, Answer
    <3>3. txn = None /\ txn' = None
      BY <2>4 DEF UpdateRow, Serving
    <3> QED
      BY <3>1, <3>2, <3>3 DEF NewOnlyInv, CleanStep
  <2> QED
    BY <1>1, <2>1, <2>2, <2>3, <2>4 DEF WriterStep
<1>2. CASE UNCHANGED tables /\ (txn' = None \/ txn' = txn)
             /\ \A a \in replies' : a \in replies \/ a.res # "Ok"
  BY <1>2, QuietNewOnly DEF CleanStep
<1>3. ASSUME NEW h \in Posts, PostBatch(h) \/ PostAnswered(h) \/ PostCancelled(h)
      PROVE  UNCHANGED <<tables, txn>> /\ replies' \subseteq replies
  BY <1>3 DEF PostBatch, PostAnswered, PostCancelled, Submit, TakeReply, Abandon
<1>4. ASSUME NEW i \in RowIds, Job(i)
      PROVE  UNCHANGED <<tables, txn>> /\ replies' \subseteq replies
  BY <1>4 DEF Job, StartJob, DocusignCreates, RecordSent, ConnectionError,
    NothingRecorded, RateLimited, PostAgain, Written, Write, Submit, TakeReply, writerVars
<1>5. CASE Wake \/ ReadUnsent \/ ReadFails \/ AllSent \/ Rest \/ UNCHANGED vars
  <2>1. UNCHANGED <<tables, txn, replies>>
    BY <1>5 DEF Wake, ReadUnsent, ReadFails, AllSent, Rest, vars, sendVars, writerVars
  <2> QED
    BY <1>2, <2>1
<1>6. CASE ProcessorPanics \/ TokenTaskDies
  <2>1. UNCHANGED <<tables, txn>> /\ replies' \subseteq replies
    BY <1>6, AskersEnd DEF Unmoved, Unwinds, Strands, Abandon
  <2> QED
    BY <1>2, <2>1
<1>7. CASE WriteLost
  <2>1. /\ UNCHANGED tables /\ (txn' = None \/ txn' = txn)
        /\ \A a \in replies' : a \in replies \/ a.res # "Ok"
    BY <1>7 DEF WriteLost, WriteFails, Answer
  <2> QED
    BY <1>2, <2>1
<1>8. CASE Crash
  <2>1. UNCHANGED tables /\ txn' = None /\ replies' = {}
    BY <1>8 DEF Crash, WriterCrash
  <2> QED
    BY <1>2, <2>1
<1> QED
  BY <1>1, <1>2, <1>3, <1>4, <1>5, <1>6, <1>7, <1>8 DEF Next, SendStep

LEMMA NewOnlyInit ==
  ASSUME Init PROVE NewOnlyInv
BY DEF Init, WriterInit, NewOnlyInv

(* A 201 that counts no duplicate speaks true: at the commit it answers    *)
(* for, each record got the next row, each person was new and is related to*)
(* the batch, and the request named nobody twice.                          *)
THEOREM CleanAnswersAreTrue == Spec => CleanMeansNew
<1>1. Init => NewOnlyInv
  BY NewOnlyInit
<1>2. NewOnlyInv /\ (SendTypes(SendClients) /\ SenderWith({}) /\ UploadInv) /\ [Next]_vars
        => NewOnlyInv' /\ [CleanStep]_vars
  BY NextNewOnly
<1> QED
  BY <1>1, <1>2, UploadInvariant, PTL DEF Spec, CleanMeansNew, CleanStep
=============================================================================
