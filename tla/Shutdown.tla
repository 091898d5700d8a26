------------------------------ MODULE Shutdown ------------------------------
(***************************************************************************)
(* How the server stops (server/src/main.rs, create_server.rs), on top of  *)
(* the whole of StatusPipeline.                                            *)
(*                                                                         *)
(* main() sends one message and then only waits.  Nobody is told to end:   *)
(* the web server takes no new request, and when its last one is answered  *)
(* its routes are dropped, and with them the senders the processors wait   *)
(* on; when the processors end theirs are dropped, and the database        *)
(* threads come to the end of their channels.  Every channel gives out what*)
(* it holds before it reports that it is closed.                           *)
(***************************************************************************)
EXTENDS StatusPipeline

VARIABLES
  web,    \* the web server
  ended   \* the other tasks and threads that have ended

stopVars == <<web, ended>>
serverVars == <<allVars, stopVars>>

ShutdownInit ==
  /\ StatusInit
  /\ web = "up"
  /\ ended = {}

-----------------------------------------------------------------------------
\* ctrl_c() returns, with Ok or with Err, and graceful_shutdown passes it on.
Signal ==
  /\ web = "up"
  /\ web' = "draining"
  /\ UNCHANGED <<allVars, ended>>

InHandler == \E h \in Posts : posts[h].pc = "waiting"
InWebhook == \E k \in Calls : calls[k].pc = "waiting"

\* hyper lets the requests it has taken finish and takes no other.
TakesNoRequest ==
  /\ \A h \in Posts : posts[h].pc = "idle" => posts'[h].pc = "idle"
  /\ \A k \in Calls : calls[k].pc = "idle" => calls'[k].pc = "idle"

Serves == StatusStep /\ (web # "up" => TakesNoRequest) /\ UNCHANGED stopVars

WebEnds ==
  /\ web = "draining"
  /\ ~ InHandler /\ ~ InWebhook
  /\ web' = "down"
  /\ UNCHANGED <<allVars, ended>>

Ends(t) ==
  /\ t \notin ended
  /\ ended' = ended \cup {t}
  /\ UNCHANGED <<allVars, web>>


\* rx.recv() is Err: the slot is empty and every sender has gone with the routes.
NewBatchEnds ==
  /\ nbp = "idle" /\ ~ nbTok
  /\ web = "down"
  /\ Ends("newBatch")

CompletedEnds ==
  /\ cp = "idle" /\ ~ cpTok
  /\ web = "down"
  /\ Ends("completed")

\* What connector_task does when ws_handler_tx is dropped is in LiveUpdates.
ConnectorEnds ==
  /\ web = "down"
  /\ Ends("connector")

\* A panicked processor has dropped its senders as well.
NewBatchGone  == "newBatch" \in ended \/ nbp = "dead"
CompletedGone == "completed" \in ended \/ cp = "dead"

\* Seeded fault: the writer's loop stops at the end of its channel's senders.
WriterEndsEarly ==
  /\ web = "down" /\ NewBatchGone /\ CompletedGone
  /\ txn = None
  /\ Ends("writer")

\* The last WriteTx is dropped and the channel is empty.
WriterEnds ==
  /\ web = "down" /\ NewBatchGone /\ CompletedGone
  /\ wq = << >> /\ txn = None
  /\ Ends("writer")

\* The connector and its updaters hold a ReadTx too.
ReadersEnd ==
  /\ web = "down" /\ NewBatchGone /\ CompletedGone
  /\ "connector" \in ended
  /\ Ends("readers")

\* Seeded fault: main() joins no thread.
MainEndsUnjoined ==
  /\ web = "down" /\ NewBatchGone
  /\ "connector" \in ended
  /\ Ends("main")

\* main() awaits the tasks and joins the threads one after the other, so it
\* returns when all have ended, panicked or not, and the process with it.  It
\* does not wait for the completed processor, whose handle it has dropped.
MainEnds ==
  /\ web = "down" /\ NewBatchGone
  /\ {"connector", "writer", "readers"} \subseteq ended
  /\ Ends("main")

\* A crash ends everything; what starts is a new server.
Restarts ==
  /\ StatusCrash
  /\ web' = "up"
  /\ ended' = {}

\* Before the signal there may be nothing to do, after the end there is nothing.
AtEase ==
  /\ \/ web = "down"
     \/ AtRest /\ hooks = {} /\ cp \in {"idle", "dead"} /\ ~ cpTok
     \/ Stranded \/ cp = "stuck"
  /\ UNCHANGED serverVars

ShutdownStep ==
  \/ WebEnds \/ NewBatchEnds \/ CompletedEnds \/ ConnectorEnds
  \/ WriterEnds \/ ReadersEnd \/ MainEnds

Exited == "main" \in ended

ShutdownNext ==
  \/ ~ Exited /\ (Serves \/ Restarts)
  \/ Signal \/ ShutdownStep \/ AtEase

ShutdownSpec == ShutdownInit /\ [][ShutdownNext]_serverVars

(***************************************************************************)
(* The runtime polls every task that can go on, and the threads run.       *)
(* DocuSign answers, or the connection breaks: a job that has slept until  *)
(* the reset of the hourly limit is not refused for that limit for ever.   *)
(* DocuSign keeps delivering each message it has no 200 for, so that none  *)
(* is passed over for ever in favour of another that is refused again and  *)
(* again.  The connector ends, as LiveUpdates shows.  A fetch may never    *)
(* start behind those that are stuck, so nothing is asked of it then.  Nor *)
(* is anything assumed of callers, of the choice between the other answers,*)
(* of faults or of the signal.                                             *)
(***************************************************************************)
ShutdownFairness ==
  /\ WF_serverVars(WriterStep /\ UNCHANGED <<sendVars, statusVars, stopVars>>)
  /\ \A h \in Posts : WF_serverVars(PostAnswered(h) /\ UNCHANGED <<statusVars, stopVars>>)
  /\ WF_serverVars((Wake \/ ReadUnsent \/ AllSent) /\ UNCHANGED <<statusVars, stopVars>>)
  /\ \A i \in RowIds :
       /\ WF_serverVars(Job(i) /\ UNCHANGED <<statusVars, stopVars>>)
       /\ SF_serverVars(Answered(i) /\ UNCHANGED <<statusVars, stopVars>>)
  /\ \A m \in Message :
       SF_serverVars(web = "up" /\ (\E k \in Calls : Deliver(k, m)) /\ UNCHANGED stopVars)
  /\ \A k \in Calls : WF_serverVars(Respond(k) /\ UNCHANGED stopVars)
  /\ WF_serverVars((CpWake \/ CpRead \/ CpDone) /\ UNCHANGED stopVars)
  /\ \A g \in Gids : SF_serverVars(cp = "fetching" /\ CpWrite(g) /\ UNCHANGED stopVars)
  /\ WF_serverVars(ShutdownStep)

ShutdownFairSpec == ShutdownSpec /\ ShutdownFairness

-----------------------------------------------------------------------------
(* Properties.                                                             *)

(* Nothing is cut short: once the writer has gone, and when main() returns *)
(* and ends whatever still runs, no request, job, fetch or write is under  *)
(* way, although nobody waits for the completed processor.                 *)
NothingCutShort ==
  "writer" \in ended \/ Exited =>
    /\ wq = << >> /\ txn = None
    /\ ~ InHandler /\ ~ InWebhook
    /\ \A i \in RowIds : job[i] = "none"
    /\ gets = {}

(* The wake-ups still in the channels are worked off before the end: if    *)
(* nothing failed, every stored row was tried, and no voided row is left   *)
(* without its reason unless its event is still to be delivered again.     *)
NoWorkLeft ==
  Exited =>
    /\ faults = 0 => Unsent(tables) \subseteq tried
    /\ missed \/ \A i \in VoidsToFetch :
         [gid |-> tables.envs[i].gid, event |-> "voided"] \in hooks


(* Every request the server took is answered, the shutdown included, unless*)
(* its client hangs up or the server crashes.                              *)
EveryPostAnswered ==
  \A h \in Posts : posts[h].pc = "waiting" ~> posts[h].pc \notin {"idle", "waiting"}

(* If nothing fails, every row a batch stored is posted to DocuSign,       *)
(* whatever other batches arrive while the processor is busy, however often*)
(* it is rate-limited, and even if the server is told to stop.             *)
EveryRowTried ==
  \A i \in RowIds : i \in Unsent(tables) ~> i \in tried \/ faults > 0

(* A row that is still unsent when a later upload, of whatever records,    *)
(* wakes the processor is posted then: the next upload makes up for the    *)
(* wake-up a crash or a dropped handler lost, and for what DocuSign        *)
(* refused, unless something fails again or the token task is dead.        *)
NextUploadPostsAll ==
  \A i \in RowIds, n \in 0 .. MaxFaults :
    i \in Unsent(tables) /\ nbTok /\ faults = n ~>
      job[i] = "posting" \/ i \notin Unsent(tables) \/ faults > n \/ auth = "dead"

(* Every event that ends an envelope is stored and acknowledged in the end,*)
(* even one that overtook the 201, unless the envelope's id was lost; a    *)
(* server that stops leaves it to DocuSign's next delivery.                *)
EndIsRecorded ==
  \A m \in Message : m \in hooks /\ m.event \in Terminal
                       ~> m \in acked \/ m.gid \in orphans \/ web # "up"

(* Every voided row gets a reason or moves on, over a crash and while the  *)
(* server drains.  What the processor itself dropped (missed) waits.       *)
VoidReasonEventually ==
  \A i \in RowIds : i \in VoidsToFetch ~> i \notin VoidsToFetch \/ missed \/ Exited
=============================================================================
