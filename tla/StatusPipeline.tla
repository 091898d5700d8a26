--------------------------- MODULE StatusPipeline ---------------------------
(***************************************************************************)
(* The whole server on top of SendPipeline: DocuSign reports what happens  *)
(* to the envelopes it created, the webhook (create_server/webhook.rs)     *)
(* stores each event, and the completed_envelope_processor task            *)
(* (batch_processor.rs) fetches the reason of every voided envelope.       *)
(*                                                                         *)
(* DocuSign is external: it delivers each event on its own (SIM mode), in  *)
(* no order, and again until the server answers 200.  An event may overtake*)
(* the 201 that carries its envelope's id.                                 *)
(***************************************************************************)
EXTENDS SendPipeline

CONSTANTS
  Calls,      \* webhook requests the server handles at a time
  Events,     \* last words of the event names DocuSign raises
  MaxEvents   \* bound on the events of one envelope

ASSUME CallsAssumption  == Calls \cap (Nat \cup Posts \cup {None}) = {}
ASSUME EventsAssumption == Events \subseteq Status \ {"sent", "cancelled"}

VARIABLES
  raised,   \* the events of each envelope, in the order they happened
  hooks,    \* messages DocuSign has no 200 for
  calls,    \* the webhook handler's requests
  cpTok,    \* is the completed processor's channel holding its one ()?
  cp,       \* the completed processor task
  gets,     \* voided envelopes whose reason it is fetching
  acked,    \* history: messages answered 200
  missed    \* history: has the completed processor dropped work it had?

statusVars == <<raised, hooks, calls, cpTok, cp, gets, acked, missed>>
allVars == <<writerVars, sendVars, statusVars>>

Gids == 1 .. MaxCopies
Message == [gid : Gids, event : Events]
Idle == [pc |-> "idle", msg |-> None]

(* Every variable has its type.                                            *)
StatusTypeOK ==
  /\ WriterTypeOK(SendClients \cup Calls)
  /\ SendStateOK
  /\ raised \in [Gids -> Seq(Events)]
  /\ hooks \subseteq Message /\ acked \subseteq Message
  /\ calls \in [Calls -> {Idle} \cup [pc : {"waiting"}, msg : Message]]
  /\ cpTok \in BOOLEAN /\ missed \in BOOLEAN
  /\ cp \in {"idle", "reading", "fetching", "stuck", "dead"}
  /\ gets \subseteq Gids

\* main() fills the completed processor's slot when the server starts.
StatusInit ==
  /\ Init
  /\ raised = [g \in Gids |-> << >>]
  /\ hooks = {}
  /\ calls = [k \in Calls |-> Idle]
  /\ cpTok = TRUE
  /\ cp = "idle"
  /\ gets = {}
  /\ acked = {}
  /\ missed = FALSE

-----------------------------------------------------------------------------
(* DocuSign.                                                               *)

\* An envelope is over once; then it can only be deleted or purged.
Follows(g, e) ==
  (\E n \in DOMAIN raised[g] : raised[g][n] \in Terminal) <=> e \in {"purge", "deleted"}

Raise(g) ==
  /\ g \in DOMAIN copies
  /\ Len(raised[g]) < MaxEvents
  /\ \E e \in Events :
       /\ Follows(g, e)
       /\ raised' = [raised EXCEPT ![g] = Append(@, e)]
       /\ hooks' = hooks \cup {[gid |-> g, event |-> e]}
  /\ UNCHANGED <<writerVars, sendVars, calls, cpTok, cp, gets, acked, missed>>

\* The 200 never arrived.
SendAgain ==
  /\ faults < MaxFaults
  /\ faults' = faults + 1
  /\ \E m \in acked : hooks' = hooks \cup {m}
  /\ UNCHANGED <<tables, wq, txn, awaiting, replies, sendVars, raised, calls,
                 cpTok, cp, gets, acked, missed>>

-----------------------------------------------------------------------------
(* The webhook handler.                                                    *)

\* into_db_update: the event's last word becomes the status, and the void
\* reason and the API error are cleared.  Each request has an answer channel of
\* its own: the name k is used again once its last request has left the queue.
Deliver(k, m) ==
  /\ m \in hooks
  /\ calls[k].pc = "idle"
  /\ \A n \in DOMAIN wq : wq[n].from # k
  /\ \A c \in Calls : calls[c].msg # m
  /\ Submit([op |-> "UpdateStatus", gid |-> m.gid, status |-> m.event,
             reason |-> FALSE, apiErr |-> FALSE, from |-> k])
  /\ calls' = [calls EXCEPT ![k] = [pc |-> "waiting", msg |-> m]]
  /\ UNCHANGED <<sendVars, raised, hooks, cpTok, cp, gets, acked, missed>>

\* Seeded faults: 200 before the write is done; 404 is answered as 200; only a
\* completion wakes the processor.
RespondAtOnce(k) ==
  /\ calls[k].pc = "waiting"
  /\ Abandon({k})
  /\ hooks' = hooks \ {calls[k].msg}
  /\ acked' = acked \cup {calls[k].msg}
  /\ cpTok' = (cpTok \/ cp # "dead")
  /\ calls' = [calls EXCEPT ![k] = Idle]
  /\ UNCHANGED <<tables, wq, txn, faults, sendVars, raised, cp, gets, missed>>

RespondAlwaysOk(k) ==
  /\ \E a \in replies : a.to = k /\ TakeReply(a)
  /\ hooks' = hooks \ {calls[k].msg}
  /\ acked' = acked \cup {calls[k].msg}
  /\ cpTok' = TRUE
  /\ calls' = [calls EXCEPT ![k] = Idle]
  /\ UNCHANGED <<sendVars, raised, cp, gets, missed>>

RespondCompleted(k) ==
  LET m == calls[k].msg IN
  /\ \E a \in replies :
       /\ a.to = k
       /\ TakeReply(a)
       /\ \/ /\ a.res = "Ok"
             /\ hooks' = hooks \ {m}
             /\ acked' = acked \cup {m}
             /\ cpTok' = (cpTok \/ (m.event = "completed" /\ cp # "dead"))
          \/ /\ a.res # "Ok"
             /\ UNCHANGED <<hooks, acked, cpTok>>
  /\ calls' = [calls EXCEPT ![k] = Idle]
  /\ UNCHANGED <<sendVars, raised, cp, gets, missed>>

\* 200 and a wake-up for the completed processor, or 404 or 500.
Respond(k) ==
  LET m == calls[k].msg IN
  /\ \E a \in replies :
       /\ a.to = k
       /\ TakeReply(a)
       /\ \/ /\ a.res = "Ok"
             /\ hooks' = hooks \ {m}
             /\ acked' = acked \cup {m}
             /\ cpTok' = (cpTok \/ (m.event \in {"completed", "voided"} /\ cp # "dead"))
          \/ /\ a.res # "Ok"
             /\ UNCHANGED <<hooks, acked, cpTok>>
  /\ calls' = [calls EXCEPT ![k] = Idle]
  /\ UNCHANGED <<sendVars, raised, cp, gets, missed>>

\* DocuSign stops waiting: the handler's future is dropped.
HangUp(k) ==
  /\ calls[k].pc = "waiting"
  /\ faults < MaxFaults
  /\ faults' = faults + 1
  /\ Abandon({k})
  /\ calls' = [calls EXCEPT ![k] = Idle]
  /\ UNCHANGED <<tables, wq, txn, sendVars, raised, hooks, cpTok, cp, gets,
                 acked, missed>>

-----------------------------------------------------------------------------
(* The completed processor.                                                *)

CpWake ==
  /\ cp = "idle"
  /\ cpTok
  /\ cpTok' = FALSE
  /\ cp' = "reading"
  /\ UNCHANGED <<writerVars, sendVars, raised, hooks, calls, gets, acked, missed>>

\* The reader returns gid as a String: one NULL would fail the whole list.  A
\* completed envelope needs no fetch yet.
CpRead ==
  /\ cp = "reading"
  /\ LET list == {tables.envs[i] : i \in Unprocessed(tables)} IN
     IF \E e \in list : e.gid = None
       THEN cp' = "idle" /\ UNCHANGED gets
       ELSE /\ cp' = "fetching"
            /\ gets' = {e.gid : e \in {x \in list : x.status = "voided"}}
  /\ UNCHANGED <<writerVars, sendVars, raised, hooks, calls, cpTok, acked, missed>>

\* "Unable to get completed batch from db": the wake-up is spent.
CpReadFails ==
  /\ cp = "reading"
  /\ faults < MaxFaults
  /\ faults' = faults + 1
  /\ cp' = "idle"
  /\ missed' = TRUE
  /\ UNCHANGED <<tables, wq, txn, awaiting, replies, sendVars, raised, hooks,
                 calls, cpTok, gets, acked>>

\* The GET answers with a reason or not; a reason is written in any case, and
\* nobody waits for the write.
CpWrite(g) ==
  /\ g \in gets
  /\ Submit([op |-> "UpdateStatus", gid |-> g, status |-> "voided",
             reason |-> TRUE, apiErr |-> FALSE, from |-> None])
  /\ gets' = gets \ {g}
  /\ UNCHANGED <<sendVars, raised, hooks, calls, cpTok, cp, acked, missed>>

CpDone ==
  /\ cp = "fetching"
  /\ gets = {}
  /\ cp' = "idle"
  /\ UNCHANGED <<writerVars, sendVars, raised, hooks, calls, cpTok, gets, acked,
                 missed>>

\* Its own get() comes before the read, that of a fetch before the GET.
CpAsking == cp = "reading" \/ gets # {}

CpUnwinds ==
  /\ cp' = "dead"
  /\ cpTok' = FALSE
  /\ gets' = {}
  /\ missed' = TRUE

\* token.get() finds the token task gone.
CpPanics ==
  /\ auth = "dead"
  /\ CpAsking
  /\ CpUnwinds
  /\ UNCHANGED <<writerVars, sendVars, raised, hooks, calls, acked>>

\* A get() of the processor or of some fetches is left in the closed channel;
\* the other fetches go on.
CpStrands ==
  /\ UNCHANGED cpTok
  /\ \/ UNCHANGED <<cp, gets, missed>>
     \/ /\ CpAsking
        /\ cp' = "stuck"
        /\ missed' = TRUE
        /\ gets' \in SUBSET gets
        /\ gets' # gets \/ cp = "reading"

-----------------------------------------------------------------------------
(* Faults of the whole server.                                             *)

\* The renewal that failed was for the one processor or the other, or for a
\* request that outlived its job.
StatusTaskDies ==
  /\ TaskDies
  /\ \/ Asking /\ Unwinds /\ CpStrands
     \/ CpAsking /\ CpUnwinds /\ Strands
     \/ nbp = "dead" /\ Strands /\ CpStrands
  /\ UNCHANGED <<raised, hooks, calls, acked>>

StatusWriteLost ==
  /\ WriteLost
  /\ missed' = (missed \/ (txn = None /\ Head(wq).from = None))
  /\ UNCHANGED <<raised, hooks, calls, cpTok, cp, gets, acked>>

\* Seeded fault: main() does not fill the slot.
StatusCrashNoWake ==
  /\ Crash
  /\ calls' = [k \in Calls |-> Idle]
  /\ cpTok' = FALSE
  /\ cp' = "idle"
  /\ gets' = {}
  /\ UNCHANGED <<raised, hooks, acked, missed>>

StatusCrash ==
  /\ Crash
  /\ calls' = [k \in Calls |-> Idle]
  /\ cpTok' = TRUE
  /\ cp' = "idle"
  /\ gets' = {}
  /\ UNCHANGED <<raised, hooks, acked, missed>>

StatusRest ==
  /\ AtRest
  /\ hooks = {}
  /\ \/ cp \in {"idle", "dead"} /\ ~ cpTok
     \/ cp = "stuck" /\ gets = {}
  /\ UNCHANGED allVars

-----------------------------------------------------------------------------
StatusStep ==
  \/ SendStep /\ UNCHANGED statusVars
  \/ \E g \in Gids : Raise(g) \/ CpWrite(g)
  \/ SendAgain
  \/ \E k \in Calls : (\E m \in Message : Deliver(k, m)) \/ Respond(k) \/ HangUp(k)
  \/ CpWake \/ CpRead \/ CpReadFails \/ CpDone \/ CpPanics
  \/ StatusWriteLost \/ StatusTaskDies

StatusNext == StatusStep \/ StatusCrash \/ StatusRest

StatusSpec == StatusInit /\ [][StatusNext]_allVars

-----------------------------------------------------------------------------
(* Properties.                                                             *)

VoidsToFetch == {i \in DOMAIN tables.envs :
                   tables.envs[i].status = "voided" /\ ~ tables.envs[i].reason}

(* A row says only what DocuSign said: its status is the one the envelope  *)
(* was created with or an event of that very envelope, and a void reason   *)
(* stands only on one that was voided, whatever reads, answers and events  *)
(* the processor's write was overtaken by.                                 *)
ReportedOnly ==
  \A i \in DOMAIN tables.envs :
    LET e == tables.envs[i] IN
    /\ e.gid # None => /\ copies[e.gid] = i
                       /\ e.status \in {"sent"} \cup Range(raised[e.gid])
                       /\ ~ e.apiErr
    /\ e.gid = None => e.status \in {None, "cancelled"}
    /\ e.reason => e.status = "voided"

(* An event is answered 200 only when its envelope's row was found, and    *)
(* from then on the row has one of the envelope's events: the 201 an event *)
(* overtook, or a second pass of the sender, never puts it back to "sent". *)
(* Which event is another matter: the order of arrival decides, and a late *)
(* one replaces a newer one (NothingReplayed says which can still come).   *)
AckedReachesRow ==
  \A m \in acked : \E i \in DOMAIN tables.envs :
    tables.envs[i].gid = m.gid /\ tables.envs[i].status \in Range(raised[m.gid])

(* An event that was answered 200 does not come back: a write that waited  *)
(* in the queue behind a handler that hung up, a crash or a retry never    *)
(* puts a row to the status of a message that needs no delivery any more.  *)
(* Only messages without a 200 change it, and the void write with its      *)
(* reason.                                                                 *)
NothingReplayed ==
  [][\A i \in DOMAIN tables.envs :
       LET e == tables.envs[i]
           f == tables'.envs[i]
       IN e.gid # None /\ f.status # e.status =>
            \/ [gid |-> e.gid, event |-> f.status] \in hooks
            \/ f.status = "voided" /\ f.reason]_allVars

(* A voided row without its reason is never forgotten, not even by a crash,*)
(* a dropped handler or a redelivered message that erased the reason: it is*)
(* on the processor's list or in the write queue, or something that will   *)
(* wake the processor is left.  Only the processor's own faults end that.  *)
VoidWorkNotForgotten ==
  missed \/ \A i \in VoidsToFetch :
    LET g == tables.envs[i].gid IN
    \/ cpTok
    \/ cp = "reading"
    \/ g \in gets
    \/ \E k \in DOMAIN wq : wq[k].op = "UpdateStatus" /\ wq[k].gid = g /\ wq[k].reason
    \/ [gid |-> g, event |-> "voided"] \in hooks

(* An envelope id, once stored, is never changed, by either pipeline.      *)
GidStays ==
  [][\A i \in DOMAIN tables.envs : tables.envs[i].gid # None =>
       tables'.envs[i].gid = tables.envs[i].gid]_allVars

(* schema.sql:70 calls the rows the processor looks for "completed but un  *)
(* processed docusign forms": every completed form should be on its list   *)
(* until it is processed, and nothing processes one yet.  The query wants  *)
(* an error on the row as well, and a completed row has none.              *)
CompletedFormsAreListed ==
  \A i \in DOMAIN tables.envs :
    tables.envs[i].status = "completed" => i \in Unprocessed(tables)
=============================================================================
