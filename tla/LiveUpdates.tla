----------------------------- MODULE LiveUpdates -----------------------------
(***************************************************************************)
(* Live queries over websockets (create_server/websocket_handler.rs and    *)
(* the /wss routes of create_server/api.rs).  connector_task keeps, per    *)
(* resource, one updater_task and the queue of connections it has yet to   *)
(* take; the updater sends each connection the current result of its query *)
(* and then the changes after every commit, at most one message per        *)
(* UPDATE_INTERVAL; connect is the task of one connection.                 *)
(*                                                                         *)
(* The database is known by what a query of each resource returns after    *)
(* each commit.  or_insert also spawns an updater when the resource has    *)
(* one: its queue has no sender, so it ends at once, without a word, and is*)
(* left out.  No other updater finds its queue closed before its first     *)
(* connection.                                                             *)
(***************************************************************************)
EXTENDS LiveViews, SequencesExt

CONSTANTS
  Clients,     \* websocket connections
  Resources,   \* Main, and each Batch and Individual
  Want,        \* the resource of each connection
  QueueCap,    \* room in an updater's queue
  CloseCap,    \* room in the channel of close messages
  NotifyCap,   \* commits the broadcast from the writer keeps for an updater
  FeedCap,     \* messages the broadcast from an updater keeps for a client
  MaxCommits,  \* bound on commits
  MaxFails,    \* bound on failing reads
  None         \* Rust's None

ASSUME WantAssumption == Want \in [Clients -> Resources]
ASSUME NobodyAssumption == None \notin Clients /\ None \notin [who : Clients, respawn : BOOLEAN]
ASSUME CapsAssumption ==
  /\ QueueCap \in Nat \ {0} /\ CloseCap \in Nat \ {0}
  /\ NotifyCap \in Nat /\ FeedCap \in Nat
  /\ MaxCommits \in Nat /\ MaxFails \in Nat

VARIABLES
  history,   \* what the queries return after each commit, oldest first
  announced, \* has the writer broadcast its last commit?
  fails,     \* failed reads so far
  serving,   \* does the HTTP server still run?
  inbox,     \* connections on their way to the connector
  conn,      \* the connector: in its loop, waiting for updaters, or done
  hand,      \* the connection it is putting into a queue, or None
  entries,   \* the resources in its map
  queue,     \* per resource, the connections its updater has yet to take
  closing,   \* close messages of updaters
  upd,       \* per resource, its updater
  client     \* per connection, its task

liveVars == <<history, announced, fails, serving, inbox, conn, hand, entries,
              queue, closing, upd, client>>
dbVars == <<history, announced>>

(***************************************************************************)
(* An updater.  who is the connection it holds: the first one until it is  *)
(* served, the leftover one when it closes.  subs are those it has served. *)
(* cur and res number the results it holds and has just read.              *)
(***************************************************************************)
UpdaterPc == {"none", "first", "asking", "answered", "loop", "rereading", "reread",
              "sleeping", "draining", "closing"}

Updater == [pc : UpdaterPc, who : Clients \cup {None}, subs : SUBSET Clients,
            cur : Nat, res : Nat, note : Nat]

NoUpdater == [pc |-> "none", who |-> None, subs |-> {}, cur |-> 0, res |-> 0, note |-> 0]
Spawned == [NoUpdater EXCEPT !.pc = "first"]

(* A connection: the page's rows, the result they came from (history), and *)
(* the changes the updater has broadcast and its task has yet to take.     *)
Connection ==
  [pc : {"idle", "waiting", "given", "live", "closed"}, view : View \cup {None},
   ver : Nat, feed : Seq([changes : Changes, ver : Nat])]

At(pc) == [pc |-> pc, view |-> None, ver |-> 0, feed |-> << >>]

(* Every variable has its type.                                            *)
LiveTypeOK ==
  /\ history \in Seq([Resources -> View])
  /\ announced \in BOOLEAN /\ serving \in BOOLEAN
  /\ fails \in 0 .. MaxFails
  /\ inbox \in Seq(Clients)
  /\ conn \in {"loop", "draining", "done"}
  /\ hand \in [who : Clients, respawn : BOOLEAN] \cup {None}
  /\ entries \subseteq Resources
  /\ queue \in [Resources -> Seq(Clients)]
  /\ closing \in Seq([res : Resources, left : Clients \cup {None}])
  /\ upd \in [Resources -> Updater]
  /\ client \in [Clients -> Connection]

LiveInit ==
  /\ \E v \in [Resources -> View] : history = <<v>>
  /\ announced = TRUE /\ serving = TRUE
  /\ fails = 0
  /\ inbox = << >> /\ closing = << >>
  /\ conn = "loop"
  /\ hand = None
  /\ entries = {}
  /\ queue = [r \in Resources |-> << >>]
  /\ upd = [r \in Resources |-> NoUpdater]
  /\ client = [c \in Clients |-> At("idle")]

Now == Len(history)
Result(r, n) == history[n][r]

\* The sockets of connections cs are dropped.
Dropped(cs) == [c \in Clients |-> IF c \in cs THEN At("closed") ELSE client[c]]

\* Connections that hold a handle of r's updater, and its receiver.
Handles(r) == {c \in upd[r].subs : client[c].pc \in {"given", "live"}}

-----------------------------------------------------------------------------
(* The database: a commit, then its broadcast.                             *)

Commit ==
  /\ announced
  /\ Now <= MaxCommits
  /\ \E v \in [Resources -> View] : history' = Append(history, v)
  /\ announced' = FALSE
  /\ UNCHANGED <<fails, serving, inbox, conn, hand, entries, queue, closing, upd, client>>

\* Seeded fault: an updater listens only after its first read.
AnnounceLate ==
  /\ ~ announced
  /\ announced' = TRUE
  /\ upd' = [r \in Resources |-> IF upd[r].pc \in {"none", "first", "asking", "answered"}
                                 THEN upd[r] ELSE [upd[r] EXCEPT !.note = @ + 1]]
  /\ UNCHANGED <<history, fails, serving, inbox, conn, hand, entries, queue, closing, client>>

\* An updater listens from the moment it is spawned.
Announce ==
  /\ ~ announced
  /\ announced' = TRUE
  /\ upd' = [r \in Resources |-> IF upd[r].pc = "none" THEN upd[r]
                                 ELSE [upd[r] EXCEPT !.note = @ + 1]]
  /\ UNCHANGED <<history, fails, serving, inbox, conn, hand, entries, queue, closing, client>>

-----------------------------------------------------------------------------
(* connector_task.                                                         *)

\* connect_ws, connect_ws_batch, connect_ws_person: the task is spawned and its
\* oneshot sender goes to the connector.
Open(c) ==
  /\ serving
  /\ client[c].pc = "idle"
  /\ client' = [client EXCEPT ![c] = At("waiting")]
  /\ inbox' = Append(inbox, c)
  /\ UNCHANGED <<dbVars, fails, serving, conn, hand, entries, queue, closing, upd>>

TakeNew ==
  /\ conn = "loop" /\ hand = None
  /\ inbox # << >>
  /\ inbox' = Tail(inbox)
  /\ hand' = [who |-> Head(inbox), respawn |-> FALSE]
  /\ LET r == Want[Head(inbox)] IN
       /\ entries' = entries \cup {r}
       /\ upd' = IF r \in entries THEN upd ELSE [upd EXCEPT ![r] = Spawned]
  /\ UNCHANGED <<dbVars, fails, serving, conn, queue, closing, client>>

\* tx.send(..).await, the connector's only wait besides its select: until there
\* is room.
PutInQueue ==
  /\ hand # None
  /\ LET r == Want[hand.who] IN
       /\ Len(queue[r]) < QueueCap
       /\ queue' = [queue EXCEPT ![r] = Append(@, hand.who)]
       /\ upd' = IF hand.respawn THEN [upd EXCEPT ![r] = Spawned] ELSE upd
  /\ hand' = None
  /\ UNCHANGED <<dbVars, fails, serving, inbox, conn, entries, closing, client>>

\* Seeded faults: the entry goes whatever is in its queue; an updater that met
\* a connection it could not serve is not replaced.
TakeCloseForgets ==
  /\ conn = "loop" /\ hand = None
  /\ closing # << >>
  /\ closing' = Tail(closing)
  /\ LET m == Head(closing)
         r == m.res
     IN \/ /\ m.left # None
           /\ hand' = [who |-> m.left, respawn |-> TRUE]
           /\ UNCHANGED <<entries, queue, client>>
        \/ /\ m.left = None
           /\ entries' = entries \ {r}
           /\ queue' = [queue EXCEPT ![r] = << >>]
           /\ client' = Dropped(Range(queue[r]))
           /\ UNCHANGED hand
  /\ UNCHANGED <<dbVars, fails, serving, inbox, conn, upd>>

TakeCloseNoRespawn ==
  /\ conn = "loop" /\ hand = None
  /\ closing # << >>
  /\ closing' = Tail(closing)
  /\ LET m == Head(closing)
         r == m.res
     IN \/ /\ m.left # None
           /\ hand' = [who |-> m.left, respawn |-> FALSE]
           /\ UNCHANGED <<entries, upd>>
        \/ /\ m.left = None
           /\ IF queue[r] = << >> THEN entries' = entries \ {r} /\ UNCHANGED upd
                                  ELSE upd' = [upd EXCEPT ![r] = Spawned] /\ UNCHANGED entries
           /\ UNCHANGED hand
  /\ UNCHANGED <<dbVars, fails, serving, inbox, conn, queue, client>>

\* An updater has ended.  A connection left over, or already in the queue, gets
\* a new one; otherwise the entry goes.  (map.get() always finds the entry: see
\* OneUpdater.)
TakeClose ==
  /\ conn = "loop" /\ hand = None
  /\ closing # << >>
  /\ closing' = Tail(closing)
  /\ LET m == Head(closing)
         r == m.res
     IN \/ /\ m.left # None
           /\ hand' = [who |-> m.left, respawn |-> TRUE]
           /\ UNCHANGED <<entries, upd>>
        \/ /\ m.left = None
           /\ IF queue[r] = << >> THEN entries' = entries \ {r} /\ UNCHANGED upd
                                  ELSE upd' = [upd EXCEPT ![r] = Spawned] /\ UNCHANGED entries
           /\ UNCHANGED hand
  /\ UNCHANGED <<dbVars, fails, serving, inbox, conn, queue, client>>

\* The server has shut down and let go of its senders; the map is dropped, and
\* with it what is in a queue that has no updater.
StopServing ==
  /\ serving
  /\ serving' = FALSE
  /\ UNCHANGED <<dbVars, fails, inbox, conn, hand, entries, queue, closing, upd, client>>

DropMap ==
  /\ conn = "loop" /\ hand = None
  /\ ~ serving /\ inbox = << >>
  /\ conn' = "draining"
  /\ entries' = {}
  /\ LET dead == {r \in Resources : upd[r].pc = "none"} IN
       /\ queue' = [r \in Resources |-> IF r \in dead THEN << >> ELSE queue[r]]
       /\ client' = Dropped(UNION {Range(queue[r]) : r \in dead})
  /\ UNCHANGED <<dbVars, fails, serving, inbox, hand, closing, upd>>

\* Every close message is read and dropped until no updater is left.
DrainClose ==
  /\ conn = "draining"
  /\ closing # << >>
  /\ closing' = Tail(closing)
  /\ client' = Dropped({Head(closing).left} \ {None})
  /\ UNCHANGED <<dbVars, fails, serving, inbox, conn, hand, entries, queue, upd>>

ConnectorEnds ==
  /\ conn = "draining"
  /\ closing = << >>
  /\ \A r \in Resources : upd[r].pc = "none"
  /\ conn' = "done"
  /\ UNCHANGED <<dbVars, fails, serving, inbox, hand, entries, queue, closing, upd, client>>

-----------------------------------------------------------------------------
(* updater_task of resource r.                                             *)

Goto(r, pc) == upd' = [upd EXCEPT ![r].pc = pc]

Unmapped(r) == conn # "loop"   \* the queue's sender went with the map

TakeFirst(r) ==
  /\ upd[r].pc = "first"
  /\ queue[r] # << >>
  /\ upd' = [upd EXCEPT ![r].pc = "asking", ![r].who = Head(queue[r])]
  /\ queue' = [queue EXCEPT ![r] = Tail(@)]
  /\ UNCHANGED <<dbVars, fails, serving, inbox, conn, hand, entries, closing, client>>

\* A reader thread runs the query; its answer is on the way.
Read(r) ==
  /\ upd[r].pc \in {"asking", "rereading"}
  /\ upd' = [upd EXCEPT ![r].res = Now,
                        ![r].pc = IF @ = "asking" THEN "answered" ELSE "reread"]
  /\ UNCHANGED <<dbVars, fails, serving, inbox, conn, hand, entries, queue, closing, client>>

\* The query fails.  A first connection is dropped unserved.
ReadFails(r) ==
  /\ upd[r].pc \in {"asking", "rereading"}
  /\ fails < MaxFails
  /\ fails' = fails + 1
  /\ upd' = [upd EXCEPT ![r].pc = "closing", ![r].who = None]
  /\ client' = Dropped({upd[r].who} \ {None})
  /\ UNCHANGED <<dbVars, serving, inbox, conn, hand, entries, queue, closing>>

\* Seeded fault: the first message is one of changes.
ServedChanges(r, c, n) ==
  client' = [client EXCEPT ![c] =
    [At("given") EXCEPT !.view = DiffOf(Result(r, n), << >>), !.ver = n]]

\* Connection c gets result n of r, a receiver and a handle.
Served(r, c, n) ==
  client' = [client EXCEPT ![c] = [At("given") EXCEPT !.view = Result(r, n), !.ver = n]]

ServeFirst(r) ==
  LET u == upd[r] IN
  /\ u.pc = "answered"
  /\ Served(r, u.who, u.res)
  /\ upd' = [upd EXCEPT ![r].pc = "loop", ![r].cur = u.res,
                        ![r].subs = {u.who}, ![r].who = None]
  /\ UNCHANGED <<dbVars, fails, serving, inbox, conn, hand, entries, queue, closing>>

\* The notifications that have piled up count as one.
TakeUpdate(r) ==
  /\ upd[r].pc = "loop"
  /\ upd[r].note \in 1 .. NotifyCap
  /\ upd' = [upd EXCEPT ![r].pc = "rereading", ![r].note = 0]
  /\ UNCHANGED <<dbVars, fails, serving, inbox, conn, hand, entries, queue, closing, client>>

\* RecvError::Lagged is taken for a closed channel.
FellBehind(r) ==
  /\ upd[r].pc = "loop"
  /\ upd[r].note > NotifyCap
  /\ Goto(r, "closing")
  /\ UNCHANGED <<dbVars, fails, serving, inbox, conn, hand, entries, queue, closing, client>>

\* Seeded faults: no message is sent; the changes are those from the first
\* result sent.
PublishNothing(r) ==
  LET u == upd[r] IN
  /\ u.pc = "reread"
  /\ upd' = [upd EXCEPT ![r].pc = "sleeping", ![r].cur = u.res]
  /\ UNCHANGED <<dbVars, fails, serving, inbox, conn, hand, entries, queue, closing, client>>

PublishStale(r) ==
  LET u == upd[r]
      d == DiffOf(Result(r, u.res), Result(r, u.cur))
  IN
  /\ u.pc = "reread"
  /\ upd' = [upd EXCEPT ![r].pc = "sleeping"]
  /\ client' = IF d = NoChange THEN client
               ELSE [c \in Clients |->
                       IF c \in Handles(r)
                         THEN [client[c] EXCEPT !.feed = Append(@, [changes |-> d, ver |-> u.res])]
                         ELSE client[c]]
  /\ UNCHANGED <<dbVars, fails, serving, inbox, conn, hand, entries, queue, closing>>

\* diff; the new result replaces the current one only if it differs.
Publish(r) ==
  LET u == upd[r]
      d == DiffOf(Result(r, u.res), Result(r, u.cur))
  IN
  /\ u.pc = "reread"
  /\ \/ /\ d = NoChange
        /\ Goto(r, "sleeping")
        /\ UNCHANGED client
     \/ /\ d # NoChange
        /\ upd' = [upd EXCEPT ![r].pc = "sleeping", ![r].cur = u.res]
        /\ client' = [c \in Clients |->
             IF c \in Handles(r)
               THEN [client[c] EXCEPT !.feed = Append(@, [changes |-> d, ver |-> u.res])]
               ELSE client[c]]
  /\ UNCHANGED <<dbVars, fails, serving, inbox, conn, hand, entries, queue, closing>>

WakeUp(r) ==
  /\ upd[r].pc = "sleeping"
  /\ Goto(r, "loop")
  /\ UNCHANGED <<dbVars, fails, serving, inbox, conn, hand, entries, queue, closing, client>>

\* weak_disconnect.upgrade() fails when every connection is gone: the new one
\* goes back to the connector.
Accept(r) ==
  LET c == Head(queue[r]) IN
  /\ upd[r].pc = "loop"
  /\ queue[r] # << >>
  /\ queue' = [queue EXCEPT ![r] = Tail(@)]
  /\ \/ /\ Handles(r) # {}
        /\ Served(r, c, upd[r].cur)
        /\ upd' = [upd EXCEPT ![r].subs = @ \cup {c}]
     \/ /\ Handles(r) = {}
        /\ upd' = [upd EXCEPT ![r].pc = "closing", ![r].who = c]
        /\ UNCHANGED client
  /\ UNCHANGED <<dbVars, fails, serving, inbox, conn, hand, entries, closing>>

NobodyLeft(r) ==
  /\ upd[r].pc \in {"loop", "draining"}
  /\ Handles(r) = {}
  /\ Goto(r, "closing")
  /\ UNCHANGED <<dbVars, fails, serving, inbox, conn, hand, entries, queue, closing, client>>

\* The map is gone: updater_tx is dropped, and the task waits for its connections.
QueueShut(r) ==
  /\ upd[r].pc = "loop"
  /\ queue[r] = << >> /\ Unmapped(r)
  /\ Goto(r, "draining")
  /\ UNCHANGED <<dbVars, fails, serving, inbox, conn, hand, entries, queue, closing, client>>

\* Seeded fault: the connection left over is not passed on.
SendCloseNothing(r) ==
  /\ upd[r].pc = "closing"
  /\ Len(closing) < CloseCap
  /\ closing' = Append(closing, [res |-> r, left |-> None])
  /\ upd' = [upd EXCEPT ![r] = NoUpdater]
  /\ UNCHANGED <<dbVars, fails, serving, inbox, conn, hand, entries, queue, client>>

\* The last thing a task that has left its loop does.  What is still in a queue
\* that is no longer in the map is dropped with it.
SendClose(r) ==
  /\ upd[r].pc = "closing"
  /\ Len(closing) < CloseCap
  /\ closing' = Append(closing, [res |-> r, left |-> upd[r].who])
  /\ upd' = [upd EXCEPT ![r] = NoUpdater]
  /\ \/ /\ Unmapped(r)
        /\ queue' = [queue EXCEPT ![r] = << >>]
        /\ client' = Dropped(Range(queue[r]))
     \/ /\ ~ Unmapped(r)
        /\ UNCHANGED <<queue, client>>
  /\ UNCHANGED <<dbVars, fails, serving, inbox, conn, hand, entries>>

UpdaterStep(r) ==
  \/ TakeFirst(r) \/ Read(r) \/ ServeFirst(r)
  \/ TakeUpdate(r) \/ FellBehind(r) \/ Publish(r) \/ WakeUp(r)
  \/ Accept(r) \/ NobodyLeft(r) \/ QueueShut(r) \/ SendClose(r)

-----------------------------------------------------------------------------
(* connect, the task of connection c.                                      *)

\* Seeded fault: an updater that waits for its connections keeps the sender.
FeedShutLate(c) == c \notin upd[Want[c]].subs

\* Its updater has ended, or dropped the sender.
FeedShut(c) == LET u == upd[Want[c]] IN c \notin u.subs \/ u.pc = "draining"

\* initial_json goes out on the socket.
Start(c) ==
  /\ client[c].pc = "given"
  /\ client' = [client EXCEPT ![c].pc = "live"]
  /\ UNCHANGED <<dbVars, fails, serving, inbox, conn, hand, entries, queue, closing, upd>>

\* A message goes out and the page applies it; a receiver that has fallen
\* behind the broadcast gets an error and ends.
Forward(c) ==
  LET m == Head(client[c].feed) IN
  /\ client[c].pc = "live"
  /\ client[c].feed # << >>
  /\ client' = IF Len(client[c].feed) > FeedCap THEN Dropped({c})
               ELSE [client EXCEPT ![c].view = Applied(@, m.changes),
                                   ![c].ver = m.ver, ![c].feed = Tail(@)]
  /\ UNCHANGED <<dbVars, fails, serving, inbox, conn, hand, entries, queue, closing, upd>>

FeedEnds(c) ==
  /\ client[c].pc = "live"
  /\ client[c].feed = << >> /\ FeedShut(c)
  /\ client' = Dropped({c})
  /\ UNCHANGED <<dbVars, fails, serving, inbox, conn, hand, entries, queue, closing, upd>>

\* The socket closes, a send fails, or no pong arrived in time.
HangUp(c) ==
  /\ client[c].pc \in {"given", "live"}
  /\ client' = Dropped({c})
  /\ UNCHANGED <<dbVars, fails, serving, inbox, conn, hand, entries, queue, closing, upd>>

-----------------------------------------------------------------------------
Connector ==
  TakeNew \/ PutInQueue \/ TakeClose \/ DropMap \/ DrainClose \/ ConnectorEnds

\* The server has stopped; only pages that never connected are left.
Ended == conn = "done" /\ UNCHANGED liveVars

LiveNext ==
  \/ Commit \/ Announce \/ StopServing \/ Ended
  \/ Connector
  \/ \E r \in Resources : UpdaterStep(r) \/ ReadFails(r)
  \/ \E c \in Clients : Open(c) \/ Start(c) \/ Forward(c) \/ FeedEnds(c) \/ HangUp(c)

LiveSpec == LiveInit /\ [][LiveNext]_liveVars

(***************************************************************************)
(* The writer announces what it committed, and every task that can go on   *)
(* does.  A select! picks among its ready branches at random, so none of   *)
(* them is passed over for ever.  Nothing is assumed of pages, of commits, *)
(* of failing reads or of the shutdown.                                    *)
(***************************************************************************)
LiveFairness ==
  /\ WF_liveVars(Announce)
  /\ WF_liveVars(Connector)
  /\ \A r \in Resources : WF_liveVars(UpdaterStep(r)) /\ SF_liveVars(TakeUpdate(r))
                           /\ SF_liveVars(Accept(r))
  /\ \A c \in Clients : WF_liveVars(Start(c) \/ Forward(c) \/ FeedEnds(c))

LiveFairSpec == LiveSpec /\ LiveFairness

-----------------------------------------------------------------------------
(* Properties.                                                             *)

CloseMsgs(r) == {n \in DOMAIN closing : closing[n].res = r}
InHand(r) == IF hand # None /\ hand.respawn /\ Want[hand.who] = r THEN 1 ELSE 0

(* A resource in the map has exactly one updater, or exactly one close     *)
(* message (or the connection it left over) that will bring the next one,  *)
(* however the two channels of the connector are interleaved.              *)
OneUpdater ==
  conn = "loop" => \A r \in Resources :
    (IF upd[r].pc = "none" THEN 0 ELSE 1) + Cardinality(CloseMsgs(r)) + InHand(r)
      = IF r \in entries THEN 1 ELSE 0

(* A connection that waits for its first result is in exactly one place    *)
(* from which it can still be served: none is lost between the connector,  *)
(* a queue, an updater and the close message of one.                       *)
NoConnectionLost ==
  \A c \in Clients :
    LET r == Want[c]
        times(s) == Cardinality({n \in DOMAIN s : s[n] = c})
    IN times(inbox) + (IF hand # None /\ hand.who = c THEN 1 ELSE 0) + times(queue[r])
         + (IF upd[r].who = c THEN 1 ELSE 0)
         + Cardinality({n \in DOMAIN closing : closing[n].left = c})
       = IF client[c].pc = "waiting" THEN 1 ELSE 0

(* A connection is turned away unserved only by a failing read or by the   *)
(* shutdown: not because the updater it was queued for has just ended.     *)
NoneTurnedAway ==
  [][\A c \in Clients : client[c].pc = "waiting" /\ client'[c].pc = "closed" =>
       fails' > fails \/ ~ serving]_liveVars

\* The result that message k on its way to a page starts from; with k past the
\* last one, the result the page ends up with.
Before(page, k) == IF k = 1 THEN page.ver ELSE page.feed[k - 1].ver

(* A page never shows rows its query did not return after some commit.     *)
(* Each message on its way takes the result before it to another one, and  *)
(* the last of them to what the page's updater holds: whenever a connection*)
(* joins, no message is missed and none applied twice.                     *)
PagesShowResults ==
  \A c \in Clients : client[c].pc \in {"given", "live"} =>
    LET r == Want[c]
        page == client[c]
    IN /\ page.view = Result(r, page.ver)
       /\ \A k \in DOMAIN page.feed :
            Applied(Result(r, Before(page, k)), page.feed[k].changes)
              = Result(r, page.feed[k].ver)
       /\ c \in upd[r].subs =>
            Result(r, Before(page, Len(page.feed) + 1)) = Result(r, upd[r].cur)

(* An updater with nothing to do holds the latest result: a commit between *)
(* its first read and its loop, or while it sleeps, is not overlooked.     *)
NoMissedCommit ==
  \A r \in Resources :
    upd[r].pc \in {"loop", "sleeping"} /\ upd[r].note = 0 /\ announced =>
      Result(r, upd[r].cur) = Result(r, Now)

(* When commits stop, every page still connected ends up with the latest   *)
(* rows and keeps them.                                                    *)
PagesCatchUp ==
  \A c \in Clients :
    <>[](client[c].pc = "live" => client[c].view = Result(Want[c], Now))

(* Every connection is served or dropped: none waits for ever.             *)
EveryConnectionAnswered ==
  \A c \in Clients : client[c].pc = "waiting" ~> client[c].pc # "waiting"

(* After the shutdown every page is disconnected and the connector returns,*)
(* which main() waits for.                                                 *)
ShutdownCompletes == ~ serving ~> conn = "done"

(* "once we have sent one msg the loop handles future connections"         *)
(* (websocket_handler.rs:121): a connector that waits for room in a queue  *)
(* has an updater at the other end of it.  It may have none: the updater's *)
(* close message is behind the connector, which reads it only when it has  *)
(* put the connection into the full queue.                                 *)
FullQueueIsServed ==
  hand # None => LET r == Want[hand.who] IN
    Len(queue[r]) = QueueCap => upd[r].pc # "none"
=============================================================================
