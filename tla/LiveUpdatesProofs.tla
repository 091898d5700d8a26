-------------------------- MODULE LiveUpdatesProofs --------------------------
(***************************************************************************)
(* The connector, its updaters and their connections, for any number of    *)
(* resources and connections, any capacities and any results.              *)
(***************************************************************************)
EXTENDS LiveUpdates, FiniteSetTheorems, TLAPS

(***************************************************************************)
(* Types need to know which results and connections an updater holds, and  *)
(* that an open page has rows.                                             *)
(***************************************************************************)
HeldBy(u) ==
  /\ u.pc \in {"asking", "answered"} => u.who # None
  /\ u.pc \in {"answered", "reread"} => u.res \in 1 .. Now
  /\ u.pc \in {"loop", "rereading", "reread", "sleeping"} => u.cur \in 1 .. Now

PagesHeld == \A c \in Clients : client[c].pc \in {"given", "live"} => client[c].view \in View

HeldInv == Now >= 1 /\ (\A r \in Resources : HeldBy(upd[r])) /\ PagesHeld

\* The map goes only in the shutdown.
StoppedInv == conn # "loop" => ~ serving

(* A connection is only ever where its resource is; and what will bring the*)
(* next updater of a resource in the map exists once, counted without      *)
(* numbers.                                                                *)
PlacesInv ==
  /\ \A r \in Resources : \A n \in DOMAIN queue[r] : Want[queue[r][n]] = r
  /\ \A r \in Resources : upd[r].who # None => Want[upd[r].who] = r
  /\ \A n \in DOMAIN closing :
       closing[n].left # None => Want[closing[n].left] = closing[n].res

Respawning(r) == hand # None /\ hand.respawn /\ Want[hand.who] = r

EntryOf(r) ==
  /\ r \notin entries =>
       upd[r].pc = "none" /\ CloseMsgs(r) = {} /\ ~ Respawning(r)
  /\ r \in entries =>
       \/ upd[r].pc # "none" /\ CloseMsgs(r) = {} /\ ~ Respawning(r)
       \/ upd[r].pc = "none" /\ (\E n : CloseMsgs(r) = {n}) /\ ~ Respawning(r)
       \/ upd[r].pc = "none" /\ CloseMsgs(r) = {} /\ Respawning(r)

EntriesInv == conn = "loop" => \A r \in Resources : EntryOf(r)

(* While no commit waits to be announced and none has been announced since,*)
(* the result just read is the last one.                                   *)
FreshOf(r, u) ==
  u.note = 0 /\ announced =>
    /\ u.pc \in {"answered", "reread"} => u.res = Now
    /\ u.pc \in {"loop", "sleeping"} => Result(r, u.cur) = Result(r, Now)

FreshInv == \A r \in Resources : FreshOf(r, upd[r])

LiveInv == LiveTypeOK /\ HeldInv /\ StoppedInv /\ PlacesInv /\ EntriesInv /\ FreshInv

-----------------------------------------------------------------------------
(***************************************************************************)
(* Types.                                                                  *)
(***************************************************************************)

LEMMA ResultType ==
  ASSUME LiveTypeOK, NEW r \in Resources, NEW n \in 1 .. Now
  PROVE  Result(r, n) \in View
BY DEF LiveTypeOK, Result, Now

LEMMA DiffType ==
  ASSUME NEW vn \in View, NEW vo \in View
  PROVE  DiffOf(vn, vo) \in Changes
<1>1. /\ DOMAIN vn \subseteq Keys /\ DOMAIN vo \subseteq Keys
      /\ \A k \in DOMAIN vn : vn[k] \in Values
  BY DEF View
<1>2. /\ {<<k, vn[k]>> : k \in DOMAIN vn \ DOMAIN vo} \in SUBSET (Keys \X Values)
      /\ {<<k, vn[k]>> : k \in {x \in DOMAIN vn \cap DOMAIN vo : vn[x] # vo[x]}}
           \in SUBSET (Keys \X Values)
      /\ DOMAIN vo \ DOMAIN vn \in SUBSET Keys
  BY <1>1
<1> QED
  BY <1>2 DEF DiffOf, Changes

LEMMA AppliedType ==
  ASSUME NEW v \in View, NEW d \in Changes
  PROVE  Applied(v, d) \in View
<1> DEFINE put == d.add \cup d.modify
           set == {p[1] : p \in put}
           K   == (DOMAIN v \ d.delete) \cup set
           row(k) == IF k \in set THEN (CHOOSE p \in put : p[1] = k)[2] ELSE v[k]
<1>1. put \subseteq Keys \X Values
  BY DEF Changes
<1>2. DOMAIN v \subseteq Keys /\ \A k \in DOMAIN v : v[k] \in Values
  BY DEF View
<1>3. Applied(v, d) = [k \in K |-> row(k)]
  BY DEF Applied
<1> HIDE DEF put
<1>4. K \subseteq Keys
  BY <1>1, <1>2
<1>5. \A k \in set : (CHOOSE p \in put : p[1] = k) \in put
  OBVIOUS
<1>6. \A k \in K : row(k) \in Values
  <2> SUFFICES ASSUME NEW k \in K
               PROVE  row(k) \in Values
    OBVIOUS
  <2>1. CASE k \in set
    BY <1>1, <1>5, <2>1
  <2>2. CASE k \notin set
    BY <1>2, <2>2
  <2> QED
    BY <2>1, <2>2
<1> HIDE DEF K, row, set
<1>7. [k \in K |-> row(k)] \in [K -> Values]
  BY <1>6
<1> QED
  BY <1>3, <1>4, <1>7 DEF View

LEMMA AtType ==
  ASSUME NEW pc \in {"idle", "waiting", "given", "live", "closed"}
  PROVE  At(pc) \in Connection /\ At(pc).pc = pc
<1>1. << >> \in Seq([changes : Changes, ver : Nat])
  OBVIOUS
<1> QED
  BY <1>1 DEF At, Connection

LEMMA DroppedType ==
  ASSUME LiveTypeOK, NEW cs
  PROVE  /\ Dropped(cs) \in [Clients -> Connection]
         /\ \A c \in Clients : Dropped(cs)[c] = IF c \in cs THEN At("closed") ELSE client[c]
         /\ At("closed").pc = "closed"
BY AtType DEF LiveTypeOK, Dropped

LEMMA ServedType ==
  ASSUME LiveTypeOK, NEW r \in Resources, NEW n \in 1 .. Now, NEW c \in Clients,
         Served(r, c, n)
  PROVE  /\ client' \in [Clients -> Connection]
         /\ client'[c].pc = "given" /\ client'[c].view \in View
         /\ \A k \in Clients \ {c} : client'[k] = client[k]
<1>1. n \in Nat /\ Result(r, n) \in View
  BY ResultType DEF LiveTypeOK, Now
<1> DEFINE e == [At("given") EXCEPT !.view = Result(r, n), !.ver = n]
<1>2. e \in Connection /\ e.pc = "given" /\ e.view \in View
  <2>1. PICK a, v : a = At("given") /\ v = Result(r, n)
    OBVIOUS
  <2>2. a \in Connection /\ a.pc = "given" /\ v \in View
    BY <1>1, <2>1, AtType
  <2>3. PICK f : f = [a EXCEPT !.view = v, !.ver = n]
    OBVIOUS
  <2>4. f \in Connection /\ f.pc = "given" /\ f.view \in View
    BY <1>1, <2>2, <2>3 DEF Connection
  <2> QED
    BY <2>1, <2>3, <2>4
<1>3. client' = [client EXCEPT ![c] = e]
  BY DEF Served
<1> HIDE DEF e
<1> QED
  BY <1>2, <1>3 DEF LiveTypeOK


-----------------------------------------------------------------------------
(***************************************************************************)
(* What each step makes of its updater.                                    *)
(***************************************************************************)

With(pc, who, subs, cur, res, note) ==
  [pc |-> pc, who |-> who, subs |-> subs, cur |-> cur, res |-> res, note |-> note]

Becomes(r, u) == upd' = [upd EXCEPT ![r] = u]

LEMMA UpdaterType ==
  ASSUME NEW u \in Updater
  PROVE  /\ u.pc \in UpdaterPc /\ u.who \in Clients \cup {None} /\ u.subs \in SUBSET Clients
         /\ u.cur \in Nat /\ u.res \in Nat /\ u.note \in Nat
         /\ u = With(u.pc, u.who, u.subs, u.cur, u.res, u.note)
BY DEF Updater, With

LEMMA WithType ==
  ASSUME NEW pc \in UpdaterPc, NEW who \in Clients \cup {None}, NEW subs \in SUBSET Clients,
         NEW cur \in Nat, NEW res \in Nat, NEW note \in Nat
  PROVE  With(pc, who, subs, cur, res, note) \in Updater
BY DEF Updater, With

LEMMA WithFields ==
  ASSUME NEW pc, NEW who, NEW subs, NEW cur, NEW res, NEW note
  PROVE  LET u == With(pc, who, subs, cur, res, note) IN
         /\ u.pc = pc /\ u.who = who /\ u.subs = subs
         /\ u.cur = cur /\ u.res = res /\ u.note = note
BY DEF With

LEMMA BecomesFields ==
  ASSUME LiveTypeOK, NEW r \in Resources, NEW u \in Updater, Becomes(r, u)
  PROVE  /\ upd' \in [Resources -> Updater] /\ upd'[r] = u
         /\ \A q \in Resources \ {r} : upd'[q] = upd[q]
BY DEF LiveTypeOK, Becomes

LEMMA FreshUpdaters ==
  /\ Spawned = With("first", None, {}, 0, 0, 0)
  /\ NoUpdater = With("none", None, {}, 0, 0, 0)
  /\ Spawned \in Updater /\ NoUpdater \in Updater
BY DEF Spawned, NoUpdater, With, Updater, UpdaterPc

\* A step only moves updater r on.
LEMMA GotoEffect ==
  ASSUME LiveTypeOK, NEW r \in Resources, NEW pc, Goto(r, pc)
  PROVE  LET u == upd[r] IN Becomes(r, With(pc, u.who, u.subs, u.cur, u.res, u.note))
<1>1. PICK u : u = upd[r]
  OBVIOUS
<1>2. u \in Updater
  BY <1>1 DEF LiveTypeOK
<1>3. [u EXCEPT !.pc = pc] = With(pc, u.who, u.subs, u.cur, u.res, u.note)
  BY <1>2 DEF Updater, With
<1> QED
  BY <1>1, <1>3 DEF Goto, Becomes

LEMMA TakeFirstEffect ==
  ASSUME LiveTypeOK, NEW r \in Resources, TakeFirst(r)
  PROVE  LET u == upd[r] IN
         Becomes(r, With("asking", Head(queue[r]), u.subs, u.cur, u.res, u.note))
<1>1. PICK u, c : u = upd[r] /\ c = Head(queue[r])
  OBVIOUS
<1>2. u \in Updater
  BY <1>1 DEF LiveTypeOK
<1>3. [u EXCEPT !.pc = "asking", !.who = c]
        = With("asking", c, u.subs, u.cur, u.res, u.note)
  <2>1. PICK f : f = [u EXCEPT !.pc = "asking", !.who = c]
    OBVIOUS
  <2>2. /\ f.pc = "asking" /\ f.who = c /\ f.subs = u.subs
        /\ f.cur = u.cur /\ f.res = u.res /\ f.note = u.note
        /\ f = [pc |-> f.pc, who |-> f.who, subs |-> f.subs, cur |-> f.cur,
                res |-> f.res, note |-> f.note]
    BY <1>2, <2>1 DEF Updater
  <2> QED
    BY <2>1, <2>2 DEF With
<1> QED
  BY <1>1, <1>3 DEF TakeFirst, Becomes

LEMMA ReadEffect ==
  ASSUME LiveTypeOK, NEW r \in Resources, Read(r)
  PROVE  LET u == upd[r] IN
         Becomes(r, With(IF u.pc = "asking" THEN "answered" ELSE "reread",
                         u.who, u.subs, u.cur, Now, u.note))
<1>1. PICK u, n : u = upd[r] /\ n = Now
  OBVIOUS
<1>2. u \in Updater
  BY <1>1 DEF LiveTypeOK
<1>3. PICK pc : pc = IF u.pc = "asking" THEN "answered" ELSE "reread"
  OBVIOUS
<1>4. [u EXCEPT !.res = n, !.pc = pc]
        = With(pc, u.who, u.subs, u.cur, n, u.note)
  <2>1. PICK f : f = [u EXCEPT !.res = n, !.pc = pc]
    OBVIOUS
  <2>2. /\ f.pc = pc /\ f.who = u.who /\ f.subs = u.subs
        /\ f.cur = u.cur /\ f.res = n /\ f.note = u.note
        /\ f = [pc |-> f.pc, who |-> f.who, subs |-> f.subs, cur |-> f.cur,
                res |-> f.res, note |-> f.note]
    BY <1>2, <2>1 DEF Updater
  <2> QED
    BY <2>1, <2>2 DEF With
<1>5. upd' = [upd EXCEPT ![r] = [u EXCEPT !.res = n, !.pc = pc]]
  BY <1>1, <1>2, <1>3 DEF Read, Updater
<1> QED
  BY <1>1, <1>3, <1>4, <1>5 DEF Becomes

LEMMA ReadFailsEffect ==
  ASSUME LiveTypeOK, NEW r \in Resources, ReadFails(r)
  PROVE  LET u == upd[r] IN
         Becomes(r, With("closing", None, u.subs, u.cur, u.res, u.note))
<1>1. PICK u : u = upd[r]
  OBVIOUS
<1>2. u \in Updater
  BY <1>1 DEF LiveTypeOK
<1>3. [u EXCEPT !.pc = "closing", !.who = None]
        = With("closing", None, u.subs, u.cur, u.res, u.note)
  <2>1. PICK f : f = [u EXCEPT !.pc = "closing", !.who = None]
    OBVIOUS
  <2>2. /\ f.pc = "closing" /\ f.who = None /\ f.subs = u.subs
        /\ f.cur = u.cur /\ f.res = u.res /\ f.note = u.note
        /\ f = [pc |-> f.pc, who |-> f.who, subs |-> f.subs, cur |-> f.cur,
                res |-> f.res, note |-> f.note]
    BY <1>2, <2>1 DEF Updater
  <2> QED
    BY <2>1, <2>2 DEF With
<1> QED
  BY <1>1, <1>3 DEF ReadFails, Becomes

LEMMA ServeFirstEffect ==
  ASSUME LiveTypeOK, NEW r \in Resources, ServeFirst(r)
  PROVE  LET u == upd[r] IN
         Becomes(r, With("loop", None, {u.who}, u.res, u.res, u.note))
<1>1. PICK u : u = upd[r]
  OBVIOUS
<1>2. u \in Updater
  BY <1>1 DEF LiveTypeOK
<1>3. [u EXCEPT !.pc = "loop", !.cur = u.res, !.subs = {u.who}, !.who = None]
        = With("loop", None, {u.who}, u.res, u.res, u.note)
  <2>1. PICK f : f = [u EXCEPT !.pc = "loop", !.cur = u.res, !.subs = {u.who}, !.who = None]
    OBVIOUS
  <2>2. /\ f.pc = "loop" /\ f.who = None /\ f.subs = {u.who}
        /\ f.cur = u.res /\ f.res = u.res /\ f.note = u.note
        /\ f = [pc |-> f.pc, who |-> f.who, subs |-> f.subs, cur |-> f.cur,
                res |-> f.res, note |-> f.note]
    BY <1>2, <2>1 DEF Updater
  <2> QED
    BY <2>1, <2>2 DEF With
<1> QED
  BY <1>1, <1>3 DEF ServeFirst, Becomes

LEMMA TakeUpdateEffect ==
  ASSUME LiveTypeOK, NEW r \in Resources, TakeUpdate(r)
  PROVE  LET u == upd[r] IN
         Becomes(r, With("rereading", u.who, u.subs, u.cur, u.res, 0))
<1>1. PICK u : u = upd[r]
  OBVIOUS
<1>2. u \in Updater
  BY <1>1 DEF LiveTypeOK
<1>3. [u EXCEPT !.pc = "rereading", !.note = 0]
        = With("rereading", u.who, u.subs, u.cur, u.res, 0)
  <2>1. PICK f : f = [u EXCEPT !.pc = "rereading", !.note = 0]
    OBVIOUS
  <2>2. /\ f.pc = "rereading" /\ f.who = u.who /\ f.subs = u.subs
        /\ f.cur = u.cur /\ f.res = u.res /\ f.note = 0
        /\ f = [pc |-> f.pc, who |-> f.who, subs |-> f.subs, cur |-> f.cur,
                res |-> f.res, note |-> f.note]
    BY <1>2, <2>1 DEF Updater
  <2> QED
    BY <2>1, <2>2 DEF With
<1> QED
  BY <1>1, <1>3 DEF TakeUpdate, Becomes

LEMMA PublishEffect ==
  ASSUME LiveTypeOK, NEW r \in Resources, Publish(r)
  PROVE  LET u == upd[r]
             d == DiffOf(Result(r, u.res), Result(r, u.cur))
         IN Becomes(r, With("sleeping", u.who, u.subs,
                            IF d = NoChange THEN u.cur ELSE u.res, u.res, u.note))
<1>1. PICK u, d : u = upd[r] /\ d = DiffOf(Result(r, u.res), Result(r, u.cur))
  OBVIOUS
<1>2. u \in Updater
  BY <1>1 DEF LiveTypeOK
<1>3. CASE d = NoChange
  BY <1>1, <1>3, GotoEffect DEF Publish
<1>4. CASE d # NoChange
  <2>1. [u EXCEPT !.pc = "sleeping", !.cur = u.res]
          = With("sleeping", u.who, u.subs, u.res, u.res, u.note)
    <3>1. PICK f : f = [u EXCEPT !.pc = "sleeping", !.cur = u.res]
      OBVIOUS
    <3>2. /\ f.pc = "sleeping" /\ f.who = u.who /\ f.subs = u.subs
          /\ f.cur = u.res /\ f.res = u.res /\ f.note = u.note
          /\ f = [pc |-> f.pc, who |-> f.who, subs |-> f.subs, cur |-> f.cur,
                  res |-> f.res, note |-> f.note]
      BY <1>2, <3>1 DEF Updater
    <3> QED
      BY <3>1, <3>2 DEF With
  <2>2. upd' = [upd EXCEPT ![r] = [u EXCEPT !.pc = "sleeping", !.cur = u.res]]
    BY <1>1, <1>4 DEF Publish
  <2> QED
    BY <1>1, <1>4, <2>1, <2>2 DEF Becomes
<1> QED
  BY <1>3, <1>4

LEMMA AcceptEffect ==
  ASSUME LiveTypeOK, NEW r \in Resources, Accept(r)
  PROVE  LET u == upd[r]
             c == Head(queue[r])
         IN \/ /\ Becomes(r, With("loop", u.who, u.subs \cup {c}, u.cur, u.res, u.note))
               /\ Served(r, c, u.cur)
            \/ /\ Becomes(r, With("closing", c, u.subs, u.cur, u.res, u.note))
               /\ UNCHANGED client
<1>1. PICK u, c : u = upd[r] /\ c = Head(queue[r])
  OBVIOUS
<1>2. u \in Updater /\ u.pc = "loop"
  BY <1>1 DEF LiveTypeOK, Accept
<1>3. [u EXCEPT !.subs = u.subs \cup {c}]
        = With("loop", u.who, u.subs \cup {c}, u.cur, u.res, u.note)
  BY <1>2 DEF Updater, With
<1>4. [u EXCEPT !.pc = "closing", !.who = c]
        = With("closing", c, u.subs, u.cur, u.res, u.note)
  <2>1. PICK f : f = [u EXCEPT !.pc = "closing", !.who = c]
    OBVIOUS
  <2>2. /\ f.pc = "closing" /\ f.who = c /\ f.subs = u.subs
        /\ f.cur = u.cur /\ f.res = u.res /\ f.note = u.note
        /\ f = [pc |-> f.pc, who |-> f.who, subs |-> f.subs, cur |-> f.cur,
                res |-> f.res, note |-> f.note]
    BY <1>2, <2>1 DEF Updater
  <2> QED
    BY <2>1, <2>2 DEF With
<1>5. \/ /\ Served(r, c, u.cur)
         /\ upd' = [upd EXCEPT ![r] = [u EXCEPT !.subs = u.subs \cup {c}]]
      \/ /\ upd' = [upd EXCEPT ![r] = [u EXCEPT !.pc = "closing", !.who = c]]
         /\ UNCHANGED client
  BY <1>1 DEF Accept
<1> QED
  BY <1>1, <1>3, <1>4, <1>5 DEF Becomes

-----------------------------------------------------------------------------
(***************************************************************************)
(* Every step keeps the types.                                             *)
(***************************************************************************)

TypedInv == LiveTypeOK /\ HeldInv

Others == <<history, announced, fails, serving, inbox, conn, hand, entries, queue, closing>>

LEMMA UpdaterHeld ==
  ASSUME TypedInv, UNCHANGED history, NEW r \in Resources, NEW u \in Updater,
         Becomes(r, u), HeldBy(u)
  PROVE  /\ upd' \in [Resources -> Updater]
         /\ Now' >= 1 /\ \A q \in Resources : HeldBy(upd[q])'
<1>1. /\ upd' \in [Resources -> Updater] /\ upd'[r] = u
      /\ \A q \in Resources \ {r} : upd'[q] = upd[q]
  BY BecomesFields DEF TypedInv
<1>2. Now' = Now
  BY DEF Now
<1> QED
  BY <1>1, <1>2 DEF TypedInv, HeldInv, HeldBy

LEMMA ClientsDropped ==
  ASSUME TypedInv, NEW cs, client' = Dropped(cs)
  PROVE  client' \in [Clients -> Connection] /\ PagesHeld'
BY DroppedType DEF TypedInv, HeldInv, PagesHeld

LEMMA ClientServed ==
  ASSUME TypedInv, NEW r \in Resources, NEW n \in 1 .. Now, NEW c \in Clients,
         Served(r, c, n)
  PROVE  client' \in [Clients -> Connection] /\ PagesHeld'
BY ServedType DEF TypedInv, HeldInv, PagesHeld

LEMMA QueueType ==
  ASSUME LiveTypeOK, NEW r \in Resources, queue[r] # << >>
  PROVE  /\ Head(queue[r]) \in Clients
         /\ [queue EXCEPT ![r] = Tail(@)] \in [Resources -> Seq(Clients)]
<1>1. queue \in [Resources -> Seq(Clients)] /\ queue[r] \in Seq(Clients)
  BY DEF LiveTypeOK
<1>2. Head(queue[r]) \in Clients /\ Tail(queue[r]) \in Seq(Clients)
  BY <1>1
<1> QED
  BY <1>1, <1>2

\* The steps of updater r.
LEMMA UpdaterStepTyped ==
  ASSUME TypedInv, NEW r \in Resources, UpdaterStep(r) \/ ReadFails(r)
  PROVE  TypedInv'
<1> DEFINE u == upd[r]
<1>1. /\ u \in Updater /\ u.pc \in UpdaterPc /\ u.who \in Clients \cup {None}
      /\ u.subs \in SUBSET Clients /\ u.cur \in Nat /\ u.res \in Nat /\ u.note \in Nat
  BY UpdaterType DEF TypedInv, LiveTypeOK
<1>2. HeldBy(u) /\ Now \in Nat /\ Now >= 1 /\ LiveTypeOK
  BY DEF TypedInv, HeldInv, LiveTypeOK, Now
<1> HIDE DEF u
\* Enough: a new updater that holds what it should, with the other variables typed.
<1>3. ASSUME NEW w \in Updater, Becomes(r, w), HeldBy(w),
             UNCHANGED <<history, announced, serving, inbox, conn, hand, entries>>,
             fails' \in 0 .. MaxFails, queue' \in [Resources -> Seq(Clients)],
             closing' \in Seq([res : Resources, left : Clients \cup {None}]),
             client' \in [Clients -> Connection], PagesHeld'
      PROVE  TypedInv'
  <2>1. /\ upd' \in [Resources -> Updater]
        /\ Now' >= 1 /\ \A q \in Resources : HeldBy(upd[q])'
    BY <1>3, UpdaterHeld
  <2> QED
    BY <1>3, <2>1 DEF TypedInv, HeldInv, LiveTypeOK
<1>4. /\ fails \in 0 .. MaxFails /\ queue \in [Resources -> Seq(Clients)]
      /\ closing \in Seq([res : Resources, left : Clients \cup {None}])
      /\ client \in [Clients -> Connection]
      /\ UNCHANGED client => PagesHeld'
  BY DEF TypedInv, HeldInv, LiveTypeOK, PagesHeld
<1>5. ASSUME NEW pc \in {"loop", "sleeping", "draining", "closing"}, Goto(r, pc),
             HeldBy(With(pc, u.who, u.subs, u.cur, u.res, u.note)),
             UNCHANGED Others, UNCHANGED client
      PROVE  TypedInv'
  <2>1. With(pc, u.who, u.subs, u.cur, u.res, u.note) \in Updater
    BY <1>1, WithType DEF UpdaterPc
  <2>2. Becomes(r, With(pc, u.who, u.subs, u.cur, u.res, u.note))
    BY <1>2, <1>5, GotoEffect DEF u
  <2> QED
    BY <1>3, <1>4, <1>5, <2>1, <2>2 DEF Others
<1>6. CASE TakeFirst(r)
  <2> DEFINE w == With("asking", Head(queue[r]), u.subs, u.cur, u.res, u.note)
  <2>1. Becomes(r, w)
    BY <1>2, <1>6, TakeFirstEffect DEF u
  <2>2. Head(queue[r]) \in Clients /\ queue' \in [Resources -> Seq(Clients)]
    BY <1>2, <1>6, QueueType DEF TakeFirst
  <2>3. w \in Updater
    BY <1>1, <2>2, WithType DEF UpdaterPc
  <2>4. HeldBy(w)
    BY <2>2, NobodyAssumption, WithFields DEF HeldBy
  <2> HIDE DEF w
  <2> QED
    BY <1>3, <1>4, <1>6, <2>1, <2>2, <2>3, <2>4 DEF TakeFirst, dbVars
<1>7. CASE Read(r)
  <2> DEFINE w == With(IF u.pc = "asking" THEN "answered" ELSE "reread",
                       u.who, u.subs, u.cur, Now, u.note)
  <2>1. Becomes(r, w)
    BY <1>2, <1>7, ReadEffect DEF u
  <2>2. w \in Updater
    BY <1>1, <1>2, WithType DEF UpdaterPc
  <2>3. HeldBy(w)
    BY <1>2, <1>7, WithFields DEF HeldBy, Read, u
  <2> HIDE DEF w
  <2> QED
    BY <1>3, <1>4, <1>7, <2>1, <2>2, <2>3 DEF Read, dbVars
<1>8. CASE ReadFails(r)
  <2> DEFINE w == With("closing", None, u.subs, u.cur, u.res, u.note)
  <2>1. Becomes(r, w)
    BY <1>2, <1>8, ReadFailsEffect DEF u
  <2>2. w \in Updater
    BY <1>1, WithType DEF UpdaterPc
  <2>3. HeldBy(w)
    BY WithFields DEF HeldBy
  <2>4. client' \in [Clients -> Connection] /\ PagesHeld'
    BY <1>8, ClientsDropped DEF ReadFails
  <2>5. fails' \in 0 .. MaxFails
    BY <1>4, <1>8, CapsAssumption DEF ReadFails
  <2> HIDE DEF w
  <2> QED
    BY <1>3, <1>4, <1>8, <2>1, <2>2, <2>3, <2>4, <2>5 DEF ReadFails, dbVars
<1>9. CASE ServeFirst(r)
  <2> DEFINE w == With("loop", None, {u.who}, u.res, u.res, u.note)
  <2>1. Becomes(r, w)
    BY <1>2, <1>9, ServeFirstEffect DEF u
  <2>2. u.who \in Clients /\ u.res \in 1 .. Now
    BY <1>1, <1>2, <1>9 DEF ServeFirst, HeldBy, u
  <2>3. w \in Updater
    BY <1>1, <2>2, WithType DEF UpdaterPc
  <2>4. HeldBy(w)
    BY <2>2, WithFields DEF HeldBy
  <2>5. client' \in [Clients -> Connection] /\ PagesHeld'
    BY <1>9, <2>2, ClientServed DEF ServeFirst, u
  <2> HIDE DEF w
  <2> QED
    BY <1>3, <1>4, <1>9, <2>1, <2>3, <2>4, <2>5 DEF ServeFirst, dbVars
<1>10. CASE TakeUpdate(r)
  <2> DEFINE w == With("rereading", u.who, u.subs, u.cur, u.res, 0)
  <2>1. Becomes(r, w)
    BY <1>2, <1>10, TakeUpdateEffect DEF u
  <2>2. w \in Updater
    BY <1>1, WithType DEF UpdaterPc
  <2>3. HeldBy(w)
    BY <1>2, <1>10, WithFields DEF HeldBy, TakeUpdate, u
  <2> HIDE DEF w
  <2> QED
    BY <1>3, <1>4, <1>10, <2>1, <2>2, <2>3 DEF TakeUpdate, dbVars
<1>11. CASE FellBehind(r) \/ NobodyLeft(r) \/ QueueShut(r) \/ WakeUp(r)
  <2>1. PICK pc \in {"loop", "draining", "closing"} :
          Goto(r, pc) /\ (pc = "loop" => u.pc = "sleeping")
    BY <1>11 DEF FellBehind, NobodyLeft, QueueShut, WakeUp, u
  <2>2. HeldBy(With(pc, u.who, u.subs, u.cur, u.res, u.note))
    BY <1>2, <2>1, WithFields DEF HeldBy
  <2>3. UNCHANGED Others /\ UNCHANGED client
    BY <1>11 DEF FellBehind, NobodyLeft, QueueShut, WakeUp, Others, dbVars
  <2> QED
    BY <1>5, <2>1, <2>2, <2>3
<1>12. CASE Publish(r)
  <2> DEFINE d == DiffOf(Result(r, u.res), Result(r, u.cur))
             w == With("sleeping", u.who, u.subs, IF d = NoChange THEN u.cur ELSE u.res,
                       u.res, u.note)
  <2>1. Becomes(r, w)
    BY <1>2, <1>12, PublishEffect DEF u
  <2>2. u.res \in 1 .. Now /\ u.cur \in 1 .. Now
    BY <1>2, <1>12 DEF Publish, HeldBy, u
  <2>3. d \in Changes
    BY <1>2, <2>2, ResultType, DiffType
  <2> HIDE DEF d
  <2>4. w \in Updater
    BY <1>1, WithType DEF UpdaterPc
  <2>5. HeldBy(w)
    BY <2>2, WithFields DEF HeldBy
  <2>6. client' \in [Clients -> Connection] /\ PagesHeld'
    <3>1. PICK m : m = [changes |-> d, ver |-> u.res]
      OBVIOUS
    <3>2. m \in [changes : Changes, ver : Nat]
      BY <1>1, <2>3, <3>1
    <3>3. CASE UNCHANGED client
      BY <1>4, <3>3
    <3>4. CASE client' = [c \in Clients |->
                 IF c \in Handles(r) THEN [client[c] EXCEPT !.feed = Append(@, m)]
                                     ELSE client[c]]
      <4>1. ASSUME NEW e \in Connection
            PROVE  LET f == [e EXCEPT !.feed = Append(@, m)] IN
                   f \in Connection /\ f.pc = e.pc /\ f.view = e.view
        <5>1. e.feed \in Seq([changes : Changes, ver : Nat])
          BY DEF Connection
        <5>2. PICK more : more = Append(e.feed, m)
          OBVIOUS
        <5>3. more \in Seq([changes : Changes, ver : Nat])
          BY <3>2, <5>1, <5>2
        <5>4. /\ [e EXCEPT !.feed = more] \in Connection
              /\ [e EXCEPT !.feed = more].pc = e.pc /\ [e EXCEPT !.feed = more].view = e.view
          BY <5>3 DEF Connection
        <5> QED
          BY <5>2, <5>4
      <4>2. \A c \in Clients : client'[c] \in Connection /\ client'[c].pc = client[c].pc
                               /\ client'[c].view = client[c].view
        BY <1>4, <3>4, <4>1
      <4> QED
        BY <3>4, <4>2 DEF TypedInv, HeldInv, PagesHeld
    <3> QED
      BY <1>12, <3>1, <3>3, <3>4 DEF Publish, d, u
  <2> HIDE DEF w
  <2> QED
    BY <1>3, <1>4, <1>12, <2>1, <2>4, <2>5, <2>6 DEF Publish, dbVars
<1>13. CASE Accept(r)
  <2> DEFINE c == Head(queue[r])
             w1 == With("loop", u.who, u.subs \cup {c}, u.cur, u.res, u.note)
             w2 == With("closing", c, u.subs, u.cur, u.res, u.note)
  <2>1. c \in Clients /\ queue' \in [Resources -> Seq(Clients)]
    BY <1>2, <1>13, QueueType DEF Accept
  <2>2. u.cur \in 1 .. Now
    BY <1>2, <1>13 DEF Accept, HeldBy, u
  <2>3. w1 \in Updater /\ w2 \in Updater
    BY <1>1, <2>1, WithType DEF UpdaterPc
  <2>4. HeldBy(w1) /\ HeldBy(w2)
    BY <2>2, WithFields DEF HeldBy
  <2>5. \/ Becomes(r, w1) /\ Served(r, c, u.cur)
        \/ Becomes(r, w2) /\ UNCHANGED client
    BY <1>2, <1>13, AcceptEffect DEF u
  <2> HIDE DEF c, w1, w2
  <2>6. client' \in [Clients -> Connection] /\ PagesHeld'
    BY <1>4, <2>1, <2>2, <2>5, ClientServed
  <2> QED
    BY <1>3, <1>4, <1>13, <2>1, <2>3, <2>4, <2>5, <2>6 DEF Accept, dbVars
<1>14. CASE SendClose(r)
  <2>1. NoUpdater \in Updater /\ HeldBy(NoUpdater)
    BY FreshUpdaters, WithFields DEF HeldBy
  <2>2. Becomes(r, NoUpdater)
    BY <1>14 DEF SendClose, Becomes
  <2>3. [res |-> r, left |-> u.who] \in [res : Resources, left : Clients \cup {None}]
    BY <1>1
  <2>4. closing' \in Seq([res : Resources, left : Clients \cup {None}])
    BY <1>4, <1>14, <2>3 DEF SendClose, u
  <2>5. /\ queue' \in [Resources -> Seq(Clients)]
        /\ client' \in [Clients -> Connection] /\ PagesHeld'
    <3>1. << >> \in Seq(Clients)
      OBVIOUS
    <3> QED
      BY <1>4, <1>14, <3>1, ClientsDropped DEF SendClose
  <2> QED
    BY <1>3, <1>4, <1>14, <2>1, <2>2, <2>4, <2>5 DEF SendClose, dbVars
<1> QED
  BY <1>6, <1>7, <1>8, <1>9, <1>10, <1>11, <1>12, <1>13, <1>14 DEF UpdaterStep

LEMMA HeadAndTail ==
  ASSUME NEW S, NEW s \in Seq(S), s # << >>
  PROVE  Head(s) \in S /\ Tail(s) \in Seq(S)
OBVIOUS

\* The connector, the database and the pages.
LEMMA OtherStepTyped ==
  ASSUME TypedInv, [LiveNext]_liveVars,
         ~ \E r \in Resources : UpdaterStep(r) \/ ReadFails(r)
  PROVE  TypedInv'
<1>1. /\ LiveTypeOK /\ history \in Seq([Resources -> View]) /\ Now \in Nat /\ Now >= 1
      /\ client \in [Clients -> Connection] /\ PagesHeld
      /\ upd \in [Resources -> Updater] /\ \A r \in Resources : HeldBy(upd[r])
  BY DEF TypedInv, HeldInv, LiveTypeOK, Now
\* Enough: the history stands, and updaters are as they were, new or gone on.
<1>2. ASSUME UNCHANGED history, LiveTypeOK', PagesHeld',
             \A r \in Resources : upd'[r] = upd[r] \/ upd'[r] = Spawned
      PROVE  TypedInv'
  <2>1. Now' = Now
    BY <1>2 DEF Now
  <2>2. HeldBy(Spawned)
    BY FreshUpdaters, WithFields DEF HeldBy
  <2>3. \A r \in Resources : HeldBy(upd[r])'
    BY <1>1, <1>2, <2>1, <2>2 DEF HeldBy
  <2> QED
    BY <1>1, <1>2, <2>1, <2>3 DEF TypedInv, HeldInv
<1>3. UNCHANGED client => PagesHeld'
  BY <1>1 DEF PagesHeld
<1>4. ASSUME NEW cs, client' = Dropped(cs)
      PROVE  client' \in [Clients -> Connection] /\ PagesHeld'
  BY <1>4, ClientsDropped
<1>5. CASE Commit
  <2>1. PICK v \in [Resources -> View] : history' = Append(history, v)
    BY <1>5 DEF Commit
  <2>2. history' \in Seq([Resources -> View]) /\ Now' = Now + 1
    BY <1>1, <2>1 DEF Now
  <2>3. LiveTypeOK'
    BY <1>1, <1>5, <2>2 DEF Commit, LiveTypeOK
  <2>4. \A r \in Resources : HeldBy(upd[r])'
    BY <1>1, <1>5, <2>2 DEF Commit, HeldBy
  <2> QED
    BY <1>1, <1>3, <1>5, <2>2, <2>3, <2>4 DEF Commit, TypedInv, HeldInv
<1>6. CASE Announce
  <2>1. \A r \in Resources : /\ upd'[r] \in Updater
                             /\ upd'[r].pc = upd[r].pc /\ upd'[r].who = upd[r].who
                             /\ upd'[r].cur = upd[r].cur /\ upd'[r].res = upd[r].res
    <3> SUFFICES ASSUME NEW r \in Resources
                 PROVE  /\ upd'[r] \in Updater
                        /\ upd'[r].pc = upd[r].pc /\ upd'[r].who = upd[r].who
                        /\ upd'[r].cur = upd[r].cur /\ upd'[r].res = upd[r].res
      OBVIOUS
    <3>1. PICK u : u = upd[r]
      OBVIOUS
    <3>2. u \in Updater /\ u.note + 1 \in Nat
      BY <1>1, <3>1, UpdaterType
    <3>3. PICK w : w = [u EXCEPT !.note = u.note + 1]
      OBVIOUS
    <3>4. w \in Updater /\ w.pc = u.pc /\ w.who = u.who /\ w.cur = u.cur /\ w.res = u.res
      BY <3>2, <3>3 DEF Updater
    <3>5. upd'[r] = u \/ upd'[r] = w
      BY <1>6, <3>1, <3>3 DEF Announce
    <3> QED
      BY <3>1, <3>2, <3>4, <3>5
  <2>2. upd' \in [Resources -> Updater]
    BY <1>6, <2>1 DEF Announce
  <2>3. Now' = Now
    BY <1>6 DEF Announce, Now
  <2>4. \A r \in Resources : HeldBy(upd[r])'
    BY <1>1, <2>1, <2>3 DEF HeldBy
  <2>5. LiveTypeOK'
    BY <1>1, <1>6, <2>2 DEF Announce, LiveTypeOK
  <2> QED
    BY <1>1, <1>3, <1>6, <2>3, <2>4, <2>5 DEF Announce, TypedInv, HeldInv
<1>7. ASSUME NEW c \in Clients, Open(c)
      PROVE  TypedInv'
  <2>1. client' \in [Clients -> Connection] /\ PagesHeld'
    BY <1>1, <1>7, AtType DEF Open, PagesHeld
  <2>2. inbox' \in Seq(Clients)
    BY <1>1, <1>7 DEF Open, LiveTypeOK
  <2>3. LiveTypeOK'
    BY <1>1, <1>7, <2>1, <2>2 DEF Open, LiveTypeOK, dbVars
  <2> QED
    BY <1>2, <1>7, <2>1, <2>3 DEF Open, dbVars
<1>8. CASE TakeNew
  <2>1. inbox \in Seq(Clients) /\ inbox # << >>
    BY <1>1, <1>8 DEF TakeNew, LiveTypeOK
  <2>2. PICK c, r : c = Head(inbox) /\ r = Want[c]
    OBVIOUS
  <2>3. c \in Clients /\ r \in Resources /\ inbox' \in Seq(Clients)
    BY <1>8, <2>1, <2>2, WantAssumption DEF TakeNew
  <2>4. hand' = [who |-> c, respawn |-> FALSE] /\ entries' = entries \cup {r}
        /\ upd' = IF r \in entries THEN upd ELSE [upd EXCEPT ![r] = Spawned]
    BY <1>8, <2>2 DEF TakeNew
  <2>5. /\ upd' \in [Resources -> Updater]
        /\ \A q \in Resources : upd'[q] = upd[q] \/ upd'[q] = Spawned
    BY <1>1, <2>3, <2>4, FreshUpdaters
  <2>6. LiveTypeOK'
    BY <1>1, <1>8, <2>3, <2>4, <2>5 DEF TakeNew, LiveTypeOK, dbVars
  <2> QED
    BY <1>2, <1>3, <1>8, <2>5, <2>6 DEF TakeNew, dbVars
<1>9. CASE PutInQueue
  <2>1. hand \in [who : Clients, respawn : BOOLEAN]
    BY <1>1, <1>9 DEF PutInQueue, LiveTypeOK
  <2>2. PICK c, r : c = hand.who /\ r = Want[c]
    OBVIOUS
  <2>3. c \in Clients /\ r \in Resources
    BY <2>1, <2>2, WantAssumption
  <2>4. /\ queue' = [queue EXCEPT ![r] = Append(@, c)] /\ hand' = None
        /\ upd' = IF hand.respawn THEN [upd EXCEPT ![r] = Spawned] ELSE upd
    BY <1>9, <2>2 DEF PutInQueue
  <2>5. /\ upd' \in [Resources -> Updater]
        /\ \A q \in Resources : upd'[q] = upd[q] \/ upd'[q] = Spawned
    BY <1>1, <2>3, <2>4, FreshUpdaters
  <2>6. queue' \in [Resources -> Seq(Clients)]
    BY <1>1, <2>3, <2>4 DEF LiveTypeOK
  <2>7. LiveTypeOK'
    BY <1>1, <1>9, <2>4, <2>5, <2>6 DEF PutInQueue, LiveTypeOK, dbVars
  <2> QED
    BY <1>2, <1>3, <1>9, <2>5, <2>7 DEF PutInQueue, dbVars
<1>10. ASSUME closing # << >>
       PROVE  /\ Head(closing).res \in Resources
              /\ Head(closing).left \in Clients \cup {None}
              /\ Tail(closing) \in Seq([res : Resources, left : Clients \cup {None}])
  <2>1. closing \in Seq([res : Resources, left : Clients \cup {None}])
    BY <1>1 DEF LiveTypeOK
  <2>2. /\ Head(closing) \in [res : Resources, left : Clients \cup {None}]
        /\ Tail(closing) \in Seq([res : Resources, left : Clients \cup {None}])
    BY <1>10, <2>1, HeadAndTail
  <2> QED
    BY <2>2
<1>11. CASE TakeClose
  <2>1. PICK left, r : left = Head(closing).left /\ r = Head(closing).res
    OBVIOUS
  <2>2. /\ left \in Clients \cup {None} /\ r \in Resources
        /\ closing' \in Seq([res : Resources, left : Clients \cup {None}])
    BY <1>10, <1>11, <2>1 DEF TakeClose
  <2>3. \/ /\ left # None /\ hand' = [who |-> left, respawn |-> TRUE]
           /\ UNCHANGED <<entries, upd>>
        \/ /\ entries' \subseteq entries /\ hand' = hand
           /\ UNCHANGED upd \/ upd' = [upd EXCEPT ![r] = Spawned]
    BY <1>11, <2>1 DEF TakeClose
  <2>4. /\ upd' \in [Resources -> Updater]
        /\ \A q \in Resources : upd'[q] = upd[q] \/ upd'[q] = Spawned
    BY <1>1, <2>2, <2>3, FreshUpdaters
  <2>5. hand' \in [who : Clients, respawn : BOOLEAN] \cup {None} /\ entries' \subseteq Resources
    <3>1. left # None => [who |-> left, respawn |-> TRUE] \in [who : Clients, respawn : BOOLEAN]
      BY <2>2
    <3>2. hand \in [who : Clients, respawn : BOOLEAN] \cup {None} /\ entries \subseteq Resources
      BY <1>1 DEF LiveTypeOK
    <3> QED
      BY <2>3, <3>1, <3>2
  <2>6. LiveTypeOK'
    BY <1>1, <1>11, <2>2, <2>4, <2>5 DEF TakeClose, LiveTypeOK, dbVars
  <2> QED
    BY <1>2, <1>3, <1>11, <2>4, <2>6 DEF TakeClose, dbVars
<1>12. CASE StopServing \/ ConnectorEnds
  <2>1. LiveTypeOK'
    BY <1>1, <1>12 DEF StopServing, ConnectorEnds, LiveTypeOK, dbVars
  <2> QED
    BY <1>2, <1>3, <1>12, <2>1 DEF StopServing, ConnectorEnds, dbVars
<1>13. CASE DropMap
  <2>1. client' \in [Clients -> Connection] /\ PagesHeld'
    BY <1>4, <1>13 DEF DropMap
  <2>2. queue' \in [Resources -> Seq(Clients)]
    <3>1. << >> \in Seq(Clients)
      OBVIOUS
    <3> QED
      BY <1>1, <1>13, <3>1 DEF DropMap, LiveTypeOK
  <2>3. LiveTypeOK'
    BY <1>1, <1>13, <2>1, <2>2 DEF DropMap, LiveTypeOK, dbVars
  <2> QED
    BY <1>2, <1>13, <2>1, <2>3 DEF DropMap, dbVars
<1>14. CASE DrainClose
  <2>1. client' \in [Clients -> Connection] /\ PagesHeld'
    BY <1>4, <1>14 DEF DrainClose
  <2>2. closing' \in Seq([res : Resources, left : Clients \cup {None}])
    BY <1>10, <1>14 DEF DrainClose
  <2>3. LiveTypeOK'
    BY <1>1, <1>14, <2>1, <2>2 DEF DrainClose, LiveTypeOK, dbVars
  <2> QED
    BY <1>2, <1>14, <2>1, <2>3 DEF DrainClose, dbVars
<1>15. ASSUME NEW c \in Clients, Start(c)
       PROVE  TypedInv'
  <2>1. client[c] \in Connection /\ client[c].view \in View
    BY <1>1, <1>15 DEF Start, PagesHeld
  <2>2. PICK e : e = [client[c] EXCEPT !.pc = "live"]
    OBVIOUS
  <2>3. e \in Connection /\ e.view \in View
    BY <2>1, <2>2 DEF Connection
  <2>4. client' = [client EXCEPT ![c] = e]
    BY <1>15, <2>2 DEF Start
  <2>5. client' \in [Clients -> Connection] /\ PagesHeld'
    BY <1>1, <2>3, <2>4 DEF PagesHeld
  <2>6. LiveTypeOK'
    BY <1>1, <1>15, <2>5 DEF Start, LiveTypeOK, dbVars
  <2> QED
    BY <1>2, <1>15, <2>5, <2>6 DEF Start, dbVars
<1>16. ASSUME NEW c \in Clients, Forward(c)
       PROVE  TypedInv'
  <2>1. PICK o, m : o = client[c] /\ m = Head(o.feed)
    OBVIOUS
  <2>2. /\ o \in Connection /\ o.view \in View /\ o.pc = "live" /\ o.feed # << >>
        /\ o.feed \in Seq([changes : Changes, ver : Nat])
    BY <1>1, <1>16, <2>1 DEF Forward, PagesHeld, Connection
  <2>3. /\ m \in [changes : Changes, ver : Nat]
        /\ Tail(o.feed) \in Seq([changes : Changes, ver : Nat])
    BY <2>1, <2>2, HeadAndTail
  <2>4. PICK v, n, rest : v = Applied(o.view, m.changes) /\ n = m.ver /\ rest = Tail(o.feed)
    OBVIOUS
  <2>5. v \in View /\ n \in Nat /\ rest \in Seq([changes : Changes, ver : Nat])
    BY <2>2, <2>3, <2>4, AppliedType
  <2>6. PICK e : e = [o EXCEPT !.view = v, !.ver = n, !.feed = rest]
    OBVIOUS
  <2>7. e \in Connection /\ e.view \in View
    BY <2>2, <2>5, <2>6 DEF Connection
  <2>8. client' = Dropped({c}) \/ client' = [client EXCEPT ![c] = e]
    BY <1>16, <2>1, <2>4, <2>6 DEF Forward
  <2>9. client' \in [Clients -> Connection] /\ PagesHeld'
    BY <1>1, <1>4, <2>7, <2>8 DEF PagesHeld
  <2>10. LiveTypeOK'
    BY <1>1, <1>16, <2>9 DEF Forward, LiveTypeOK, dbVars
  <2> QED
    BY <1>2, <1>16, <2>9, <2>10 DEF Forward, dbVars
<1>17. ASSUME NEW c \in Clients, FeedEnds(c) \/ HangUp(c)
       PROVE  TypedInv'
  <2>1. client' \in [Clients -> Connection] /\ PagesHeld'
    BY <1>4, <1>17 DEF FeedEnds, HangUp
  <2>2. LiveTypeOK'
    BY <1>1, <1>17, <2>1 DEF FeedEnds, HangUp, LiveTypeOK, dbVars
  <2> QED
    BY <1>2, <1>17, <2>1, <2>2 DEF FeedEnds, HangUp, dbVars
<1>18. CASE Ended \/ UNCHANGED liveVars
  <2>1. LiveTypeOK'
    BY <1>1, <1>18 DEF Ended, liveVars, LiveTypeOK
  <2> QED
    BY <1>2, <1>3, <1>18, <2>1 DEF Ended, liveVars
<1> QED
  BY <1>5, <1>6, <1>7, <1>8, <1>9, <1>11, <1>12, <1>13, <1>14, <1>15, <1>16, <1>17, <1>18
  DEF LiveNext, Connector

LEMMA TypedStep == TypedInv /\ [LiveNext]_liveVars => TypedInv'
BY UpdaterStepTyped, OtherStepTyped

LEMMA TypedInit == LiveInit => TypedInv
<1> SUFFICES ASSUME LiveInit
             PROVE  TypedInv
  OBVIOUS
<1>1. PICK v \in [Resources -> View] : history = <<v>>
  BY DEF LiveInit
<1>2. history \in Seq([Resources -> View]) /\ Now = 1
  BY <1>1 DEF Now
<1>3. /\ upd \in [Resources -> Updater] /\ client \in [Clients -> Connection]
      /\ \A r \in Resources : HeldBy(upd[r])
      /\ \A c \in Clients : client[c].pc = "idle"
  BY FreshUpdaters, WithFields, AtType DEF LiveInit, HeldBy
<1>4. LiveTypeOK
  <2>1. queue \in [Resources -> Seq(Clients)] /\ inbox \in Seq(Clients)
        /\ closing \in Seq([res : Resources, left : Clients \cup {None}])
    BY DEF LiveInit
  <2>2. fails \in 0 .. MaxFails
    BY CapsAssumption DEF LiveInit
  <2> QED
    BY <1>2, <1>3, <2>1, <2>2 DEF LiveInit, LiveTypeOK
<1> QED
  BY <1>2, <1>3, <1>4 DEF TypedInv, HeldInv, PagesHeld

-----------------------------------------------------------------------------
(***************************************************************************)
(* Where an updater's step can leave it.                                   *)
(***************************************************************************)

LEMMA SameDiff ==
  ASSUME NEW vn \in View, NEW vo \in View, DiffOf(vn, vo) = NoChange
  PROVE  vn = vo
<1>1. /\ {<<k, vn[k]>> : k \in DOMAIN vn \ DOMAIN vo} = {}
      /\ {<<k, vn[k]>> : k \in {x \in DOMAIN vn \cap DOMAIN vo : vn[x] # vo[x]}} = {}
      /\ DOMAIN vo \ DOMAIN vn = {}
  BY DEF DiffOf, NoChange
<1>2. DOMAIN vn = DOMAIN vo /\ \A k \in DOMAIN vn : vn[k] = vo[k]
  BY <1>1
<1>3. vn = [k \in DOMAIN vn |-> vn[k]] /\ vo = [k \in DOMAIN vo |-> vo[k]]
  BY DEF View
<1> QED
  BY <1>2, <1>3

LEMMA UpdaterMoves ==
  ASSUME TypedInv, NEW r \in Resources, UpdaterStep(r) \/ ReadFails(r), ~ SendClose(r)
  PROVE  /\ \A q \in Resources \ {r} : upd'[q] = upd[q]
         /\ upd[r].pc # "none" /\ upd'[r].pc # "none"
         /\ \/ queue' = queue /\ upd'[r].who \in {upd[r].who, None}
            \/ /\ queue[r] # << >> /\ queue' = [queue EXCEPT ![r] = Tail(@)]
               /\ upd'[r].who \in {upd[r].who, Head(queue[r])}
         /\ UNCHANGED <<history, announced, serving, conn, hand, entries, closing>>
         /\ FreshOf(r, upd[r]) => FreshOf(r, upd'[r])
<1> DEFINE u == upd[r]
<1>1. TypedInv' /\ LiveTypeOK /\ HeldBy(u)
  BY UpdaterStepTyped DEF TypedInv, HeldInv
<1>2. UNCHANGED <<history, announced, serving, conn, hand, entries, closing>>
  BY DEF UpdaterStep, TakeFirst, Read, ReadFails, ServeFirst, TakeUpdate, FellBehind,
         Publish, WakeUp, Accept, NobodyLeft, QueueShut, dbVars
<1>3. u.pc # "none"
  BY DEF UpdaterStep, TakeFirst, Read, ReadFails, ServeFirst, TakeUpdate, FellBehind,
         Publish, WakeUp, Accept, NobodyLeft, QueueShut
\* Enough: an updater record with the right fields.
<1>4. ASSUME NEW pc, NEW who, NEW subs, NEW cur, NEW res, NEW note,
             Becomes(r, With(pc, who, subs, cur, res, note)), pc # "none",
             \/ queue' = queue /\ who \in {u.who, None}
             \/ /\ queue[r] # << >> /\ queue' = [queue EXCEPT ![r] = Tail(@)]
                /\ who \in {u.who, Head(queue[r])},
             FreshOf(r, u) => FreshOf(r, With(pc, who, subs, cur, res, note))
      PROVE  /\ \A q \in Resources \ {r} : upd'[q] = upd[q]
             /\ upd[r].pc # "none" /\ upd'[r].pc # "none"
             /\ \/ queue' = queue /\ upd'[r].who \in {upd[r].who, None}
                \/ /\ queue[r] # << >> /\ queue' = [queue EXCEPT ![r] = Tail(@)]
                   /\ upd'[r].who \in {upd[r].who, Head(queue[r])}
             /\ UNCHANGED <<history, announced, serving, conn, hand, entries, closing>>
             /\ FreshOf(r, upd[r]) => FreshOf(r, upd'[r])
  <2>1. /\ upd'[r] = With(pc, who, subs, cur, res, note)
        /\ \A q \in Resources \ {r} : upd'[q] = upd[q]
    BY <1>1, <1>4 DEF Becomes, LiveTypeOK
  <2>2. upd'[r].pc = pc /\ upd'[r].who = who
    BY <2>1, WithFields
  <2> QED
    BY <1>2, <1>3, <1>4, <2>1, <2>2
<1>5. CASE TakeFirst(r)
  <2>1. Becomes(r, With("asking", Head(queue[r]), u.subs, u.cur, u.res, u.note))
    BY <1>1, <1>5, TakeFirstEffect
  <2>2. FreshOf(r, With("asking", Head(queue[r]), u.subs, u.cur, u.res, u.note))
    BY WithFields DEF FreshOf
  <2>3. queue[r] # << >> /\ queue' = [queue EXCEPT ![r] = Tail(@)]
    BY <1>5 DEF TakeFirst
  <2> QED
    BY <1>4, <2>1, <2>2, <2>3
<1>6. CASE Read(r)
  <2>1. PICK pc : pc = IF u.pc = "asking" THEN "answered" ELSE "reread"
    OBVIOUS
  <2>2. Becomes(r, With(pc, u.who, u.subs, u.cur, Now, u.note))
    BY <1>1, <1>6, <2>1, ReadEffect
  <2>3. FreshOf(r, With(pc, u.who, u.subs, u.cur, Now, u.note))
    BY <2>1, WithFields DEF FreshOf
  <2>4. queue' = queue /\ pc # "none"
    BY <1>6, <2>1 DEF Read
  <2> QED
    BY <1>4, <2>2, <2>3, <2>4
<1>7. CASE ReadFails(r)
  <2>1. Becomes(r, With("closing", None, u.subs, u.cur, u.res, u.note))
    BY <1>1, <1>7, ReadFailsEffect
  <2>2. FreshOf(r, With("closing", None, u.subs, u.cur, u.res, u.note))
    BY WithFields DEF FreshOf
  <2>3. queue' = queue
    BY <1>7 DEF ReadFails
  <2> QED
    BY <1>4, <2>1, <2>2, <2>3
<1>8. CASE ServeFirst(r)
  <2>1. Becomes(r, With("loop", None, {u.who}, u.res, u.res, u.note))
    BY <1>1, <1>8, ServeFirstEffect
  <2>2. FreshOf(r, u) => FreshOf(r, With("loop", None, {u.who}, u.res, u.res, u.note))
    BY <1>8, WithFields DEF FreshOf, ServeFirst
  <2>3. queue' = queue
    BY <1>8 DEF ServeFirst
  <2> QED
    BY <1>4, <2>1, <2>2, <2>3
<1>9. CASE TakeUpdate(r)
  <2>1. Becomes(r, With("rereading", u.who, u.subs, u.cur, u.res, 0))
    BY <1>1, <1>9, TakeUpdateEffect
  <2>2. FreshOf(r, With("rereading", u.who, u.subs, u.cur, u.res, 0))
    BY WithFields DEF FreshOf
  <2>3. queue' = queue
    BY <1>9 DEF TakeUpdate
  <2> QED
    BY <1>4, <2>1, <2>2, <2>3
<1>10. CASE FellBehind(r) \/ NobodyLeft(r) \/ QueueShut(r) \/ WakeUp(r)
  <2>1. PICK pc \in {"loop", "draining", "closing"} :
          Goto(r, pc) /\ (pc = "loop" => u.pc = "sleeping")
    BY <1>10 DEF FellBehind, NobodyLeft, QueueShut, WakeUp
  <2>2. Becomes(r, With(pc, u.who, u.subs, u.cur, u.res, u.note))
    BY <1>1, <2>1, GotoEffect
  <2>3. FreshOf(r, u) => FreshOf(r, With(pc, u.who, u.subs, u.cur, u.res, u.note))
    BY <2>1, WithFields DEF FreshOf
  <2>4. queue' = queue
    BY <1>10 DEF FellBehind, NobodyLeft, QueueShut, WakeUp
  <2> QED
    BY <1>4, <2>1, <2>2, <2>3, <2>4
<1>11. CASE Publish(r)
  <2>1. PICK d : d = DiffOf(Result(r, u.res), Result(r, u.cur))
    OBVIOUS
  <2>2. PICK cur : cur = IF d = NoChange THEN u.cur ELSE u.res
    OBVIOUS
  <2>3. Becomes(r, With("sleeping", u.who, u.subs, cur, u.res, u.note))
    BY <1>1, <1>11, <2>1, <2>2, PublishEffect
  <2>4. Result(r, cur) = Result(r, u.res)
    <3>1. u.res \in 1 .. Now /\ u.cur \in 1 .. Now
      BY <1>1, <1>11 DEF HeldBy, Publish
    <3>2. Result(r, u.res) \in View /\ Result(r, u.cur) \in View
      BY <1>1, <3>1, ResultType
    <3> QED
      BY <2>1, <2>2, <3>2, SameDiff
  <2>5. FreshOf(r, u) => FreshOf(r, With("sleeping", u.who, u.subs, cur, u.res, u.note))
    BY <1>11, <2>4, WithFields DEF FreshOf, Publish
  <2>6. queue' = queue
    BY <1>11 DEF Publish
  <2> QED
    BY <1>4, <2>3, <2>5, <2>6
<1>12. CASE Accept(r)
  <2>1. PICK c : c = Head(queue[r])
    OBVIOUS
  <2>2. queue[r] # << >> /\ queue' = [queue EXCEPT ![r] = Tail(@)] /\ u.pc = "loop"
    BY <1>12 DEF Accept
  <2>3. \/ Becomes(r, With("loop", u.who, u.subs \cup {c}, u.cur, u.res, u.note))
        \/ Becomes(r, With("closing", c, u.subs, u.cur, u.res, u.note))
    BY <1>1, <1>12, <2>1, AcceptEffect
  <2>4. FreshOf(r, u) => FreshOf(r, With("loop", u.who, u.subs \cup {c}, u.cur, u.res, u.note))
    BY <2>2, WithFields DEF FreshOf
  <2>5. FreshOf(r, With("closing", c, u.subs, u.cur, u.res, u.note))
    BY WithFields DEF FreshOf
  <2>6. CASE Becomes(r, With("loop", u.who, u.subs \cup {c}, u.cur, u.res, u.note))
    BY <1>4, <2>1, <2>2, <2>4, <2>6
  <2>7. CASE Becomes(r, With("closing", c, u.subs, u.cur, u.res, u.note))
    BY <1>4, <2>1, <2>2, <2>5, <2>7
  <2> QED
    BY <2>3, <2>6, <2>7
<1> QED
  BY <1>5, <1>6, <1>7, <1>8, <1>9, <1>10, <1>11, <1>12 DEF UpdaterStep

-----------------------------------------------------------------------------
(***************************************************************************)
(* The other invariants.                                                   *)
(***************************************************************************)

LEMMA StoppedStep ==
  ASSUME TypedInv, StoppedInv, [LiveNext]_liveVars
  PROVE  StoppedInv'
<1>1. ASSUME NEW r \in Resources, UpdaterStep(r) \/ ReadFails(r)
      PROVE  UNCHANGED <<conn, serving>>
  BY <1>1, UpdaterMoves DEF SendClose
<1>2. CASE DropMap
  BY <1>2 DEF DropMap, StoppedInv
<1>3. CASE StopServing
  BY <1>3 DEF StopServing, StoppedInv
<1>4. CASE ConnectorEnds
  BY <1>4 DEF ConnectorEnds, StoppedInv
<1>5. CASE UNCHANGED <<conn, serving>>
  BY <1>5 DEF StoppedInv
<1>6. CASE Commit \/ Announce \/ Ended \/ TakeNew \/ PutInQueue \/ TakeClose \/ DrainClose
           \/ UNCHANGED liveVars
           \/ \E c \in Clients : Open(c) \/ Start(c) \/ Forward(c) \/ FeedEnds(c) \/ HangUp(c)
  BY <1>5, <1>6 DEF Commit, Announce, Ended, TakeNew, PutInQueue, TakeClose, DrainClose,
                    liveVars, Open, Start, Forward, FeedEnds, HangUp
<1> QED
  BY <1>1, <1>2, <1>3, <1>4, <1>5, <1>6 DEF LiveNext, Connector

\* What the close messages are after one was added or the first taken.
LEMMA CloseAdded ==
  ASSUME TypedInv, NEW r \in Resources, NEW left,
         closing' = Append(closing, [res |-> r, left |-> left])
  PROVE  /\ DOMAIN closing' = DOMAIN closing \cup {Len(closing) + 1}
         /\ Len(closing) + 1 \notin DOMAIN closing
         /\ \A n \in DOMAIN closing : closing'[n] = closing[n]
         /\ closing'[Len(closing) + 1].res = r /\ closing'[Len(closing) + 1].left = left
<1>1. PICK S, m : m = [res |-> r, left |-> left]
                  /\ S = [res : Resources, left : Clients \cup {None}]
  OBVIOUS
<1>2. closing \in Seq(S) /\ closing' = Append(closing, m) /\ m.res = r /\ m.left = left
  BY <1>1 DEF TypedInv, LiveTypeOK
<1> QED
  BY <1>2

LEMMA CloseTaken ==
  ASSUME TypedInv, closing # << >>, closing' = Tail(closing)
  PROVE  /\ 1 \in DOMAIN closing /\ Head(closing) = closing[1]
         /\ \A n : n \in DOMAIN closing' <=> n \in Nat /\ n >= 1 /\ n + 1 \in DOMAIN closing
         /\ \A n \in DOMAIN closing' : closing'[n] = closing[n + 1]
         /\ \A n \in DOMAIN closing : n \in Nat /\ n >= 1
<1>1. PICK S : S = [res : Resources, left : Clients \cup {None}]
  OBVIOUS
<1>2. closing \in Seq(S)
  BY <1>1 DEF TypedInv, LiveTypeOK
<1> QED
  BY <1>2

LEMMA QueueTaken ==
  ASSUME TypedInv, NEW r \in Resources, queue[r] # << >>,
         queue' = [queue EXCEPT ![r] = Tail(@)]
  PROVE  /\ 1 \in DOMAIN queue[r] /\ Head(queue[r]) = queue[r][1]
         /\ \A n \in DOMAIN queue'[r] : n + 1 \in DOMAIN queue[r]
                                        /\ queue'[r][n] = queue[r][n + 1]
         /\ \A q \in Resources \ {r} : queue'[q] = queue[q]
<1>1. queue \in [Resources -> Seq(Clients)]
  BY DEF TypedInv, LiveTypeOK
<1>2. PICK s : s = queue[r]
  OBVIOUS
<1>3. s \in Seq(Clients) /\ s # << >> /\ queue'[r] = Tail(s)
  BY <1>1, <1>2
<1>4. /\ 1 \in DOMAIN s /\ Head(s) = s[1]
      /\ \A n \in DOMAIN Tail(s) : n + 1 \in DOMAIN s /\ Tail(s)[n] = s[n + 1]
  BY <1>3
<1> QED
  BY <1>1, <1>2, <1>3, <1>4

LEMMA PlacesStep ==
  ASSUME TypedInv, PlacesInv, [LiveNext]_liveVars
  PROVE  PlacesInv'
<1>1. /\ upd \in [Resources -> Updater] /\ queue \in [Resources -> Seq(Clients)]
      /\ Spawned.who = None /\ NoUpdater.who = None
  BY FreshUpdaters, WithFields DEF TypedInv, LiveTypeOK
<1>2. ASSUME NEW r \in Resources, UpdaterStep(r) \/ ReadFails(r), ~ SendClose(r)
      PROVE  PlacesInv'
  <2>1. /\ \A q \in Resources \ {r} : upd'[q] = upd[q]
        /\ \/ queue' = queue /\ upd'[r].who \in {upd[r].who, None}
           \/ /\ queue[r] # << >> /\ queue' = [queue EXCEPT ![r] = Tail(@)]
              /\ upd'[r].who \in {upd[r].who, Head(queue[r])}
        /\ UNCHANGED closing
    BY <1>2, UpdaterMoves
  <2>2. CASE queue' = queue /\ upd'[r].who \in {upd[r].who, None}
    BY <2>1, <2>2 DEF PlacesInv
  <2>3. CASE /\ queue[r] # << >> /\ queue' = [queue EXCEPT ![r] = Tail(@)]
             /\ upd'[r].who \in {upd[r].who, Head(queue[r])}
    <3>1. /\ 1 \in DOMAIN queue[r] /\ Head(queue[r]) = queue[r][1]
          /\ \A n \in DOMAIN queue'[r] : n + 1 \in DOMAIN queue[r]
                                         /\ queue'[r][n] = queue[r][n + 1]
          /\ \A q \in Resources \ {r} : queue'[q] = queue[q]
      BY <2>3, QueueTaken
    <3> QED
      BY <2>1, <2>3, <3>1 DEF PlacesInv
  <2> QED
    BY <2>1, <2>2, <2>3
<1>3. ASSUME NEW r \in Resources, SendClose(r)
      PROVE  PlacesInv'
  <2>1. /\ upd' = [upd EXCEPT ![r] = NoUpdater]
        /\ closing' = Append(closing, [res |-> r, left |-> upd[r].who])
        /\ queue' = queue \/ queue' = [queue EXCEPT ![r] = << >>]
    BY <1>3 DEF SendClose
  <2>2. /\ DOMAIN closing' = DOMAIN closing \cup {Len(closing) + 1}
        /\ \A n \in DOMAIN closing : closing'[n] = closing[n]
        /\ closing'[Len(closing) + 1].res = r
        /\ closing'[Len(closing) + 1].left = upd[r].who
    BY <2>1, CloseAdded
  <2>3. \A q \in Resources : queue'[q] = queue[q] \/ queue'[q] = << >>
    BY <1>1, <2>1
  <2>4. DOMAIN << >> = {}
    OBVIOUS
  <2>5. \A q \in Resources : \A n \in DOMAIN queue'[q] :
          n \in DOMAIN queue[q] /\ queue'[q][n] = queue[q][n]
    BY <2>3, <2>4
  <2>6. \A q \in Resources : upd'[q].who # None => upd'[q].who = upd[q].who
    BY <1>1, <2>1
  <2>7. \A n \in DOMAIN closing' :
          closing'[n].left # None => Want[closing'[n].left] = closing'[n].res
    BY <2>2 DEF PlacesInv
  <2> QED
    BY <2>5, <2>6, <2>7 DEF PlacesInv
<1>4. CASE TakeClose \/ DrainClose
  <2>1. /\ closing # << >> /\ closing' = Tail(closing) /\ UNCHANGED queue
        /\ \/ UNCHANGED upd
           \/ upd' = [upd EXCEPT ![Head(closing).res] = Spawned]
    BY <1>4 DEF TakeClose, DrainClose
  <2>2. \A n \in DOMAIN closing' : n + 1 \in DOMAIN closing /\ closing'[n] = closing[n + 1]
    BY <2>1, CloseTaken
  <2>3. \A q \in Resources : upd'[q].who # None => upd'[q].who = upd[q].who
    BY <1>1, <2>1
  <2>4. \A n \in DOMAIN closing' :
          closing'[n].left # None => Want[closing'[n].left] = closing'[n].res
    BY <2>2 DEF PlacesInv
  <2>5. \A q \in Resources : \A n \in DOMAIN queue'[q] : Want[queue'[q][n]] = q
    BY <2>1 DEF PlacesInv
  <2>6. \A q \in Resources : upd'[q].who # None => Want[upd'[q].who] = q
    BY <2>3 DEF PlacesInv
  <2> QED
    BY <2>4, <2>5, <2>6 DEF PlacesInv
<1>5. CASE TakeNew
  BY <1>1, <1>5 DEF TakeNew, PlacesInv
<1>6. CASE PutInQueue
  <2>1. PICK c, r : c = hand.who /\ r = Want[c]
    OBVIOUS
  <2>2. hand \in [who : Clients, respawn : BOOLEAN]
    BY <1>6 DEF PutInQueue, TypedInv, LiveTypeOK
  <2>3. c \in Clients /\ r \in Resources
    BY <2>1, <2>2, WantAssumption
  <2>4. /\ queue' = [queue EXCEPT ![r] = Append(@, c)]
        /\ upd' = IF hand.respawn THEN [upd EXCEPT ![r] = Spawned] ELSE upd
        /\ UNCHANGED closing
    BY <1>6, <2>1 DEF PutInQueue
  <2>5. \A q \in Resources : \A n \in DOMAIN queue'[q] :
          \/ n \in DOMAIN queue[q] /\ queue'[q][n] = queue[q][n]
          \/ q = r /\ queue'[q][n] = c
    <3>1. queue[r] \in Seq(Clients) /\ queue'[r] = Append(queue[r], c)
      BY <1>1, <2>3, <2>4
    <3>2. \A n \in DOMAIN queue'[r] :
            \/ n \in DOMAIN queue[r] /\ queue'[r][n] = queue[r][n]
            \/ queue'[r][n] = c
      BY <2>3, <3>1
    <3> QED
      BY <1>1, <2>3, <2>4, <3>2
  <2> QED
    BY <1>1, <2>1, <2>4, <2>5 DEF PlacesInv
<1>7. CASE DropMap
  <2>1. \A q \in Resources : \A n \in DOMAIN queue'[q] :
          n \in DOMAIN queue[q] /\ queue'[q][n] = queue[q][n]
    BY <1>1, <1>7 DEF DropMap
  <2> QED
    BY <1>7, <2>1 DEF DropMap, PlacesInv
<1>8. CASE Announce
  <2>1. \A q \in Resources : upd'[q].who = upd[q].who
    BY <1>1, <1>8 DEF Announce, Updater
  <2> QED
    BY <1>8, <2>1 DEF Announce, PlacesInv
<1>9. CASE UNCHANGED <<queue, upd, closing>>
  BY <1>9 DEF PlacesInv
<1>10. CASE Commit \/ StopServing \/ Ended \/ ConnectorEnds \/ UNCHANGED liveVars
            \/ \E c \in Clients : Open(c) \/ Start(c) \/ Forward(c) \/ FeedEnds(c) \/ HangUp(c)
  BY <1>9, <1>10 DEF Commit, StopServing, Ended, ConnectorEnds, liveVars, Open, Start,
                     Forward, FeedEnds, HangUp
<1> QED
  BY <1>2, <1>3, <1>4, <1>5, <1>6, <1>7, <1>8, <1>10 DEF LiveNext, Connector

LEMMA FreshStep ==
  ASSUME TypedInv, FreshInv, [LiveNext]_liveVars
  PROVE  FreshInv'
<1>1. /\ upd \in [Resources -> Updater]
      /\ Spawned.pc = "first" /\ NoUpdater.pc = "none"
  BY FreshUpdaters, WithFields DEF TypedInv, LiveTypeOK
\* Enough: no commit or announcement, and updaters are as they were or rest.
<1>2. ASSUME UNCHANGED <<history, announced>>,
             \A r \in Resources : \/ upd'[r] = upd[r]
                                  \/ upd'[r].pc \in {"none", "first"}
                                  \/ FreshOf(r, upd[r]) => FreshOf(r, upd'[r])
      PROVE  FreshInv'
  <2>1. \A r \in Resources : FreshOf(r, upd'[r])
    BY <1>2 DEF FreshInv, FreshOf
  <2> QED
    BY <1>2, <2>1 DEF FreshInv, FreshOf, Now, Result
<1>3. ASSUME NEW r \in Resources, UpdaterStep(r) \/ ReadFails(r), ~ SendClose(r)
      PROVE  FreshInv'
  BY <1>2, <1>3, UpdaterMoves
<1>4. ASSUME NEW r \in Resources, SendClose(r)
      PROVE  FreshInv'
  BY <1>1, <1>2, <1>4 DEF SendClose, dbVars
<1>5. CASE TakeNew \/ PutInQueue \/ TakeClose
  BY <1>1, <1>2, <1>5 DEF TakeNew, PutInQueue, TakeClose, dbVars
<1>6. CASE Commit
  BY <1>6 DEF Commit, FreshInv, FreshOf
<1>7. CASE Announce
  <2>1. \A r \in Resources : upd'[r].pc = "none" \/ upd'[r].note # 0
    <3> SUFFICES ASSUME NEW r \in Resources
                 PROVE  upd'[r].pc = "none" \/ upd'[r].note # 0
      OBVIOUS
    <3>1. PICK u : u = upd[r]
      OBVIOUS
    <3>2. u \in Updater /\ u.note \in Nat
      BY <1>1, <3>1, UpdaterType
    <3>3. [u EXCEPT !.note = u.note + 1].note # 0
      BY <3>2 DEF Updater
    <3> QED
      BY <1>7, <3>1, <3>3 DEF Announce
  <2> QED
    BY <2>1 DEF FreshInv, FreshOf
<1>8. CASE StopServing \/ Ended \/ DropMap \/ DrainClose \/ ConnectorEnds \/ UNCHANGED liveVars
           \/ \E c \in Clients : Open(c) \/ Start(c) \/ Forward(c) \/ FeedEnds(c) \/ HangUp(c)
  BY <1>2, <1>8 DEF StopServing, Ended, DropMap, DrainClose, ConnectorEnds, liveVars, Open,
                    Start, Forward, FeedEnds, HangUp, dbVars
<1> QED
  BY <1>3, <1>4, <1>5, <1>6, <1>7, <1>8 DEF LiveNext, Connector

LEMMA CloseMsgsAdded ==
  ASSUME TypedInv, NEW r \in Resources, NEW left,
         closing' = Append(closing, [res |-> r, left |-> left])
  PROVE  /\ CloseMsgs(r) = {} => CloseMsgs(r)' = {Len(closing) + 1}
         /\ \A q \in Resources \ {r} : CloseMsgs(q)' = CloseMsgs(q)
<1>1. PICK new : new = Len(closing) + 1
  OBVIOUS
<1>2. /\ DOMAIN closing' = DOMAIN closing \cup {new} /\ new \notin DOMAIN closing
      /\ \A n \in DOMAIN closing : closing'[n] = closing[n]
      /\ closing'[new].res = r
  BY <1>1, CloseAdded
<1>3. CloseMsgs(r) = {} => CloseMsgs(r)' = {new}
  BY <1>2 DEF CloseMsgs
<1>4. \A q \in Resources \ {r} : CloseMsgs(q)' = CloseMsgs(q)
  BY <1>2 DEF CloseMsgs
<1> QED
  BY <1>1, <1>3, <1>4

LEMMA CloseMsgsTaken ==
  ASSUME TypedInv, closing # << >>, closing' = Tail(closing)
  PROVE  \A q \in Resources :
           /\ Head(closing).res = q => 1 \in CloseMsgs(q)
           /\ CloseMsgs(q) = {1} => CloseMsgs(q)' = {}
           /\ CloseMsgs(q) = {} => CloseMsgs(q)' = {}
           /\ Head(closing).res # q /\ (\E n : CloseMsgs(q) = {n}) =>
                \E n : CloseMsgs(q)' = {n}
<1> SUFFICES ASSUME NEW q \in Resources
             PROVE  /\ Head(closing).res = q => 1 \in CloseMsgs(q)
                    /\ CloseMsgs(q) = {1} => CloseMsgs(q)' = {}
                    /\ CloseMsgs(q) = {} => CloseMsgs(q)' = {}
                    /\ Head(closing).res # q /\ (\E n : CloseMsgs(q) = {n}) =>
                         \E n : CloseMsgs(q)' = {n}
  OBVIOUS
<1>1. /\ 1 \in DOMAIN closing /\ Head(closing) = closing[1]
      /\ \A n : n \in DOMAIN closing' <=> n \in Nat /\ n >= 1 /\ n + 1 \in DOMAIN closing
      /\ \A n \in DOMAIN closing' : closing'[n] = closing[n + 1]
      /\ \A n \in DOMAIN closing : n \in Nat /\ n >= 1
  BY CloseTaken
<1>2. \A n : n \in CloseMsgs(q)' <=> n \in Nat /\ n >= 1 /\ n + 1 \in CloseMsgs(q)
  BY <1>1 DEF CloseMsgs
<1>3. Head(closing).res = q => 1 \in CloseMsgs(q)
  BY <1>1 DEF CloseMsgs
<1>4. (CloseMsgs(q) = {1} => CloseMsgs(q)' = {}) /\ (CloseMsgs(q) = {} => CloseMsgs(q)' = {})
  BY <1>2
<1>5. ASSUME Head(closing).res # q, NEW n, CloseMsgs(q) = {n}
      PROVE  \E m : CloseMsgs(q)' = {m}
  <2>1. n \in Nat /\ n >= 1 /\ n # 1
    BY <1>1, <1>5 DEF CloseMsgs
  <2>2. PICK m : m = n - 1
    OBVIOUS
  <2>3. m \in Nat /\ m >= 1 /\ m + 1 = n
    BY <2>1, <2>2
  <2>4. \A k : k \in CloseMsgs(q)' <=> k = m
    BY <1>2, <1>5, <2>3
  <2> QED
    BY <2>4
<1> QED
  BY <1>3, <1>4, <1>5

LEMMA EntriesStep ==
  ASSUME TypedInv, PlacesInv, EntriesInv, [LiveNext]_liveVars
  PROVE  EntriesInv'
<1>1. /\ upd \in [Resources -> Updater]
      /\ Spawned.pc = "first" /\ NoUpdater.pc = "none"
  BY FreshUpdaters, WithFields DEF TypedInv, LiveTypeOK
\* Enough: what a resource's entry depends on has not changed.
<1>2. ASSUME UNCHANGED <<entries, closing, hand>>, conn' = "loop" => conn = "loop",
             \A q \in Resources : upd'[q].pc = "none" <=> upd[q].pc = "none"
      PROVE  EntriesInv'
  BY <1>2 DEF EntriesInv, EntryOf, CloseMsgs, Respawning
<1>3. ASSUME NEW r \in Resources, UpdaterStep(r) \/ ReadFails(r), ~ SendClose(r)
      PROVE  EntriesInv'
  BY <1>2, <1>3, UpdaterMoves
<1>4. ASSUME NEW r \in Resources, SendClose(r)
      PROVE  EntriesInv'
  <2>1. /\ upd' = [upd EXCEPT ![r] = NoUpdater] /\ upd[r].pc = "closing"
        /\ closing' = Append(closing, [res |-> r, left |-> upd[r].who])
        /\ UNCHANGED <<conn, entries, hand>>
    BY <1>4 DEF SendClose
  <2>2. /\ CloseMsgs(r) = {} => CloseMsgs(r)' = {Len(closing) + 1}
        /\ \A q \in Resources \ {r} : CloseMsgs(q)' = CloseMsgs(q)
    BY <2>1, CloseMsgsAdded
  <2>3. \A q \in Resources : Respawning(q)' <=> Respawning(q)
    BY <2>1 DEF Respawning
  <2>4. ASSUME EntryOf(r)
        PROVE  EntryOf(r)'
    <3>1. r \in entries /\ CloseMsgs(r) = {} /\ ~ Respawning(r)
      BY <2>1, <2>4 DEF EntryOf
    <3> QED
      BY <1>1, <2>1, <2>2, <2>3, <3>1 DEF EntryOf
  <2>5. \A q \in Resources \ {r} : EntryOf(q) => EntryOf(q)'
    BY <1>1, <2>1, <2>2, <2>3 DEF EntryOf
  <2> QED
    BY <2>1, <2>4, <2>5 DEF EntriesInv
<1>5. CASE TakeClose
  <2>1. PICK m, r : m = Head(closing) /\ r = m.res
    OBVIOUS
  <2>2. /\ conn = "loop" /\ conn' = "loop" /\ hand = None
        /\ closing # << >> /\ closing' = Tail(closing)
        /\ \/ /\ m.left # None
              /\ hand' = [who |-> m.left, respawn |-> TRUE]
              /\ UNCHANGED <<entries, upd>>
           \/ /\ m.left = None /\ entries' = entries \ {r}
              /\ UNCHANGED <<upd, hand>>
           \/ /\ m.left = None /\ upd' = [upd EXCEPT ![r] = Spawned]
              /\ UNCHANGED <<entries, hand>>
    BY <1>5, <2>1 DEF TakeClose
  <2>3. /\ 1 \in DOMAIN closing /\ m = closing[1] /\ r \in Resources
        /\ m.left # None => m.left \in Clients /\ Want[m.left] = r
    <3>1. 1 \in DOMAIN closing /\ m = closing[1]
      BY <2>1, <2>2, CloseTaken
    <3>2. m \in [res : Resources, left : Clients \cup {None}]
      <4>1. PICK S : S = [res : Resources, left : Clients \cup {None}]
        OBVIOUS
      <4>2. closing \in Seq(S)
        BY <4>1 DEF TypedInv, LiveTypeOK
      <4>3. closing[1] \in S
        BY <3>1, <4>2
      <4> QED
        BY <3>1, <4>1, <4>3
    <3> QED
      BY <2>1, <3>1, <3>2 DEF PlacesInv
  <2>4. \A q \in Resources : EntryOf(q) /\ ~ Respawning(q)
    BY <2>2 DEF EntriesInv, Respawning
  <2>5. /\ 1 \in CloseMsgs(r)
        /\ \A q \in Resources : /\ CloseMsgs(q) = {1} => CloseMsgs(q)' = {}
                                /\ CloseMsgs(q) = {} => CloseMsgs(q)' = {}
                                /\ q # r /\ (\E n : CloseMsgs(q) = {n}) =>
                                     \E n : CloseMsgs(q)' = {n}
    BY <2>1, <2>2, <2>3, CloseMsgsTaken
  <2>6. r \in entries /\ upd[r].pc = "none" /\ CloseMsgs(r)' = {}
    BY <2>3, <2>4, <2>5 DEF EntryOf
  <2>7. /\ \A q \in Resources \ {r} : ~ Respawning(q)'
        /\ Respawning(r)' <=> m.left # None
    <3>1. CASE m.left = None
      BY <2>2, <3>1 DEF Respawning
    <3>2. CASE m.left # None
      <4>1. PICK h : h = [who |-> m.left, respawn |-> TRUE]
        OBVIOUS
      <4>2. m.left \in Clients /\ Want[m.left] = r
        BY <2>3, <3>2
      <4>3. h.who = m.left /\ h.respawn /\ h \in [who : Clients, respawn : BOOLEAN]
        BY <4>1, <4>2
      <4>4. h # None
        BY <4>3, NobodyAssumption
      <4>5. hand' = h
        BY <2>2, <3>2, <4>1
      <4> QED
        BY <3>2, <4>2, <4>3, <4>4, <4>5 DEF Respawning
    <3> QED
      BY <3>1, <3>2
  <2>8. \A q \in Resources \ {r} : EntryOf(q)'
    <3> SUFFICES ASSUME NEW q \in Resources \ {r}
                 PROVE  EntryOf(q)'
      OBVIOUS
    <3>1. upd'[q] = upd[q] /\ (q \in entries' <=> q \in entries)
      BY <1>1, <2>2, <2>3
    <3> QED
      BY <2>4, <2>5, <2>7, <3>1 DEF EntryOf
  <2>9. EntryOf(r)'
    BY <1>1, <2>2, <2>3, <2>6, <2>7 DEF EntryOf
  <2> QED
    BY <2>8, <2>9 DEF EntriesInv
<1>6. CASE TakeNew
  <2>1. PICK c, r : c = Head(inbox) /\ r = Want[c]
    OBVIOUS
  <2>2. c \in Clients /\ r \in Resources
    <3>1. inbox \in Seq(Clients) /\ inbox # << >>
      BY <1>6 DEF TakeNew, TypedInv, LiveTypeOK
    <3> QED
      BY <2>1, <3>1, WantAssumption
  <2>3. /\ conn = "loop" /\ hand = None /\ UNCHANGED <<conn, closing>>
        /\ hand' = [who |-> c, respawn |-> FALSE]
        /\ entries' = entries \cup {r}
        /\ upd' = IF r \in entries THEN upd ELSE [upd EXCEPT ![r] = Spawned]
    BY <1>6, <2>1 DEF TakeNew
  <2>4. \A q \in Resources : EntryOf(q) /\ ~ Respawning(q) /\ ~ Respawning(q)'
    BY <2>3 DEF EntriesInv, Respawning
  <2>5. \A q \in Resources : CloseMsgs(q)' = CloseMsgs(q)
    BY <2>3 DEF CloseMsgs
  <2>6. \A q \in Resources : EntryOf(q)'
    BY <1>1, <2>2, <2>3, <2>4, <2>5 DEF EntryOf
  <2> QED
    BY <2>6 DEF EntriesInv
<1>7. CASE PutInQueue
  <2>1. PICK r : r = Want[hand.who]
    OBVIOUS
  <2>2. r \in Resources /\ hand.respawn \in BOOLEAN
    <3>1. hand \in [who : Clients, respawn : BOOLEAN]
      BY <1>7 DEF PutInQueue, TypedInv, LiveTypeOK
    <3> QED
      BY <2>1, <3>1, WantAssumption
  <2>3. /\ UNCHANGED <<conn, entries, closing>> /\ hand # None /\ hand' = None
        /\ upd' = IF hand.respawn THEN [upd EXCEPT ![r] = Spawned] ELSE upd
    BY <1>7, <2>1 DEF PutInQueue
  <2>4. \A q \in Resources : CloseMsgs(q)' = CloseMsgs(q) /\ ~ Respawning(q)'
    BY <2>3 DEF CloseMsgs, Respawning
  <2>5. \A q \in Resources : Respawning(q) <=> hand.respawn /\ q = r
    BY <2>1, <2>3 DEF Respawning
  <2>6. \A q \in Resources : EntryOf(q) => EntryOf(q)'
    BY <1>1, <2>2, <2>3, <2>4, <2>5 DEF EntryOf
  <2> QED
    BY <2>3, <2>6 DEF EntriesInv
<1>8. CASE Announce
  <2>1. \A q \in Resources : upd'[q].pc = upd[q].pc
    BY <1>1, <1>8 DEF Announce, Updater
  <2> QED
    BY <1>2, <1>8, <2>1 DEF Announce
<1>9. CASE DropMap
  BY <1>9 DEF DropMap, EntriesInv
<1>10. CASE DrainClose \/ ConnectorEnds
  BY <1>10 DEF DrainClose, ConnectorEnds, EntriesInv
<1>11. CASE Commit \/ StopServing \/ Ended \/ UNCHANGED liveVars
            \/ \E c \in Clients : Open(c) \/ Start(c) \/ Forward(c) \/ FeedEnds(c) \/ HangUp(c)
  BY <1>2, <1>11 DEF Commit, StopServing, Ended, liveVars, Open, Start, Forward, FeedEnds,
                     HangUp
<1> QED
  BY <1>3, <1>4, <1>5, <1>6, <1>7, <1>8, <1>9, <1>10, <1>11 DEF LiveNext, Connector

LEMMA LiveInitial == LiveInit => LiveInv
<1> SUFFICES ASSUME LiveInit
             PROVE  LiveInv
  OBVIOUS
<1>1. LiveTypeOK /\ HeldInv
  BY TypedInit DEF TypedInv
<1>2. NoUpdater.pc = "none" /\ NoUpdater.who = None
  BY FreshUpdaters, WithFields
<1>3. StoppedInv
  BY DEF LiveInit, StoppedInv
<1>4. PlacesInv
  <2>1. DOMAIN << >> = {}
    OBVIOUS
  <2> QED
    BY <1>2, <2>1 DEF LiveInit, PlacesInv
<1>5. EntriesInv
  <2>1. \A r \in Resources : CloseMsgs(r) = {} /\ ~ Respawning(r)
    BY DEF LiveInit, CloseMsgs, Respawning
  <2> QED
    BY <1>2, <2>1 DEF LiveInit, EntriesInv, EntryOf
<1>6. FreshInv
  BY <1>2 DEF LiveInit, FreshInv, FreshOf
<1> QED
  BY <1>1, <1>3, <1>4, <1>5, <1>6 DEF LiveInv

LEMMA LiveStep == LiveInv /\ [LiveNext]_liveVars => LiveInv'
BY TypedStep, StoppedStep, PlacesStep, EntriesStep, FreshStep DEF LiveInv, TypedInv

\* The invariant of the connector, its updaters and their connections.
THEOREM LiveInvariant == LiveSpec => []LiveInv
BY LiveInitial, LiveStep, PTL DEF LiveSpec

\* Every variable of the live queries keeps its type, for any connections,
\* resources, capacities and results.
THEOREM LiveTypeCorrect == LiveSpec => []LiveTypeOK
<1>1. LiveInv => LiveTypeOK
  BY DEF LiveInv
<1> QED
  BY <1>1, LiveInvariant, PTL

\* A resource in the connector's map has one updater, one close message or one
\* connection left over, never two of them and never none.
THEOREM UpdatersCounted == LiveSpec => []OneUpdater
<1>1. LiveInv => OneUpdater
  <2> SUFFICES ASSUME LiveInv, conn = "loop", NEW r \in Resources
               PROVE  (IF upd[r].pc = "none" THEN 0 ELSE 1) + Cardinality(CloseMsgs(r))
                        + InHand(r) = IF r \in entries THEN 1 ELSE 0
    BY DEF OneUpdater
  <2>1. EntryOf(r)
    BY DEF LiveInv, EntriesInv
  <2>2. InHand(r) = IF Respawning(r) THEN 1 ELSE 0
    BY DEF InHand, Respawning
  <2>3. CloseMsgs(r) = {} => Cardinality(CloseMsgs(r)) = 0
    BY FS_EmptySet
  <2>4. (\E n : CloseMsgs(r) = {n}) => Cardinality(CloseMsgs(r)) = 1
    BY FS_Singleton
  <2>5. CASE r \notin entries
    BY <2>1, <2>2, <2>3, <2>5 DEF EntryOf
  <2>6. CASE r \in entries
    <3>1. CASE upd[r].pc # "none" /\ CloseMsgs(r) = {} /\ ~ Respawning(r)
      BY <2>2, <2>3, <2>6, <3>1
    <3>2. CASE upd[r].pc = "none" /\ (\E n : CloseMsgs(r) = {n}) /\ ~ Respawning(r)
      BY <2>2, <2>4, <2>6, <3>2
    <3>3. CASE upd[r].pc = "none" /\ CloseMsgs(r) = {} /\ Respawning(r)
      BY <2>2, <2>3, <2>6, <3>3
    <3> QED
      BY <2>1, <2>6, <3>1, <3>2, <3>3 DEF EntryOf
  <2> QED
    BY <2>5, <2>6
<1> QED
  BY <1>1, LiveInvariant, PTL

\* An updater at rest holds the latest result, however commits, announcements,
\* reads and joining connections are interleaved.
THEOREM CommitsAreSeen == LiveSpec => []NoMissedCommit
<1>1. LiveInv => NoMissedCommit
  BY DEF LiveInv, FreshInv, FreshOf, NoMissedCommit
<1> QED
  BY <1>1, LiveInvariant, PTL

\* A connection that waits is turned away only by a failing read or by the
\* shutdown, in every interleaving of the connector and the updaters.
THEOREM WaitingAreServed == LiveSpec => NoneTurnedAway
<1> DEFINE Turned == \A c \in Clients : client[c].pc = "waiting" /\ client'[c].pc = "closed" =>
                       fails' > fails \/ ~ serving
<1>1. ASSUME LiveInv, [LiveNext]_liveVars
      PROVE  Turned
  <2> SUFFICES ASSUME NEW c \in Clients, client[c].pc = "waiting", client'[c].pc = "closed",
                      serving
               PROVE  fails' > fails
    OBVIOUS
  <2>1. conn = "loop" /\ TypedInv
    BY <1>1 DEF LiveInv, StoppedInv, TypedInv
  <2>2. client \in [Clients -> Connection]
    BY <1>1 DEF LiveInv, LiveTypeOK
  <2>3. At("waiting").pc = "waiting" /\ At("given").pc = "given"
    BY AtType
  <2>4. client'[c] # client[c]
    OBVIOUS
  <2>5. ASSUME NEW r \in Resources, ReadFails(r)
        PROVE  fails' > fails
    BY <1>1, <2>5 DEF ReadFails, LiveInv, LiveTypeOK
  <2>6. ASSUME NEW r \in Resources, NEW k \in Clients, NEW n \in 1 .. Now, Served(r, k, n)
        PROVE  FALSE
    BY <1>1, <2>4, <2>6, ServedType DEF LiveInv
  <2>7. ASSUME NEW r \in Resources, UpdaterStep(r)
        PROVE  fails' > fails
    <3>1. CASE UNCHANGED client
      BY <2>4, <3>1
    <3>2. CASE ServeFirst(r)
      <4>1. HeldBy(upd[r]) /\ upd[r] \in Updater /\ upd[r].pc = "answered"
        BY <1>1, <3>2 DEF ServeFirst, LiveInv, HeldInv, LiveTypeOK
      <4>2. upd[r].who \in Clients /\ upd[r].res \in 1 .. Now
        BY <4>1, UpdaterType DEF HeldBy
      <4> QED
        BY <2>6, <3>2, <4>2 DEF ServeFirst
    <3>3. CASE Accept(r)
      <4>1. HeldBy(upd[r]) /\ upd[r].pc = "loop" /\ queue[r] # << >>
        BY <1>1, <3>3 DEF Accept, LiveInv, HeldInv
      <4>2. Head(queue[r]) \in Clients /\ upd[r].cur \in 1 .. Now
        BY <1>1, <4>1, QueueType DEF HeldBy, LiveInv
      <4> QED
        BY <2>4, <2>6, <3>3, <4>2 DEF Accept
    <3>4. CASE Publish(r)
      <4>1. c \notin Handles(r)
        BY DEF Handles
      <4> QED
        BY <2>4, <3>4, <4>1 DEF Publish
    <3>5. CASE SendClose(r)
      BY <2>1, <2>4, <3>5 DEF SendClose, Unmapped
    <3> QED
      BY <2>7, <3>1, <3>2, <3>3, <3>4, <3>5 DEF UpdaterStep, TakeFirst, Read, TakeUpdate,
         FellBehind, WakeUp, NobodyLeft, QueueShut, Goto
  <2>8. CASE TakeClose \/ DropMap \/ DrainClose
    BY <2>1, <2>4, <2>8 DEF TakeClose, DropMap, DrainClose
  <2>9. ASSUME NEW k \in Clients, Open(k) \/ Start(k) \/ Forward(k) \/ FeedEnds(k) \/ HangUp(k)
        PROVE  FALSE
    <3>1. CASE k = c
      BY <2>9, <3>1 DEF Open, Start, Forward, FeedEnds, HangUp
    <3>2. CASE k # c
      BY <2>2, <2>4, <2>9, <3>2 DEF Open, Start, Forward, FeedEnds, HangUp, Dropped
    <3> QED
      BY <3>1, <3>2
  <2>10. CASE UNCHANGED client
    BY <2>4, <2>10
  <2> QED
    BY <1>1, <2>5, <2>7, <2>8, <2>9, <2>10 DEF LiveNext, Connector, Commit, Announce,
       StopServing, Ended, TakeNew, PutInQueue, ConnectorEnds, liveVars
<1>2. LiveInv /\ [LiveNext]_liveVars => [Turned]_liveVars
  BY <1>1
<1> QED
  BY <1>2, LiveInvariant, PTL DEF NoneTurnedAway, LiveSpec

-----------------------------------------------------------------------------
(***************************************************************************)
(* Waiting connections and open pages.                                     *)
(***************************************************************************)
\* P has one element: counted without numbers.
IsOne(P) == \E n : P = {n}

Positions(s, c) == {n \in DOMAIN s : s[n] = c}
CloseOf(c) == {n \in DOMAIN closing : closing[n].left = c}
HandHas(c) == hand # None /\ hand.who = c

(* The five places a connection can be in, and that one that waits is in   *)
(* one of them, once.                                                      *)
InboxOf(c) == Positions(inbox, c)
QueueOf(c) == Positions(queue[Want[c]], c)
HeldUp(c) == upd[Want[c]].who = c
Waits(c) == client[c].pc = "waiting"

PlaceOf(c) ==
  /\ ~ Waits(c) =>
       InboxOf(c) = {} /\ QueueOf(c) = {} /\ CloseOf(c) = {} /\ ~ HandHas(c) /\ ~ HeldUp(c)
  /\ Waits(c) =>
       \/ /\ IsOne(InboxOf(c))
          /\ QueueOf(c) = {} /\ CloseOf(c) = {} /\ ~ HandHas(c) /\ ~ HeldUp(c)
       \/ /\ IsOne(QueueOf(c))
          /\ InboxOf(c) = {} /\ CloseOf(c) = {} /\ ~ HandHas(c) /\ ~ HeldUp(c)
       \/ /\ IsOne(CloseOf(c))
          /\ InboxOf(c) = {} /\ QueueOf(c) = {} /\ ~ HandHas(c) /\ ~ HeldUp(c)
       \/ /\ HandHas(c)
          /\ InboxOf(c) = {} /\ QueueOf(c) = {} /\ CloseOf(c) = {} /\ ~ HeldUp(c)
       \/ /\ HeldUp(c)
          /\ InboxOf(c) = {} /\ QueueOf(c) = {} /\ CloseOf(c) = {} /\ ~ HandHas(c)

(* Only a connector in its loop has a connection in hand; an updater holds *)
(* one until it is served, or when it closes.                              *)
HolderInv ==
  /\ hand # None => conn = "loop"
  /\ \A r \in Resources : upd[r].who # None => upd[r].pc \in {"asking", "answered", "closing"}

ConnInv == HolderInv /\ \A c \in Clients : PlaceOf(c)

(* A page, the updater it listens to, and the messages between them.       *)
ShownAs(r, page, u, c) ==
  page.pc \in {"given", "live"} =>
    /\ page.ver \in 1 .. Now
    /\ page.view = Result(r, page.ver)
    /\ \A k \in DOMAIN page.feed :
         /\ page.feed[k].ver \in 1 .. Now
         /\ Applied(Result(r, Before(page, k)), page.feed[k].changes)
              = Result(r, page.feed[k].ver)
    /\ c \in u.subs =>
         /\ u.cur \in 1 .. Now
         /\ Result(r, Before(page, Len(page.feed) + 1)) = Result(r, u.cur)

ShownOf(c) == ShownAs(Want[c], client[c], upd[Want[c]], c)

(* An updater's listeners want its resource.                               *)
ShownInv ==
  /\ \A r \in Resources : \A c \in upd[r].subs : Want[c] = r
  /\ \A c \in Clients : ShownOf(c)

-----------------------------------------------------------------------------
(***************************************************************************)
(* Positions in a sequence that grows at its end or loses its head.        *)
(***************************************************************************)
LEMMA PositionsAdded ==
  ASSUME NEW S, NEW s \in Seq(S), NEW x, NEW c
  PROVE  Positions(Append(s, x), c) =
           IF x = c THEN Positions(s, c) \cup {Len(s) + 1} ELSE Positions(s, c)
<1>1. PICK t : t = Append(s, x)
  OBVIOUS
<1>2. /\ DOMAIN t = DOMAIN s \cup {Len(s) + 1} /\ Len(s) + 1 \notin DOMAIN s
      /\ t[Len(s) + 1] = x /\ \A n \in DOMAIN s : t[n] = s[n]
  BY <1>1
<1>3. Positions(t, c) = IF x = c THEN Positions(s, c) \cup {Len(s) + 1} ELSE Positions(s, c)
  BY <1>2 DEF Positions
<1> QED
  BY <1>1, <1>3

\* Q is P one place nearer the head, where x stood.
LEMMA OneShifted ==
  ASSUME NEW P, NEW Q, P \subseteq {n \in Nat : n >= 1},
         \A n : n \in Q <=> n \in Nat /\ n >= 1 /\ n + 1 \in P
  PROVE  /\ P = {} => Q = {}
         /\ IsOne(P) /\ 1 \in P => Q = {}
         /\ IsOne(P) /\ 1 \notin P => IsOne(Q)
<1>1. P = {} => Q = {}
  OBVIOUS
<1>2. ASSUME NEW m, P = {m}
      PROVE  (1 \in P => Q = {}) /\ (1 \notin P => IsOne(Q))
  <2>1. m \in Nat /\ m >= 1
    BY <1>2
  <2>2. CASE m = 1
    <3>1. \A n \in Nat : n >= 1 => n + 1 # 1
      OBVIOUS
    <3> QED
      BY <1>2, <2>2, <3>1
  <2>3. CASE m # 1
    <3>1. m - 1 \in Nat /\ m - 1 >= 1 /\ (m - 1) + 1 = m
      BY <2>1, <2>3
    <3>2. \A n \in Nat : n + 1 = m <=> n = m - 1
      BY <2>1
    <3>3. Q = {m - 1}
      BY <1>2, <3>1, <3>2
    <3> QED
      BY <1>2, <2>3, <3>3 DEF IsOne
  <2> QED
    BY <2>2, <2>3
<1> QED
  BY <1>1, <1>2 DEF IsOne

LEMMA PositionsTaken ==
  ASSUME NEW S, NEW s \in Seq(S), s # << >>, NEW c
  PROVE  LET P == Positions(s, c)
             Q == Positions(Tail(s), c)
         IN /\ P = {} => Q = {} /\ Head(s) # c
            /\ IsOne(P) /\ Head(s) = c => Q = {}
            /\ IsOne(P) /\ Head(s) # c => IsOne(Q)
<1>1. PICK t : t = Tail(s)
  OBVIOUS
<1>2. /\ 1 \in DOMAIN s /\ Head(s) = s[1] /\ DOMAIN s \subseteq {n \in Nat : n >= 1}
      /\ \A n : n \in DOMAIN t <=> n \in Nat /\ n >= 1 /\ n + 1 \in DOMAIN s
      /\ \A n \in DOMAIN t : t[n] = s[n + 1]
  BY <1>1
<1>3. /\ Positions(s, c) \subseteq {n \in Nat : n >= 1}
      /\ \A n : n \in Positions(t, c) <=> n \in Nat /\ n >= 1 /\ n + 1 \in Positions(s, c)
      /\ 1 \in Positions(s, c) <=> Head(s) = c
  BY <1>2 DEF Positions
<1>4. PICK P, Q : P = Positions(s, c) /\ Q = Positions(t, c)
  OBVIOUS
<1>5. /\ P = {} => Q = {}
      /\ IsOne(P) /\ 1 \in P => Q = {}
      /\ IsOne(P) /\ 1 \notin P => IsOne(Q)
  BY <1>3, <1>4, OneShifted
<1> QED
  BY <1>1, <1>3, <1>4, <1>5

LEMMA OneOfNone == \A n : IsOne({} \cup {n}) /\ IsOne({n})
BY DEF IsOne

LEMMA CloseOfAdded ==
  ASSUME TypedInv, NEW r \in Resources, NEW left, NEW c \in Clients,
         closing' = Append(closing, [res |-> r, left |-> left])
  PROVE  CloseOf(c)' = IF left = c THEN CloseOf(c) \cup {Len(closing) + 1} ELSE CloseOf(c)
<1>1. /\ DOMAIN closing' = DOMAIN closing \cup {Len(closing) + 1}
      /\ Len(closing) + 1 \notin DOMAIN closing
      /\ \A n \in DOMAIN closing : closing'[n] = closing[n]
      /\ closing'[Len(closing) + 1].left = left
  BY CloseAdded
<1> QED
  BY <1>1 DEF CloseOf

LEMMA CloseOfTaken ==
  ASSUME TypedInv, closing # << >>, closing' = Tail(closing), NEW c \in Clients
  PROVE  /\ CloseOf(c) = {} => CloseOf(c)' = {} /\ Head(closing).left # c
         /\ IsOne(CloseOf(c)) /\ Head(closing).left = c => CloseOf(c)' = {}
         /\ IsOne(CloseOf(c)) /\ Head(closing).left # c => IsOne(CloseOf(c)')
<1>1. /\ 1 \in DOMAIN closing /\ Head(closing) = closing[1]
      /\ \A n : n \in DOMAIN closing' <=> n \in Nat /\ n >= 1 /\ n + 1 \in DOMAIN closing
      /\ \A n \in DOMAIN closing' : closing'[n] = closing[n + 1]
      /\ \A n \in DOMAIN closing : n \in Nat /\ n >= 1
  BY CloseTaken
<1>2. PICK P, Q : P = CloseOf(c) /\ Q = CloseOf(c)'
  OBVIOUS
<1>3. /\ P \subseteq {n \in Nat : n >= 1}
      /\ \A n : n \in Q <=> n \in Nat /\ n >= 1 /\ n + 1 \in P
      /\ 1 \in P <=> Head(closing).left = c
  BY <1>1, <1>2 DEF CloseOf
<1>4. /\ P = {} => Q = {}
      /\ IsOne(P) /\ 1 \in P => Q = {}
      /\ IsOne(P) /\ 1 \notin P => IsOne(Q)
  BY <1>3, OneShifted
<1> QED
  BY <1>2, <1>3, <1>4

\* What a step of updater r does to the connection it holds and to its queue.
LEMMA HolderMoves ==
  ASSUME TypedInv, HolderInv, NEW r \in Resources, UpdaterStep(r) \/ ReadFails(r),
         ~ SendClose(r)
  PROVE  /\ UNCHANGED <<inbox, conn, hand, closing>>
         /\ upd'[r].who # None => upd'[r].pc \in {"asking", "answered", "closing"}
         /\ \A q \in Resources \ {r} : upd'[q] = upd[q]
         /\ \/ /\ queue' = queue /\ upd'[r].who = upd[r].who
               /\ \A k \in Clients : client'[k].pc = client[k].pc
            \/ /\ queue' = queue /\ upd'[r].who = None
               /\ \A k \in Clients : IF k = upd[r].who THEN client'[k].pc # "waiting"
                                                      ELSE client'[k].pc = client[k].pc
            \/ /\ queue[r] # << >> /\ queue' = [queue EXCEPT ![r] = Tail(@)]
               /\ upd[r].who = None /\ upd'[r].who = Head(queue[r])
               /\ \A k \in Clients : client'[k].pc = client[k].pc
            \/ /\ queue[r] # << >> /\ queue' = [queue EXCEPT ![r] = Tail(@)]
               /\ upd[r].who = None /\ upd'[r].who = None
               /\ \A k \in Clients : IF k = Head(queue[r]) THEN client'[k].pc # "waiting"
                                                          ELSE client'[k].pc = client[k].pc
<1> DEFINE u == upd[r]
           Stays == /\ queue' = queue /\ upd'[r].who = upd[r].who
                    /\ \A k \in Clients : client'[k].pc = client[k].pc
           Lets  == /\ queue' = queue /\ upd'[r].who = None
                    /\ \A k \in Clients : IF k = upd[r].who THEN client'[k].pc # "waiting"
                                                           ELSE client'[k].pc = client[k].pc
           Takes == /\ queue[r] # << >> /\ queue' = [queue EXCEPT ![r] = Tail(@)]
                    /\ upd[r].who = None /\ upd'[r].who = Head(queue[r])
                    /\ \A k \in Clients : client'[k].pc = client[k].pc
           Accepts ==
             /\ queue[r] # << >> /\ queue' = [queue EXCEPT ![r] = Tail(@)]
             /\ upd[r].who = None /\ upd'[r].who = None
             /\ \A k \in Clients : IF k = Head(queue[r]) THEN client'[k].pc # "waiting"
                                                        ELSE client'[k].pc = client[k].pc
           Goal == /\ upd'[r].who # None => upd'[r].pc \in {"asking", "answered", "closing"}
                   /\ \A q \in Resources \ {r} : upd'[q] = upd[q]
                   /\ Stays \/ Lets \/ Takes \/ Accepts
<1>1. /\ LiveTypeOK /\ HeldBy(u) /\ client \in [Clients -> Connection]
      /\ u.who # None => u.pc \in {"asking", "answered", "closing"}
      /\ u \in Updater /\ u.who \in Clients \cup {None} /\ u.cur \in Nat /\ u.res \in Nat
      /\ upd \in [Resources -> Updater]
  BY UpdaterType DEF TypedInv, HeldInv, LiveTypeOK, HolderInv
<1>2. UNCHANGED <<inbox, conn, hand, closing>>
  BY DEF UpdaterStep, TakeFirst, Read, ReadFails, ServeFirst, TakeUpdate, FellBehind,
         Publish, WakeUp, Accept, NobodyLeft, QueueShut, dbVars
\* Enough: the new record's pc and who, and one of the four ways.
<1>3. ASSUME NEW pc, NEW who, NEW subs, NEW cur, NEW res, NEW note,
             Becomes(r, With(pc, who, subs, cur, res, note))
      PROVE  /\ upd'[r].pc = pc /\ upd'[r].who = who
             /\ \A q \in Resources \ {r} : upd'[q] = upd[q]
  <2>1. upd'[r] = With(pc, who, subs, cur, res, note)
    BY <1>1, <1>3 DEF Becomes
  <2> QED
    BY <1>1, <1>3, <2>1, WithFields DEF Becomes
<1>4. CASE TakeFirst(r)
  <2>1. Becomes(r, With("asking", Head(queue[r]), u.subs, u.cur, u.res, u.note))
    BY <1>1, <1>4, TakeFirstEffect
  <2>2. Goal
    BY <1>1, <1>3, <1>4, <2>1 DEF TakeFirst
  <2> QED
    BY <1>2, <2>2
<1>5. CASE Read(r)
  <2>1. PICK pc : pc = IF u.pc = "asking" THEN "answered" ELSE "reread"
    OBVIOUS
  <2>2. Becomes(r, With(pc, u.who, u.subs, u.cur, Now, u.note))
    BY <1>1, <1>5, <2>1, ReadEffect
  <2>3. Goal
    BY <1>1, <1>3, <1>5, <2>1, <2>2 DEF Read
  <2> QED
    BY <1>2, <2>3
<1>6. CASE ReadFails(r)
  <2>1. Becomes(r, With("closing", None, u.subs, u.cur, u.res, u.note))
    BY <1>1, <1>6, ReadFailsEffect
  <2>2. \A k \in Clients : IF k = u.who THEN client'[k].pc # "waiting"
                                        ELSE client'[k].pc = client[k].pc
    BY <1>1, <1>6, DroppedType, NobodyAssumption DEF ReadFails
  <2>3. Goal
    <3>1. queue' = queue
      BY <1>6 DEF ReadFails
    <3>2. /\ upd'[r].who = None /\ upd'[r].pc \in {"closing", "loop"}
          /\ \A q \in Resources \ {r} : upd'[q] = upd[q]
      BY <1>3, <2>1
    <3>3. Lets
      BY <2>2, <3>1, <3>2
    <3> QED
      BY <3>2, <3>3
  <2> QED
    BY <1>2, <2>3
<1>7. CASE ServeFirst(r)
  <2>1. Becomes(r, With("loop", None, {u.who}, u.res, u.res, u.note))
    BY <1>1, <1>7, ServeFirstEffect
  <2>2. u.who \in Clients /\ u.res \in 1 .. Now /\ Served(r, u.who, u.res)
    BY <1>1, <1>7 DEF ServeFirst, HeldBy
  <2>3. \A k \in Clients : IF k = u.who THEN client'[k].pc # "waiting"
                                        ELSE client'[k].pc = client[k].pc
    BY <1>1, <2>2, ServedType
  <2>4. Goal
    <3>1. queue' = queue
      BY <1>7 DEF ServeFirst
    <3>2. /\ upd'[r].who = None /\ upd'[r].pc \in {"closing", "loop"}
          /\ \A q \in Resources \ {r} : upd'[q] = upd[q]
      BY <1>3, <2>1
    <3>3. Lets
      BY <2>3, <3>1, <3>2
    <3> QED
      BY <3>2, <3>3
  <2> QED
    BY <1>2, <2>4
<1>8. CASE TakeUpdate(r)
  <2>1. Becomes(r, With("rereading", u.who, u.subs, u.cur, u.res, 0))
    BY <1>1, <1>8, TakeUpdateEffect
  <2>2. Goal
    BY <1>1, <1>3, <1>8, <2>1 DEF TakeUpdate
  <2> QED
    BY <1>2, <2>2
<1>9. CASE FellBehind(r) \/ NobodyLeft(r) \/ QueueShut(r) \/ WakeUp(r)
  <2>1. PICK pc \in {"loop", "draining", "closing"} : Goto(r, pc)
    BY <1>9 DEF FellBehind, NobodyLeft, QueueShut, WakeUp
  <2>2. Becomes(r, With(pc, u.who, u.subs, u.cur, u.res, u.note))
    BY <1>1, <2>1, GotoEffect
  <2>3. u.who = None /\ queue' = queue /\ UNCHANGED client
    BY <1>1, <1>9 DEF FellBehind, NobodyLeft, QueueShut, WakeUp
  <2>4. Goal
    BY <1>3, <2>2, <2>3
  <2> QED
    BY <1>2, <2>4
<1>10. CASE Publish(r)
  <2>1. PICK cur : Becomes(r, With("sleeping", u.who, u.subs, cur, u.res, u.note))
    BY <1>1, <1>10, PublishEffect
  <2>2. \A k \in Clients : client'[k].pc = client[k].pc
    <3>1. \A k \in Clients : client[k] \in Connection
      BY <1>1
    <3>2. \A e \in Connection : \A f : [e EXCEPT !.feed = f].pc = e.pc
      BY DEF Connection
    <3>3. PICK d : d = DiffOf(Result(r, u.res), Result(r, u.cur))
      OBVIOUS
    <3>4. CASE UNCHANGED client
      BY <3>4
    <3>5. CASE client' = [c \in Clients |->
                 IF c \in Handles(r)
                   THEN [client[c] EXCEPT !.feed = Append(@, [changes |-> d, ver |-> u.res])]
                   ELSE client[c]]
      BY <3>1, <3>2, <3>5
    <3> QED
      BY <1>10, <3>3, <3>4, <3>5 DEF Publish
  <2>3. u.who = None /\ queue' = queue
    BY <1>1, <1>10 DEF Publish
  <2>4. Goal
    BY <1>3, <2>1, <2>2, <2>3
  <2> QED
    BY <1>2, <2>4
<1>11. CASE Accept(r)
  <2>1. PICK c : c = Head(queue[r])
    OBVIOUS
  <2>2. /\ queue[r] # << >> /\ queue' = [queue EXCEPT ![r] = Tail(@)] /\ u.pc = "loop"
        /\ c \in Clients /\ u.cur \in 1 .. Now /\ u.who = None
    BY <1>1, <1>11, <2>1, QueueType DEF Accept, HeldBy
  <2>3. CASE /\ Becomes(r, With("loop", u.who, u.subs \cup {c}, u.cur, u.res, u.note))
             /\ Served(r, c, u.cur)
    <3>1. \A k \in Clients : IF k = c THEN client'[k].pc # "waiting"
                                      ELSE client'[k].pc = client[k].pc
      BY <1>1, <2>2, <2>3, ServedType
    <3>2. Goal
      BY <1>3, <2>1, <2>2, <2>3, <3>1
    <3> QED
      BY <1>2, <3>2
  <2>4. CASE /\ Becomes(r, With("closing", c, u.subs, u.cur, u.res, u.note))
             /\ UNCHANGED client
    <3>1. Goal
      BY <1>3, <2>1, <2>2, <2>4
    <3> QED
      BY <1>2, <3>1
  <2> QED
    BY <1>1, <1>11, <2>1, <2>3, <2>4, AcceptEffect
<1> QED
  BY <1>4, <1>5, <1>6, <1>7, <1>8, <1>9, <1>10, <1>11 DEF UpdaterStep

-----------------------------------------------------------------------------
(***************************************************************************)
(* Each step keeps every waiting connection in one place.                  *)
(***************************************************************************)
\* The places of c that no step has touched.
LEMMA PlaceStays ==
  ASSUME NEW c \in Clients, PlaceOf(c),
         InboxOf(c)' = InboxOf(c), QueueOf(c)' = QueueOf(c), CloseOf(c)' = CloseOf(c),
         HandHas(c)' <=> HandHas(c), HeldUp(c)' <=> HeldUp(c), Waits(c)' <=> Waits(c)
  PROVE  PlaceOf(c)'
BY DEF PlaceOf

LEMMA QueueOfTaken ==
  ASSUME TypedInv, NEW r \in Resources, queue[r] # << >>,
         queue' = [queue EXCEPT ![r] = Tail(@)], NEW c \in Clients
  PROVE  /\ Want[c] # r => QueueOf(c)' = QueueOf(c)
         /\ Want[c] = r /\ QueueOf(c) = {} => QueueOf(c)' = {} /\ Head(queue[r]) # c
         /\ Want[c] = r /\ IsOne(QueueOf(c)) /\ Head(queue[r]) = c => QueueOf(c)' = {}
         /\ Want[c] = r /\ IsOne(QueueOf(c)) /\ Head(queue[r]) # c => IsOne(QueueOf(c)')
<1>1. queue \in [Resources -> Seq(Clients)] /\ Want[c] \in Resources
  BY WantAssumption DEF TypedInv, LiveTypeOK
<1>2. CASE Want[c] # r
  BY <1>1, <1>2 DEF QueueOf
<1>3. CASE Want[c] = r
  <2>1. PICK s : s = queue[r]
    OBVIOUS
  <2>2. s \in Seq(Clients) /\ s # << >> /\ queue'[r] = Tail(s)
    BY <1>1, <2>1
  <2>3. PICK P, Q : P = Positions(s, c) /\ Q = Positions(Tail(s), c)
    OBVIOUS
  <2>4. /\ P = {} => Q = {} /\ Head(s) # c
        /\ IsOne(P) /\ Head(s) = c => Q = {}
        /\ IsOne(P) /\ Head(s) # c => IsOne(Q)
    BY <2>2, <2>3, PositionsTaken
  <2>5. P = QueueOf(c) /\ Q = QueueOf(c)'
    BY <1>3, <2>1, <2>2, <2>3 DEF QueueOf
  <2> QED
    BY <1>3, <2>1, <2>4, <2>5
<1> QED
  BY <1>2, <1>3

\* The first connection of a queue waits, and is nowhere else.
LEMMA HeadWaits ==
  ASSUME TypedInv, PlacesInv, ConnInv, NEW r \in Resources, queue[r] # << >>
  PROVE  /\ Head(queue[r]) \in Clients /\ Want[Head(queue[r])] = r
         /\ IsOne(QueueOf(Head(queue[r]))) /\ Waits(Head(queue[r]))
<1>1. PICK c : c = Head(queue[r])
  OBVIOUS
<1>2. PICK s : s = queue[r]
  OBVIOUS
<1>3. s \in Seq(Clients) /\ s # << >>
  BY <1>2 DEF TypedInv, LiveTypeOK
<1>4. c \in Clients /\ 1 \in DOMAIN s /\ s[1] = c
  BY <1>1, <1>2, <1>3
<1>5. Want[c] = r
  BY <1>2, <1>4 DEF PlacesInv
<1>6. 1 \in QueueOf(c)
  BY <1>2, <1>4, <1>5 DEF QueueOf, Positions
<1>7. QueueOf(c) # {}
  BY <1>6
<1>8. PlaceOf(c)
  BY <1>4 DEF ConnInv
<1> QED
  BY <1>1, <1>4, <1>5, <1>7, <1>8 DEF PlaceOf

LEMMA UpdaterConn ==
  ASSUME TypedInv, PlacesInv, ConnInv, NEW r \in Resources,
         UpdaterStep(r) \/ ReadFails(r), ~ SendClose(r)
  PROVE  ConnInv'
<1>0. /\ upd \in [Resources -> Updater] /\ queue \in [Resources -> Seq(Clients)]
      /\ \A c \in Clients : Want[c] \in Resources /\ c # None
  BY WantAssumption, NobodyAssumption DEF TypedInv, LiveTypeOK
<1>1. /\ UNCHANGED <<inbox, conn, hand, closing>>
      /\ upd'[r].who # None => upd'[r].pc \in {"asking", "answered", "closing"}
      /\ \A q \in Resources \ {r} : upd'[q] = upd[q]
  BY HolderMoves DEF ConnInv
<1>2. HolderInv'
  BY <1>1 DEF ConnInv, HolderInv
<1>3. SUFFICES ASSUME NEW c \in Clients
               PROVE  PlaceOf(c)'
  BY <1>2 DEF ConnInv
<1>4. /\ PlaceOf(c) /\ InboxOf(c)' = InboxOf(c) /\ CloseOf(c)' = CloseOf(c)
      /\ HandHas(c)' <=> HandHas(c)
      /\ Want[c] # r => (HeldUp(c)' <=> HeldUp(c))
  BY <1>0, <1>1 DEF ConnInv, InboxOf, CloseOf, HandHas, HeldUp
<1>5. CASE /\ queue' = queue /\ upd'[r].who = upd[r].who
           /\ \A k \in Clients : client'[k].pc = client[k].pc
  <2>1. /\ QueueOf(c)' = QueueOf(c) /\ (HeldUp(c)' <=> HeldUp(c))
        /\ Waits(c)' <=> Waits(c)
    BY <1>0, <1>4, <1>5 DEF QueueOf, HeldUp, Waits
  <2> QED
    BY <1>4, <2>1, PlaceStays
<1>6. CASE /\ queue' = queue /\ upd'[r].who = None
           /\ \A k \in Clients : IF k = upd[r].who THEN client'[k].pc # "waiting"
                                                   ELSE client'[k].pc = client[k].pc
  <2>1. QueueOf(c)' = QueueOf(c)
    BY <1>6 DEF QueueOf
  <2>2. CASE c = upd[r].who
    <3>1. Want[c] = r
      BY <1>0, <2>2 DEF PlacesInv
    <3>2. HeldUp(c) /\ ~ HeldUp(c)' /\ ~ Waits(c)'
      BY <1>0, <1>6, <2>2, <3>1 DEF HeldUp, Waits
    <3> QED
      BY <1>4, <2>1, <3>2 DEF PlaceOf
  <2>3. CASE c # upd[r].who
    <3>1. (HeldUp(c)' <=> HeldUp(c)) /\ (Waits(c)' <=> Waits(c))
      BY <1>0, <1>4, <1>6, <2>3 DEF HeldUp, Waits
    <3> QED
      BY <1>4, <2>1, <3>1, PlaceStays
  <2> QED
    BY <2>2, <2>3
<1>7. CASE /\ queue[r] # << >> /\ queue' = [queue EXCEPT ![r] = Tail(@)]
           /\ upd[r].who = None
           /\ \/ /\ upd'[r].who = Head(queue[r])
                 /\ \A k \in Clients : client'[k].pc = client[k].pc
              \/ /\ upd'[r].who = None
                 /\ \A k \in Clients : IF k = Head(queue[r]) THEN client'[k].pc # "waiting"
                                                            ELSE client'[k].pc = client[k].pc
  <2>1. /\ Want[c] # r => QueueOf(c)' = QueueOf(c)
        /\ Want[c] = r /\ QueueOf(c) = {} => QueueOf(c)' = {} /\ Head(queue[r]) # c
        /\ Want[c] = r /\ IsOne(QueueOf(c)) /\ Head(queue[r]) = c => QueueOf(c)' = {}
        /\ Want[c] = r /\ IsOne(QueueOf(c)) /\ Head(queue[r]) # c => IsOne(QueueOf(c)')
    BY <1>7, QueueOfTaken
  <2>2. Want[Head(queue[r])] = r /\ IsOne(QueueOf(Head(queue[r]))) /\ Waits(Head(queue[r]))
    BY <1>7, HeadWaits
  <2>3. CASE c = Head(queue[r])
    <3>1. QueueOf(c)' = {} /\ IsOne(QueueOf(c)) /\ Waits(c) /\ Want[c] = r
      BY <2>1, <2>2, <2>3
    <3>2. IsOne(QueueOf(c)) => QueueOf(c) # {}
      BY DEF IsOne
    <3>3. \/ HeldUp(c)' /\ Waits(c)'
          \/ ~ HeldUp(c)' /\ ~ Waits(c)'
      BY <1>0, <1>7, <2>3, <3>1 DEF HeldUp, Waits
    <3> QED
      BY <1>4, <3>1, <3>2, <3>3 DEF PlaceOf
  <2>4. CASE c # Head(queue[r]) /\ Want[c] = r
    <3>1. ~ HeldUp(c) /\ ~ HeldUp(c)' /\ (Waits(c)' <=> Waits(c))
      BY <1>0, <1>7, <2>4 DEF HeldUp, Waits
    <3>2. (QueueOf(c) = {} => QueueOf(c)' = {}) /\ (IsOne(QueueOf(c)) => IsOne(QueueOf(c)'))
      BY <2>1, <2>4
    <3> QED
      BY <1>4, <3>1, <3>2 DEF PlaceOf
  <2>5. CASE Want[c] # r
    <3>1. Waits(c)' <=> Waits(c)
      BY <1>7, <2>2, <2>5 DEF Waits
    <3> QED
      BY <1>4, <2>1, <2>5, <3>1, PlaceStays
  <2> QED
    BY <2>3, <2>4, <2>5
<1> QED
  BY <1>5, <1>6, <1>7, HolderMoves DEF ConnInv

LEMMA SendCloseConn ==
  ASSUME TypedInv, PlacesInv, ConnInv, NEW r \in Resources, SendClose(r)
  PROVE  ConnInv'
<1>0. /\ upd \in [Resources -> Updater] /\ queue \in [Resources -> Seq(Clients)]
      /\ \A c \in Clients : Want[c] \in Resources /\ c # None
      /\ LiveTypeOK
  BY WantAssumption, NobodyAssumption DEF TypedInv, LiveTypeOK
<1>1. /\ UNCHANGED <<inbox, conn, hand>>
      /\ closing' = Append(closing, [res |-> r, left |-> upd[r].who])
      /\ upd' = [upd EXCEPT ![r] = NoUpdater]
      /\ NoUpdater.who = None
  BY FreshUpdaters, WithFields DEF SendClose
<1>2. HolderInv'
  BY <1>0, <1>1 DEF ConnInv, HolderInv
<1>3. SUFFICES ASSUME NEW c \in Clients
               PROVE  PlaceOf(c)'
  BY <1>2 DEF ConnInv
<1>4. /\ PlaceOf(c) /\ InboxOf(c)' = InboxOf(c) /\ (HandHas(c)' <=> HandHas(c))
      /\ Want[c] # r => (HeldUp(c)' <=> HeldUp(c))
      /\ Want[c] = r => ~ HeldUp(c)'
      /\ CloseOf(c)' = IF upd[r].who = c THEN CloseOf(c) \cup {Len(closing) + 1}
                                         ELSE CloseOf(c)
      /\ upd[r].who = c <=> HeldUp(c) /\ Want[c] = r
  <2>1. CloseOf(c)' = IF upd[r].who = c THEN CloseOf(c) \cup {Len(closing) + 1}
                                        ELSE CloseOf(c)
    BY <1>1, CloseOfAdded
  <2>2. upd[r].who = c <=> HeldUp(c) /\ Want[c] = r
    BY <1>0 DEF PlacesInv, HeldUp
  <2> QED
    BY <1>0, <1>1, <2>1, <2>2 DEF ConnInv, InboxOf, HandHas, HeldUp
\* Held: it goes into the close message.  Otherwise it stays, or is dropped.
<1>5. CASE upd[r].who = c
  <2>1. HeldUp(c) /\ Waits(c) /\ CloseOf(c) = {} /\ QueueOf(c) = {}
    BY <1>4, <1>5 DEF PlaceOf
  <2>2. ~ HeldUp(c)' /\ IsOne(CloseOf(c)')
    BY <1>4, <1>5, <2>1, OneOfNone
  <2>3. QueueOf(c)' = {} /\ Waits(c)'
    <3>1. CASE UNCHANGED <<queue, client>>
      BY <2>1, <3>1 DEF QueueOf, Waits
    <3>2. CASE queue' = [queue EXCEPT ![r] = << >>] /\ client' = Dropped(Range(queue[r]))
      <4>1. c \notin Range(queue[r])
        BY <1>4, <1>5, <2>1 DEF QueueOf, Positions, Range
      <4>2. client'[c] = client[c]
        BY <1>0, <3>2, <4>1, DroppedType
      <4>3. DOMAIN << >> = {}
        OBVIOUS
      <4>4. queue'[Want[c]] = << >>
        BY <1>0, <1>4, <1>5, <3>2
      <4> QED
        BY <2>1, <4>2, <4>3, <4>4 DEF QueueOf, Positions, Waits
    <3> QED
      BY <3>1, <3>2 DEF SendClose
  <2> QED
    BY <1>4, <2>1, <2>2, <2>3 DEF PlaceOf
<1>6. CASE upd[r].who # c
  <2>1. (HeldUp(c)' <=> HeldUp(c)) /\ CloseOf(c)' = CloseOf(c)
    BY <1>4, <1>6
  <2>2. CASE UNCHANGED <<queue, client>>
    <3>1. QueueOf(c)' = QueueOf(c) /\ (Waits(c)' <=> Waits(c))
      BY <2>2 DEF QueueOf, Waits
    <3> QED
      BY <1>4, <2>1, <3>1, PlaceStays
  <2>3. CASE queue' = [queue EXCEPT ![r] = << >>] /\ client' = Dropped(Range(queue[r]))
    <3>1. client'[c] = IF c \in Range(queue[r]) THEN At("closed") ELSE client[c]
      BY <1>0, <2>3, DroppedType
    <3>2. CASE c \in Range(queue[r])
      <4>1. PICK n \in DOMAIN queue[r] : queue[r][n] = c
        BY <3>2 DEF Range
      <4>2. Want[c] = r /\ n \in QueueOf(c)
        BY <4>1 DEF PlacesInv, QueueOf, Positions
      <4>3. QueueOf(c) # {}
        BY <4>2
      <4>4. /\ InboxOf(c) = {} /\ CloseOf(c) = {} /\ ~ HandHas(c) /\ ~ HeldUp(c)
        BY <1>4, <4>3 DEF PlaceOf
      <4>5. ~ Waits(c)'
        BY <3>1, <3>2, AtType DEF Waits
      <4>6. DOMAIN << >> = {}
        OBVIOUS
      <4>7. queue'[Want[c]] = << >>
        BY <1>0, <2>3, <4>2
      <4>8. QueueOf(c)' = {}
        BY <4>6, <4>7 DEF QueueOf, Positions
      <4> QED
        BY <1>4, <2>1, <4>4, <4>5, <4>8 DEF PlaceOf
    <3>3. CASE c \notin Range(queue[r])
      <4>1. Waits(c)' <=> Waits(c)
        BY <3>1, <3>3 DEF Waits
      <4>2. DOMAIN << >> = {}
        OBVIOUS
      <4>3. QueueOf(c)' = QueueOf(c)
        <5>1. CASE Want[c] = r
          <6>1. queue'[Want[c]] = << >>
            BY <1>0, <2>3, <5>1
          <6>2. QueueOf(c) = {}
            BY <3>3, <5>1 DEF QueueOf, Positions, Range
          <6> QED
            BY <4>2, <6>1, <6>2 DEF QueueOf, Positions
        <5>2. CASE Want[c] # r
          BY <1>0, <2>3, <5>2 DEF QueueOf
        <5> QED
          BY <5>1, <5>2
      <4> QED
        BY <1>4, <2>1, <4>1, <4>3, PlaceStays
    <3> QED
      BY <3>2, <3>3
  <2> QED
    BY <2>2, <2>3 DEF SendClose
<1> QED
  BY <1>5, <1>6

\* The connector starts an updater only where there is none.
LEMMA SpawnedConn ==
  ASSUME TypedInv, ConnInv, NEW r \in Resources, upd[r].pc = "none",
         upd' = [upd EXCEPT ![r] = Spawned], conn' = "loop"
  PROVE  HolderInv' /\ \A c \in Clients : HeldUp(c)' <=> HeldUp(c)
<1>1. /\ upd \in [Resources -> Updater] /\ Spawned.who = None
      /\ \A c \in Clients : Want[c] \in Resources
  BY FreshUpdaters, WithFields, WantAssumption DEF TypedInv, LiveTypeOK
<1>2. upd[r].who = None
  BY DEF ConnInv, HolderInv
<1>3. \A q \in Resources : upd'[q].who = upd[q].who /\ (upd'[q] = upd[q] \/ q = r)
  BY <1>1, <1>2
<1>4. HolderInv'
  BY <1>2, <1>3 DEF ConnInv, HolderInv
<1>5. \A c \in Clients : HeldUp(c)' <=> HeldUp(c)
  BY <1>1, <1>3 DEF HeldUp
<1> QED
  BY <1>4, <1>5

LEMMA HandMade ==
  ASSUME NEW k \in Clients, NEW b \in BOOLEAN
  PROVE  [who |-> k, respawn |-> b] # None /\ [who |-> k, respawn |-> b].who = k
<1>1. PICK h : h = [who |-> k, respawn |-> b]
  OBVIOUS
<1>2. h \in [who : Clients, respawn : BOOLEAN] /\ h.who = k
  BY <1>1
<1> QED
  BY <1>1, <1>2, NobodyAssumption

LEMMA TakeNewConn ==
  ASSUME TypedInv, EntriesInv, ConnInv, TakeNew
  PROVE  ConnInv'
<1>1. PICK k : k = Head(inbox)
  OBVIOUS
<1>2. /\ inbox \in Seq(Clients) /\ inbox # << >> /\ inbox' = Tail(inbox)
      /\ k \in Clients /\ Want[k] \in Resources
  BY <1>1, WantAssumption DEF TakeNew, TypedInv, LiveTypeOK
<1>3. /\ conn = "loop" /\ conn' = conn /\ hand = None
      /\ hand' = [who |-> k, respawn |-> FALSE]
      /\ UNCHANGED <<queue, closing, client>>
  BY <1>1 DEF TakeNew
<1>4. hand' # None /\ hand'.who = k
  BY <1>2, <1>3, HandMade
<1>5. HolderInv' /\ \A c \in Clients : HeldUp(c)' <=> HeldUp(c)
  <2>1. CASE upd' = upd
    BY <1>3, <2>1 DEF ConnInv, HolderInv, HeldUp
  <2>2. CASE Want[k] \notin entries /\ upd' = [upd EXCEPT ![Want[k]] = Spawned]
    <3>1. upd[Want[k]].pc = "none"
      BY <1>2, <1>3, <2>2 DEF EntriesInv, EntryOf
    <3> QED
      BY <1>2, <1>3, <2>2, <3>1, SpawnedConn
  <2> QED
    BY <1>1, <2>1, <2>2 DEF TakeNew
<1>6. SUFFICES ASSUME NEW c \in Clients
               PROVE  PlaceOf(c)'
  BY <1>5 DEF ConnInv
<1>7. PICK P, Q : P = InboxOf(c) /\ Q = InboxOf(c)'
  OBVIOUS
<1>8. /\ P = {} => Q = {} /\ k # c
      /\ IsOne(P) /\ k = c => Q = {}
      /\ IsOne(P) /\ k # c => IsOne(Q)
  BY <1>1, <1>2, <1>7, PositionsTaken DEF InboxOf
<1>9. /\ PlaceOf(c) /\ QueueOf(c)' = QueueOf(c) /\ CloseOf(c)' = CloseOf(c)
      /\ (Waits(c)' <=> Waits(c)) /\ (HeldUp(c)' <=> HeldUp(c))
      /\ ~ HandHas(c) /\ (HandHas(c)' <=> c = k)
  BY <1>3, <1>4, <1>5 DEF ConnInv, QueueOf, CloseOf, Waits, HandHas
<1>10. IsOne(P) => P # {}
  BY DEF IsOne
<1> QED
  BY <1>7, <1>8, <1>9, <1>10 DEF PlaceOf

LEMMA PutInQueueConn ==
  ASSUME TypedInv, EntriesInv, ConnInv, PutInQueue
  PROVE  ConnInv'
<1>1. PICK k, r : k = hand.who /\ r = Want[k]
  OBVIOUS
<1>2. /\ hand # None /\ conn = "loop" /\ conn' = conn /\ hand' = None
      /\ hand \in [who : Clients, respawn : BOOLEAN]
      /\ queue \in [Resources -> Seq(Clients)]
  BY DEF PutInQueue, TypedInv, LiveTypeOK, ConnInv, HolderInv
<1>3. k \in Clients /\ r \in Resources
  BY <1>1, <1>2, WantAssumption
<1>4. /\ queue' = [queue EXCEPT ![r] = Append(@, k)]
      /\ upd' = IF hand.respawn THEN [upd EXCEPT ![r] = Spawned] ELSE upd
      /\ UNCHANGED <<inbox, closing, client>>
  BY <1>1 DEF PutInQueue
<1>5. HolderInv' /\ \A c \in Clients : HeldUp(c)' <=> HeldUp(c)
  <2>1. CASE upd' = upd
    BY <1>2, <2>1 DEF ConnInv, HolderInv, HeldUp
  <2>2. CASE hand.respawn /\ upd' = [upd EXCEPT ![r] = Spawned]
    <3>1. upd[r].pc = "none"
      BY <1>1, <1>2, <1>3, <2>2 DEF EntriesInv, EntryOf, Respawning
    <3> QED
      BY <1>2, <1>3, <2>2, <3>1, SpawnedConn
  <2> QED
    BY <1>4, <2>1, <2>2
<1>6. SUFFICES ASSUME NEW c \in Clients
               PROVE  PlaceOf(c)'
  BY <1>5 DEF ConnInv
<1>7. QueueOf(c)' = IF k = c THEN QueueOf(c) \cup {Len(queue[r]) + 1} ELSE QueueOf(c)
  <2>1. Want[c] \in Resources
    BY WantAssumption
  <2>2. CASE Want[c] = r
    <3>1. PICK s : s = queue[r]
      OBVIOUS
    <3>2. s \in Seq(Clients) /\ queue'[r] = Append(s, k)
      BY <1>2, <1>3, <1>4, <3>1
    <3>3. Positions(Append(s, k), c) =
            IF k = c THEN Positions(s, c) \cup {Len(s) + 1} ELSE Positions(s, c)
      BY <3>2, PositionsAdded
    <3> QED
      BY <2>2, <3>1, <3>2, <3>3 DEF QueueOf
  <2>3. CASE Want[c] # r
    BY <1>1, <1>2, <1>4, <2>1, <2>3 DEF QueueOf
  <2> QED
    BY <2>2, <2>3
<1>8. /\ PlaceOf(c) /\ InboxOf(c)' = InboxOf(c) /\ CloseOf(c)' = CloseOf(c)
      /\ (Waits(c)' <=> Waits(c)) /\ (HeldUp(c)' <=> HeldUp(c))
      /\ ~ HandHas(c)' /\ (HandHas(c) <=> c = k)
  BY <1>1, <1>2, <1>4, <1>5 DEF ConnInv, InboxOf, CloseOf, Waits, HandHas
<1>9. QueueOf(c) = {} /\ c = k => IsOne(QueueOf(c)')
  BY <1>7, OneOfNone
<1> QED
  BY <1>7, <1>8, <1>9 DEF PlaceOf

LEMMA TakeCloseConn ==
  ASSUME TypedInv, EntriesInv, PlacesInv, ConnInv, TakeClose
  PROVE  ConnInv'
<1>1. PICK k, r : k = Head(closing).left /\ r = Head(closing).res
  OBVIOUS
<1>2. /\ closing # << >> /\ closing' = Tail(closing) /\ conn = "loop" /\ conn' = conn
      /\ hand = None /\ UNCHANGED <<inbox, queue, client>>
  BY DEF TakeClose
<1>3. k \in Clients \cup {None} /\ r \in Resources
  <2>1. PICK S : S = [res : Resources, left : Clients \cup {None}]
    OBVIOUS
  <2>2. closing \in Seq(S)
    BY <2>1 DEF TypedInv, LiveTypeOK
  <2>3. Head(closing) \in S
    BY <1>2, <2>2, HeadAndTail
  <2> QED
    BY <1>1, <2>1, <2>3
<1>4. \/ /\ k # None /\ hand' = [who |-> k, respawn |-> TRUE] /\ UNCHANGED upd
      \/ /\ k = None /\ UNCHANGED hand
         /\ upd' = upd \/ upd' = [upd EXCEPT ![r] = Spawned]
  BY <1>1 DEF TakeClose
<1>5. upd[r].pc = "none"
  <2>1. 1 \in CloseMsgs(r)
    BY <1>1, <1>2, <1>3, CloseMsgsTaken
  <2> QED
    BY <1>2, <1>3, <2>1 DEF EntriesInv, EntryOf
<1>6. HolderInv' /\ \A c \in Clients : HeldUp(c)' <=> HeldUp(c)
  <2>1. CASE upd' = upd
    BY <1>2, <2>1 DEF ConnInv, HolderInv, HeldUp
  <2>2. CASE upd' = [upd EXCEPT ![r] = Spawned]
    BY <1>2, <1>3, <1>5, <2>2, SpawnedConn
  <2> QED
    BY <1>4, <2>1, <2>2
<1>7. SUFFICES ASSUME NEW c \in Clients
               PROVE  PlaceOf(c)'
  BY <1>6 DEF ConnInv
<1>8. /\ CloseOf(c) = {} => CloseOf(c)' = {} /\ k # c
      /\ IsOne(CloseOf(c)) /\ k = c => CloseOf(c)' = {}
      /\ IsOne(CloseOf(c)) /\ k # c => IsOne(CloseOf(c)')
  BY <1>1, <1>2, CloseOfTaken
<1>9. /\ PlaceOf(c) /\ InboxOf(c)' = InboxOf(c) /\ QueueOf(c)' = QueueOf(c)
      /\ (Waits(c)' <=> Waits(c)) /\ (HeldUp(c)' <=> HeldUp(c)) /\ ~ HandHas(c)
  BY <1>2, <1>6 DEF ConnInv, InboxOf, QueueOf, Waits, HandHas
<1>10. HandHas(c)' <=> c = k
  <2>1. CASE k # None /\ hand' = [who |-> k, respawn |-> TRUE]
    <3>1. hand' # None /\ hand'.who = k
      BY <1>3, <2>1, HandMade
    <3> QED
      BY <3>1 DEF HandHas
  <2>2. CASE k = None /\ UNCHANGED hand
    BY <1>2, <2>2, NobodyAssumption DEF HandHas
  <2> QED
    BY <1>4, <2>1, <2>2
<1>11. IsOne(CloseOf(c)) => CloseOf(c) # {}
  BY DEF IsOne
<1> QED
  BY <1>8, <1>9, <1>10, <1>11 DEF PlaceOf

LEMMA DropMapConn ==
  ASSUME TypedInv, PlacesInv, ConnInv, DropMap
  PROVE  ConnInv'
<1> DEFINE dead == {r \in Resources : upd[r].pc = "none"}
           out  == UNION {Range(queue[r]) : r \in dead}
<1>1. /\ hand = None /\ UNCHANGED <<inbox, hand, closing, upd>>
      /\ queue' = [r \in Resources |-> IF r \in dead THEN << >> ELSE queue[r]]
      /\ client' = Dropped(out)
  BY DEF DropMap
<1>2. LiveTypeOK /\ \A c \in Clients : Want[c] \in Resources
  BY WantAssumption DEF TypedInv
<1>3. HolderInv'
  BY <1>1 DEF ConnInv, HolderInv
<1>4. SUFFICES ASSUME NEW c \in Clients
               PROVE  PlaceOf(c)'
  BY <1>3 DEF ConnInv
<1>5. /\ PlaceOf(c) /\ InboxOf(c)' = InboxOf(c) /\ CloseOf(c)' = CloseOf(c)
      /\ (HandHas(c)' <=> HandHas(c)) /\ (HeldUp(c)' <=> HeldUp(c))
  BY <1>1 DEF ConnInv, InboxOf, CloseOf, HandHas, HeldUp
<1>6. client'[c] = IF c \in out THEN At("closed") ELSE client[c]
  BY <1>1, <1>2, DroppedType
<1>7. DOMAIN << >> = {}
  OBVIOUS
<1>8. CASE c \in out
  <2>1. PICK r \in dead : c \in Range(queue[r])
    BY <1>8
  <2>2. PICK n \in DOMAIN queue[r] : queue[r][n] = c
    BY <2>1 DEF Range
  <2>3. Want[c] = r /\ n \in QueueOf(c)
    BY <2>2 DEF PlacesInv, QueueOf, Positions
  <2>4. queue'[Want[c]] = << >>
    BY <1>1, <2>3
  <2>5. QueueOf(c) # {} /\ QueueOf(c)' = {}
    BY <1>7, <2>3, <2>4 DEF QueueOf, Positions
  <2>6. ~ Waits(c)'
    BY <1>6, <1>8, AtType DEF Waits
  <2> QED
    BY <1>5, <2>5, <2>6 DEF PlaceOf
<1>9. CASE c \notin out
  <2>1. QueueOf(c)' = QueueOf(c)
    <3>1. CASE Want[c] \in dead
      <4>1. queue'[Want[c]] = << >> /\ c \notin Range(queue[Want[c]])
        BY <1>1, <1>9, <3>1
      <4> QED
        BY <1>7, <4>1 DEF QueueOf, Positions, Range
    <3>2. CASE Want[c] \notin dead
      BY <1>1, <1>2, <3>2 DEF QueueOf
    <3> QED
      BY <3>1, <3>2
  <2>2. Waits(c)' <=> Waits(c)
    BY <1>6, <1>9 DEF Waits
  <2> QED
    BY <1>5, <2>1, <2>2, PlaceStays
<1> QED
  BY <1>8, <1>9

LEMMA DrainCloseConn ==
  ASSUME TypedInv, ConnInv, DrainClose
  PROVE  ConnInv'
<1>1. PICK k : k = Head(closing).left
  OBVIOUS
<1>2. /\ closing # << >> /\ closing' = Tail(closing) /\ client' = Dropped({k} \ {None})
      /\ UNCHANGED <<inbox, conn, hand, queue, upd>>
  BY <1>1 DEF DrainClose
<1>3. HolderInv'
  BY <1>2 DEF ConnInv, HolderInv
<1>4. SUFFICES ASSUME NEW c \in Clients
               PROVE  PlaceOf(c)'
  BY <1>3 DEF ConnInv
<1>5. /\ PlaceOf(c) /\ InboxOf(c)' = InboxOf(c) /\ QueueOf(c)' = QueueOf(c)
      /\ (HandHas(c)' <=> HandHas(c)) /\ (HeldUp(c)' <=> HeldUp(c))
  BY <1>2 DEF ConnInv, InboxOf, QueueOf, HandHas, HeldUp
<1>6. /\ CloseOf(c) = {} => CloseOf(c)' = {} /\ k # c
      /\ IsOne(CloseOf(c)) /\ k = c => CloseOf(c)' = {}
      /\ IsOne(CloseOf(c)) /\ k # c => IsOne(CloseOf(c)')
  BY <1>1, <1>2, CloseOfTaken
<1>7. client'[c] = IF c = k THEN At("closed") ELSE client[c]
  BY <1>2, DroppedType, NobodyAssumption DEF TypedInv
<1>8. IF c = k THEN ~ Waits(c)' ELSE (Waits(c)' <=> Waits(c))
  BY <1>7, AtType DEF Waits
<1>9. IsOne(CloseOf(c)) => CloseOf(c) # {}
  BY DEF IsOne
<1> QED
  BY <1>5, <1>6, <1>8, <1>9 DEF PlaceOf

LEMMA OpenConn ==
  ASSUME TypedInv, ConnInv, NEW k \in Clients, Open(k)
  PROVE  ConnInv'
<1>1. /\ client[k].pc = "idle" /\ client' = [client EXCEPT ![k] = At("waiting")]
      /\ inbox' = Append(inbox, k) /\ inbox \in Seq(Clients)
      /\ client \in [Clients -> Connection]
      /\ UNCHANGED <<conn, hand, queue, closing, upd>>
  BY DEF Open, TypedInv, LiveTypeOK
<1>2. HolderInv'
  BY <1>1 DEF ConnInv, HolderInv
<1>3. SUFFICES ASSUME NEW c \in Clients
               PROVE  PlaceOf(c)'
  BY <1>2 DEF ConnInv
<1>4. /\ PlaceOf(c) /\ QueueOf(c)' = QueueOf(c) /\ CloseOf(c)' = CloseOf(c)
      /\ (HandHas(c)' <=> HandHas(c)) /\ (HeldUp(c)' <=> HeldUp(c))
  BY <1>1 DEF ConnInv, QueueOf, CloseOf, HandHas, HeldUp
<1>5. InboxOf(c)' = IF k = c THEN InboxOf(c) \cup {Len(inbox) + 1} ELSE InboxOf(c)
  BY <1>1, PositionsAdded DEF InboxOf
<1>6. IF c = k THEN ~ Waits(c) /\ Waits(c)' ELSE (Waits(c)' <=> Waits(c))
  BY <1>1, AtType DEF Waits
<1>7. InboxOf(c) = {} /\ c = k => IsOne(InboxOf(c)')
  BY <1>5, OneOfNone
<1> QED
  BY <1>4, <1>5, <1>6, <1>7 DEF PlaceOf

\* A connection that is served, or was never opened, waits nowhere.
LEMMA PageConn ==
  ASSUME TypedInv, ConnInv, NEW k \in Clients,
         Start(k) \/ Forward(k) \/ FeedEnds(k) \/ HangUp(k)
  PROVE  ConnInv'
<1>1. /\ client[k].pc \in {"given", "live"} /\ client \in [Clients -> Connection]
      /\ UNCHANGED <<inbox, conn, hand, queue, closing, upd>>
  BY DEF Start, Forward, FeedEnds, HangUp, TypedInv, LiveTypeOK
<1>2. HolderInv'
  BY <1>1 DEF ConnInv, HolderInv
<1>3. SUFFICES ASSUME NEW c \in Clients
               PROVE  PlaceOf(c)'
  BY <1>2 DEF ConnInv
<1>4. /\ PlaceOf(c) /\ InboxOf(c)' = InboxOf(c) /\ QueueOf(c)' = QueueOf(c)
      /\ CloseOf(c)' = CloseOf(c)
      /\ (HandHas(c)' <=> HandHas(c)) /\ (HeldUp(c)' <=> HeldUp(c))
  BY <1>1 DEF ConnInv, InboxOf, QueueOf, CloseOf, HandHas, HeldUp
<1>5. \/ client' = Dropped({k})
      \/ client'[c].pc = client[c].pc
      \/ client' = [client EXCEPT ![k].pc = "live"]
  <2>1. CASE Forward(k)
    <3>1. PICK v, n, f :
            v = Applied(client[k].view, Head(client[k].feed).changes)
            /\ n = Head(client[k].feed).ver /\ f = Tail(client[k].feed)
      OBVIOUS
    <3>2. \/ client' = Dropped({k})
          \/ client' = [client EXCEPT ![k].view = v, ![k].ver = n, ![k].feed = f]
      BY <2>1, <3>1 DEF Forward
    <3>3. \A e \in Connection : [e EXCEPT !.view = v, !.ver = n, !.feed = f].pc = e.pc
      BY DEF Connection
    <3> QED
      BY <1>1, <3>2, <3>3
  <2>2. CASE Start(k)
    BY <2>2 DEF Start
  <2>3. CASE FeedEnds(k) \/ HangUp(k)
    BY <2>3 DEF FeedEnds, HangUp
  <2> QED
    BY <2>1, <2>2, <2>3
<1>6. Waits(c)' <=> Waits(c)
  <2>1. CASE client' = Dropped({k})
    BY <1>1, <2>1, DroppedType DEF Waits, TypedInv
  <2>2. CASE client'[c].pc = client[c].pc
    BY <2>2 DEF Waits
  <2>3. CASE client' = [client EXCEPT ![k].pc = "live"]
    BY <1>1, <2>3 DEF Waits, Connection
  <2> QED
    BY <1>5, <2>1, <2>2, <2>3
<1> QED
  BY <1>4, <1>6, PlaceStays

LEMMA ConnStep ==
  ASSUME TypedInv, PlacesInv, EntriesInv, ConnInv, [LiveNext]_liveVars
  PROVE  ConnInv'
<1>1. ASSUME UNCHANGED <<inbox, hand, queue, closing, client>>, hand = None \/ conn' = conn,
             \A r \in Resources : upd'[r].pc = upd[r].pc /\ upd'[r].who = upd[r].who
      PROVE  ConnInv'
  <2>1. HolderInv'
    BY <1>1 DEF ConnInv, HolderInv
  <2>2. ASSUME NEW c \in Clients
        PROVE  PlaceOf(c)'
    <3>1. Want[c] \in Resources
      BY WantAssumption
    <3>2. /\ PlaceOf(c) /\ InboxOf(c)' = InboxOf(c) /\ QueueOf(c)' = QueueOf(c)
          /\ CloseOf(c)' = CloseOf(c) /\ (Waits(c)' <=> Waits(c))
          /\ (HandHas(c)' <=> HandHas(c)) /\ (HeldUp(c)' <=> HeldUp(c))
      BY <1>1, <3>1 DEF ConnInv, InboxOf, QueueOf, CloseOf, HandHas, HeldUp, Waits
    <3> QED
      BY <3>2, PlaceStays
  <2> QED
    BY <2>1, <2>2 DEF ConnInv
<1>2. CASE Announce
  <2>1. \A r \in Resources : upd'[r].pc = upd[r].pc /\ upd'[r].who = upd[r].who
    BY <1>2 DEF Announce, Updater, TypedInv, LiveTypeOK
  <2> QED
    BY <1>1, <1>2, <2>1 DEF Announce
<1>3. CASE Commit \/ StopServing \/ Ended \/ UNCHANGED liveVars
  BY <1>1, <1>3 DEF Commit, StopServing, Ended, liveVars
<1>4. CASE ConnectorEnds
  <2>1. hand = None
    BY <1>4 DEF ConnectorEnds, ConnInv, HolderInv
  <2> QED
    BY <1>1, <1>4, <2>1 DEF ConnectorEnds
<1> QED
  BY <1>2, <1>3, <1>4, UpdaterConn, SendCloseConn, TakeNewConn, PutInQueueConn, TakeCloseConn,
     DropMapConn, DrainCloseConn, OpenConn, PageConn DEF LiveNext, Connector, UpdaterStep

LEMMA ConnInitial == LiveInit => ConnInv
<1> SUFFICES ASSUME LiveInit
             PROVE  ConnInv
  OBVIOUS
<1>1. \A r \in Resources : upd[r].who = None /\ queue[r] = << >>
  BY FreshUpdaters, WithFields DEF LiveInit
<1>2. HolderInv
  BY <1>1 DEF HolderInv, LiveInit
<1>3. ASSUME NEW c \in Clients
      PROVE  PlaceOf(c)
  <2>1. Want[c] \in Resources /\ c # None /\ ~ Waits(c)
    BY WantAssumption, NobodyAssumption, AtType DEF LiveInit, Waits
  <2>2. DOMAIN << >> = {}
    OBVIOUS
  <2>3. InboxOf(c) = {} /\ QueueOf(c) = {} /\ CloseOf(c) = {}
    BY <1>1, <2>1, <2>2 DEF LiveInit, InboxOf, QueueOf, CloseOf, Positions
  <2>4. ~ HandHas(c) /\ ~ HeldUp(c)
    BY <1>1, <2>1 DEF LiveInit, HandHas, HeldUp
  <2> QED
    BY <2>1, <2>3, <2>4 DEF PlaceOf
<1> QED
  BY <1>2, <1>3 DEF ConnInv

\* A connection that waits for its first result is in exactly one place from
\* which it can still be served, and one that does not wait is in none, for any
\* connections, resources and capacities.
THEOREM WaitingAreKept == LiveSpec => []NoConnectionLost
<1>1. ConnInv => NoConnectionLost
  <2> SUFFICES ASSUME ConnInv, NEW c \in Clients
               PROVE  Cardinality({n \in DOMAIN inbox : inbox[n] = c})
                        + (IF hand # None /\ hand.who = c THEN 1 ELSE 0)
                        + Cardinality({n \in DOMAIN queue[Want[c]] : queue[Want[c]][n] = c})
                        + (IF upd[Want[c]].who = c THEN 1 ELSE 0)
                        + Cardinality({n \in DOMAIN closing : closing[n].left = c})
                      = IF client[c].pc = "waiting" THEN 1 ELSE 0
    BY DEF NoConnectionLost
  <2>1. PlaceOf(c)
    BY DEF ConnInv
  <2>2. /\ InboxOf(c) = {n \in DOMAIN inbox : inbox[n] = c}
        /\ QueueOf(c) = {n \in DOMAIN queue[Want[c]] : queue[Want[c]][n] = c}
        /\ CloseOf(c) = {n \in DOMAIN closing : closing[n].left = c}
        /\ HandHas(c) <=> hand # None /\ hand.who = c
        /\ HeldUp(c) <=> upd[Want[c]].who = c
        /\ Waits(c) <=> client[c].pc = "waiting"
    BY DEF InboxOf, QueueOf, CloseOf, HandHas, HeldUp, Waits, Positions
  <2>3. Cardinality({}) = 0
    BY FS_EmptySet
  <2>4. \A P : IsOne(P) => Cardinality(P) = 1
    BY FS_Singleton DEF IsOne
  <2>5. PICK i, q, l : /\ i = Cardinality(InboxOf(c)) /\ q = Cardinality(QueueOf(c))
                       /\ l = Cardinality(CloseOf(c))
    OBVIOUS
  <2>6. \/ ~ Waits(c) /\ i = 0 /\ q = 0 /\ l = 0 /\ ~ HandHas(c) /\ ~ HeldUp(c)
        \/ Waits(c) /\ i = 1 /\ q = 0 /\ l = 0 /\ ~ HandHas(c) /\ ~ HeldUp(c)
        \/ Waits(c) /\ i = 0 /\ q = 1 /\ l = 0 /\ ~ HandHas(c) /\ ~ HeldUp(c)
        \/ Waits(c) /\ i = 0 /\ q = 0 /\ l = 1 /\ ~ HandHas(c) /\ ~ HeldUp(c)
        \/ Waits(c) /\ i = 0 /\ q = 0 /\ l = 0 /\ HandHas(c) /\ ~ HeldUp(c)
        \/ Waits(c) /\ i = 0 /\ q = 0 /\ l = 0 /\ ~ HandHas(c) /\ HeldUp(c)
    BY <2>1, <2>3, <2>4, <2>5 DEF PlaceOf
  <2>7. i + (IF HandHas(c) THEN 1 ELSE 0) + q + (IF HeldUp(c) THEN 1 ELSE 0) + l
          = IF Waits(c) THEN 1 ELSE 0
    BY <2>6
  <2> QED
    BY <2>2, <2>5, <2>7
<1>2. LiveInv /\ ConnInv /\ [LiveNext]_liveVars => ConnInv'
  BY ConnStep DEF LiveInv, TypedInv
<1> QED
  BY <1>1, <1>2, ConnInitial, LiveInvariant, PTL DEF LiveSpec

-----------------------------------------------------------------------------
(***************************************************************************)
(* What a page shows.                                                      *)
(***************************************************************************)
\* A page that applies the changes from a result to another gets the other.
LEMMA DiffApplies ==
  ASSUME NEW vn \in View, NEW vo \in View
  PROVE  Applied(vo, DiffOf(vn, vo)) = vn
<1> DEFINE added == DOMAIN vn \ DOMAIN vo
           modified == {x \in DOMAIN vn \cap DOMAIN vo : vn[x] # vo[x]}
           put == {<<k, vn[k]>> : k \in added} \cup {<<k, vn[k]>> : k \in modified}
           set == {p[1] : p \in put}
           gone == DOMAIN vo \ DOMAIN vn
           row(k) == IF k \in set THEN (CHOOSE p \in put : p[1] = k)[2] ELSE vo[k]
<1>1. Applied(vo, DiffOf(vn, vo)) = [k \in (DOMAIN vo \ gone) \cup set |-> row(k)]
  BY DEF Applied, DiffOf
<1>2. \A p : p \in put <=> \E k \in added \cup modified : p = <<k, vn[k]>>
  OBVIOUS
<1> HIDE DEF put
<1>3. set = added \cup modified
  <2>1. \A p \in put : p[1] \in added \cup modified
    BY <1>2
  <2>2. \A k \in added \cup modified : <<k, vn[k]>> \in put /\ <<k, vn[k]>>[1] = k
    BY <1>2
  <2>3. \A k \in added \cup modified : k \in set
    BY <2>2
  <2> QED
    BY <2>1, <2>3
<1>4. \A k \in set : row(k) = vn[k]
  <2> SUFFICES ASSUME NEW k \in set
               PROVE  row(k) = vn[k]
    OBVIOUS
  <2>1. PICK p : p = CHOOSE q \in put : q[1] = k
    OBVIOUS
  <2>2. p \in put /\ p[1] = k
    BY <2>1
  <2>3. p[2] = vn[k]
    BY <1>2, <2>2
  <2> QED
    BY <2>1, <2>3
<1> HIDE DEF set
<1>5. (DOMAIN vo \ gone) \cup set = DOMAIN vn
  BY <1>3
<1>6. \A k \in DOMAIN vn : row(k) = vn[k]
  BY <1>3, <1>4
<1> HIDE DEF row
<1>7. vn = [k \in DOMAIN vn |-> vn[k]]
  BY DEF View
<1>8. [k \in DOMAIN vn |-> row(k)] = [k \in DOMAIN vn |-> vn[k]]
  BY <1>6
<1> QED
  BY <1>1, <1>5, <1>7, <1>8

\* What a query returned after a commit stays what it returned then.
LEMMA HistoryGrows ==
  ASSUME TypedInv, [LiveNext]_liveVars
  PROVE  /\ \A n \in 1 .. Now : n \in 1 .. Now'
         /\ \A r \in Resources : \A n \in 1 .. Now : Result(r, n)' = Result(r, n)
<1>1. history \in Seq([Resources -> View])
  BY DEF TypedInv, LiveTypeOK
<1>2. CASE UNCHANGED history
  BY <1>2 DEF Now, Result
<1>3. CASE Commit
  <2>1. PICK v : history' = Append(history, v)
    BY <1>3 DEF Commit
  <2>2. /\ Len(history') = Len(history) + 1 /\ Len(history) \in Nat
        /\ \A n \in 1 .. Len(history) : history'[n] = history[n]
    BY <1>1, <2>1
  <2> QED
    BY <2>2 DEF Now, Result
<1>4. ASSUME NEW r \in Resources, UpdaterStep(r) \/ ReadFails(r)
      PROVE  UNCHANGED history
  <2>1. CASE SendClose(r)
    BY <2>1 DEF SendClose, dbVars
  <2>2. CASE ~ SendClose(r)
    BY <1>4, <2>2, UpdaterMoves
  <2> QED
    BY <2>1, <2>2
<1>5. CASE Announce \/ StopServing \/ Ended \/ Connector \/ UNCHANGED liveVars
  <2>1. UNCHANGED dbVars \/ UNCHANGED history
    BY <1>5 DEF Announce, StopServing, Ended, Connector, TakeNew, PutInQueue, TakeClose,
                DropMap, DrainClose, ConnectorEnds, liveVars
  <2> QED
    BY <1>2, <2>1 DEF dbVars
<1>6. ASSUME NEW c \in Clients,
             Open(c) \/ Start(c) \/ Forward(c) \/ FeedEnds(c) \/ HangUp(c)
      PROVE  UNCHANGED history
  BY <1>6 DEF Open, Start, Forward, FeedEnds, HangUp, dbVars
<1> QED
  BY <1>2, <1>3, <1>4, <1>5, <1>6 DEF LiveNext

\* The versions a page meets are results its query has returned.
LEMMA BeforeType ==
  ASSUME NEW page \in Connection, page.ver \in 1 .. Now,
         \A k \in DOMAIN page.feed : page.feed[k].ver \in 1 .. Now
  PROVE  /\ \A k \in DOMAIN page.feed : Before(page, k) \in 1 .. Now
         /\ Before(page, Len(page.feed) + 1) \in 1 .. Now
         /\ Len(page.feed) \in Nat /\ DOMAIN page.feed = 1 .. Len(page.feed)
<1>1. PICK S : S = [changes : Changes, ver : Nat]
  OBVIOUS
<1>2. PICK f : f = page.feed
  OBVIOUS
<1>3. f \in Seq(S)
  BY <1>1, <1>2 DEF Connection
<1>4. /\ Len(f) \in Nat /\ DOMAIN f = 1 .. Len(f)
      /\ \A k \in 1 .. Len(f) + 1 : k = 1 \/ k - 1 \in DOMAIN f
  BY <1>3
<1>5. \A k \in 1 .. Len(f) + 1 : Before(page, k) \in 1 .. Now
  BY <1>2, <1>4 DEF Before
<1> QED
  BY <1>2, <1>4, <1>5

LEMMA ShownGrows ==
  ASSUME TypedInv, [LiveNext]_liveVars, NEW r \in Resources, NEW page \in Connection,
         NEW u, NEW c, ShownAs(r, page, u, c)
  PROVE  ShownAs(r, page, u, c)'
<1> SUFFICES ASSUME page.pc \in {"given", "live"}
             PROVE  ShownAs(r, page, u, c)'
  BY DEF ShownAs
<1>1. /\ \A n \in 1 .. Now : n \in 1 .. Now'
      /\ \A n \in 1 .. Now : Result(r, n)' = Result(r, n)
  BY HistoryGrows
<1>2. /\ page.ver \in 1 .. Now /\ \A k \in DOMAIN page.feed : page.feed[k].ver \in 1 .. Now
      /\ page.view = Result(r, page.ver)
  BY DEF ShownAs
<1>3. /\ \A k \in DOMAIN page.feed : Before(page, k) \in 1 .. Now
      /\ Before(page, Len(page.feed) + 1) \in 1 .. Now
  BY <1>2, BeforeType
<1>4. page.view = Result(r, page.ver)'
  BY <1>1, <1>2
<1>5. \A k \in DOMAIN page.feed :
        Applied(Result(r, Before(page, k))', page.feed[k].changes)
          = Result(r, page.feed[k].ver)'
  BY <1>1, <1>2, <1>3 DEF ShownAs
<1>6. c \in u.subs =>
        /\ u.cur \in 1 .. Now'
        /\ Result(r, Before(page, Len(page.feed) + 1))' = Result(r, u.cur)'
  BY <1>1, <1>3 DEF ShownAs
<1> QED
  BY <1>1, <1>2, <1>4, <1>5, <1>6 DEF ShownAs

\* A page that was just served result n.
LEMMA ServedPage ==
  ASSUME TypedInv, NEW r \in Resources, NEW n \in 1 .. Now, NEW c \in Clients,
         Served(r, c, n)
  PROVE  /\ client'[c].ver = n /\ client'[c].view = Result(r, n) /\ client'[c].feed = << >>
         /\ \A k \in Clients \ {c} : client'[k] = client[k]
<1>1. PICK a, v : a = At("given") /\ v = Result(r, n)
  OBVIOUS
<1>2. a \in Connection /\ a.feed = << >> /\ n \in Nat /\ v \in View
  BY <1>1, AtType, ResultType DEF At, TypedInv, LiveTypeOK, Now
<1>3. PICK f : f = [a EXCEPT !.view = v, !.ver = n]
  OBVIOUS
<1>4. f.ver = n /\ f.view = v /\ f.feed = << >>
  BY <1>2, <1>3 DEF Connection
<1>5. client' = [client EXCEPT ![c] = f] /\ client \in [Clients -> Connection]
  BY <1>1, <1>3 DEF Served, TypedInv, LiveTypeOK
<1> QED
  BY <1>1, <1>4, <1>5

LEMMA ServedShown ==
  ASSUME TypedInv, NEW r \in Resources, NEW n \in 1 .. Now, NEW c \in Clients,
         Served(r, c, n), NEW u, u.cur = n
  PROVE  ShownAs(r, client'[c], u, c)
<1>1. PICK page : page = client'[c]
  OBVIOUS
<1>2. page.ver = n /\ page.view = Result(r, n) /\ page.feed = << >>
  BY <1>1, ServedPage
<1>3. DOMAIN << >> = {} /\ Len(<< >>) + 1 = 1
  OBVIOUS
<1>4. Before(page, Len(page.feed) + 1) = n
  BY <1>2, <1>3 DEF Before
<1>5. ShownAs(r, page, u, c)
  BY <1>2, <1>3, <1>4 DEF ShownAs
<1> QED
  BY <1>1, <1>5

\* Enough: what holds of every page and its updater before the commits of the
\* step are known.
LEMMA ShownEnough ==
  ASSUME TypedInv, TypedInv', [LiveNext]_liveVars,
         \A r \in Resources : \A c \in upd'[r].subs : Want[c] = r,
         \A c \in Clients : ShownAs(Want[c], client'[c], upd'[Want[c]], c)
  PROVE  ShownInv'
<1>1. \A c \in Clients : ShownOf(c)'
  <2> SUFFICES ASSUME NEW c \in Clients
               PROVE  ShownOf(c)'
    OBVIOUS
  <2>1. PICK r, page, u : r = Want[c] /\ page = client'[c] /\ u = upd'[r]
    OBVIOUS
  <2>2. page \in Connection /\ r \in Resources
    BY <2>1, WantAssumption DEF TypedInv, LiveTypeOK
  <2>3. ShownAs(r, page, u, c)
    BY <2>1
  <2>4. ShownAs(r, page, u, c)'
    BY <2>2, <2>3, ShownGrows
  <2> QED
    BY <2>1, <2>4 DEF ShownOf, ShownAs
<1> QED
  BY <1>1 DEF ShownInv

\* A page that is as it was, or gone, and an updater that holds what it held.
LEMMA ShownStays ==
  ASSUME ShownInv, NEW c \in Clients, NEW page,
         page = client[c] \/ page.pc \notin {"given", "live"},
         NEW u, c \in u.subs => c \in upd[Want[c]].subs /\ u.cur = upd[Want[c]].cur
  PROVE  ShownAs(Want[c], page, u, c)
BY DEF ShownInv, ShownOf, ShownAs

LEMMA PublishShown ==
  ASSUME TypedInv, ShownInv, NEW r \in Resources, Publish(r),
         NEW c \in Clients, Want[c] = r
  PROVE  ShownAs(r, client'[c], upd'[r], c)
<1> DEFINE u == upd[r]
<1>1. PICK d : d = DiffOf(Result(r, u.res), Result(r, u.cur))
  OBVIOUS
<1>2. /\ LiveTypeOK /\ HeldBy(u) /\ u \in Updater /\ u.res \in Nat /\ client[c] \in Connection
      /\ upd \in [Resources -> Updater] /\ client \in [Clients -> Connection]
  BY UpdaterType DEF TypedInv, HeldInv, LiveTypeOK
<1>3. u.res \in 1 .. Now /\ u.cur \in 1 .. Now
  BY <1>2 DEF Publish, HeldBy
<1>4. Result(r, u.res) \in View /\ Result(r, u.cur) \in View
  BY <1>2, <1>3, ResultType
<1>5. PICK cur : cur = IF d = NoChange THEN u.cur ELSE u.res
  OBVIOUS
<1>6. PICK w : w = With("sleeping", u.who, u.subs, cur, u.res, u.note)
  OBVIOUS
<1>7. upd'[r] = w /\ w.subs = u.subs /\ w.cur = cur
  BY <1>1, <1>2, <1>5, <1>6, PublishEffect, WithFields DEF Becomes
<1>8. CASE d = NoChange
  BY <1>1, <1>5, <1>7, <1>8, ShownStays DEF Publish
<1>9. CASE d # NoChange
  <2>1. client' = [k \in Clients |->
             IF k \in Handles(r)
               THEN [client[k] EXCEPT !.feed = Append(@, [changes |-> d, ver |-> u.res])]
               ELSE client[k]]
    BY <1>1, <1>9 DEF Publish
  <2>2. CASE c \notin Handles(r)
    <3>1. client'[c] = client[c]
      BY <2>1, <2>2
    <3>2. client[c].pc \in {"given", "live"} => c \notin w.subs
      BY <1>7, <2>2 DEF Handles
    <3>3. ShownOf(c)
      BY DEF ShownInv
    <3> QED
      BY <1>7, <3>1, <3>2, <3>3 DEF ShownOf, ShownAs
  <2>3. CASE c \in Handles(r)
    <3>1. PICK page, m, f, new :
            /\ page = client[c] /\ m = [changes |-> d, ver |-> u.res]
            /\ f = Append(page.feed, m) /\ new = [page EXCEPT !.feed = f]
      OBVIOUS
    <3>2. client'[c] = new
      BY <2>1, <2>3, <3>1
    <3>3. PICK S : S = [changes : Changes, ver : Nat]
      OBVIOUS
    <3>4. page.feed \in Seq(S)
      BY <1>2, <3>1, <3>3 DEF Connection
    <3>5. PICK l : l = Len(page.feed)
      OBVIOUS
    <3>6. /\ l \in Nat /\ DOMAIN f = (DOMAIN page.feed) \cup {l + 1} /\ Len(f) = l + 1
          /\ DOMAIN page.feed = 1 .. l
          /\ f[l + 1] = m /\ \A k \in DOMAIN page.feed : f[k] = page.feed[k]
      BY <3>1, <3>4, <3>5
    <3>7. new.pc = page.pc /\ new.view = page.view /\ new.ver = page.ver /\ new.feed = f
      BY <1>2, <3>1 DEF Connection
    <3>8. page.pc \in {"given", "live"} /\ c \in u.subs /\ ShownAs(r, page, u, c)
      BY <2>3, <3>1 DEF Handles, ShownInv, ShownOf
    <3>9. m.ver = u.res /\ m.changes = d
      BY <3>1
    <3>10. \A k \in 1 .. l + 1 : Before(new, k) = Before(page, k)
      <4>1. \A k \in 1 .. l + 1 : k = 1 \/ k - 1 \in DOMAIN page.feed
        BY <3>6
      <4> QED
        BY <3>6, <3>7, <4>1 DEF Before
    <3>11. Applied(Result(r, Before(page, l + 1)), d) = Result(r, u.res)
      BY <1>1, <1>4, <3>5, <3>8, DiffApplies DEF ShownAs
    <3>12. \A k \in DOMAIN f :
             /\ f[k].ver \in 1 .. Now
             /\ Applied(Result(r, Before(new, k)), f[k].changes) = Result(r, f[k].ver)
      <4>1. ASSUME NEW k \in 1 .. l
            PROVE  /\ f[k].ver \in 1 .. Now
                   /\ Applied(Result(r, Before(new, k)), f[k].changes) = Result(r, f[k].ver)
        <5>1. f[k] = page.feed[k] /\ Before(new, k) = Before(page, k)
          BY <3>6, <3>10, <4>1
        <5> QED
          BY <3>6, <3>8, <4>1, <5>1 DEF ShownAs
      <4>2. /\ f[l + 1].ver \in 1 .. Now
            /\ Applied(Result(r, Before(new, l + 1)), f[l + 1].changes)
                 = Result(r, f[l + 1].ver)
        BY <1>3, <3>6, <3>9, <3>10, <3>11
      <4> QED
        BY <3>6, <4>1, <4>2
    <3>13. Before(new, Len(new.feed) + 1) = u.res
      <4>1. Len(new.feed) + 1 = l + 2 /\ l + 2 # 1 /\ (l + 2) - 1 = l + 1
        BY <3>6, <3>7
      <4> QED
        BY <3>6, <3>7, <3>9, <4>1 DEF Before
    <3>14. ShownAs(r, new, w, c)
      BY <1>3, <1>5, <1>7, <1>9, <3>7, <3>8, <3>12, <3>13 DEF ShownAs
    <3> QED
      BY <1>7, <3>2, <3>14
  <2> QED
    BY <2>2, <2>3
<1> QED
  BY <1>8, <1>9

LEMMA UpdaterShown ==
  ASSUME TypedInv, PlacesInv, ShownInv, [LiveNext]_liveVars, NEW r \in Resources,
         UpdaterStep(r) \/ ReadFails(r)
  PROVE  ShownInv'
<1> DEFINE u == upd[r]
<1>1. /\ TypedInv' /\ LiveTypeOK /\ HeldBy(u) /\ client \in [Clients -> Connection]
      /\ u \in Updater /\ u.who \in Clients \cup {None} /\ u.cur \in Nat /\ u.res \in Nat
      /\ upd \in [Resources -> Updater]
      /\ \A c \in Clients : Want[c] \in Resources
  BY TypedStep, UpdaterType, WantAssumption DEF TypedInv, HeldInv, LiveTypeOK
\* Enough: the new record's listeners and result, and every page of r.
<1>2. ASSUME NEW w, Becomes(r, w), \A c \in w.subs : Want[c] = r,
             \A c \in Clients : \/ client'[c] = client[c] /\ Want[c] # r
                                \/ client'[c].pc = "closed"
                                \/ ShownAs(Want[c], client'[c], w, c) /\ Want[c] = r
      PROVE  ShownInv'
  <2>1. upd'[r] = w /\ \A q \in Resources \ {r} : upd'[q] = upd[q]
    BY <1>1, <1>2 DEF Becomes
  <2>2. \A q \in Resources : \A c \in upd'[q].subs : Want[c] = q
    BY <1>2, <2>1 DEF ShownInv
  <2>3. ASSUME NEW c \in Clients
        PROVE  ShownAs(Want[c], client'[c], upd'[Want[c]], c)
    <3>1. CASE client'[c] = client[c] /\ Want[c] # r
      <4>1. upd'[Want[c]] = upd[Want[c]]
        BY <1>1, <2>1, <3>1
      <4> QED
        BY <3>1, <4>1, ShownStays
    <3>2. CASE client'[c].pc = "closed"
      BY <3>2 DEF ShownAs
    <3>3. CASE ShownAs(Want[c], client'[c], w, c) /\ Want[c] = r
      BY <2>1, <3>3
    <3> QED
      BY <1>2, <3>1, <3>2, <3>3
  <2> QED
    BY <1>1, <2>2, <2>3, ShownEnough
\* The updater listens to the same pages and holds the same result.
<1>3. ASSUME NEW pc, NEW who, NEW res, NEW note,
             Becomes(r, With(pc, who, u.subs, u.cur, res, note)),
             \A c \in Clients : client'[c] = client[c] \/ client'[c].pc = "closed"
      PROVE  ShownInv'
  <2>1. PICK w : w = With(pc, who, u.subs, u.cur, res, note)
    OBVIOUS
  <2>2. w.subs = u.subs /\ w.cur = u.cur
    BY <2>1, WithFields
  <2>3. \A c \in w.subs : Want[c] = r
    BY <2>2 DEF ShownInv
  <2>4. ASSUME NEW c \in Clients, client'[c] = client[c], Want[c] = r
        PROVE  ShownAs(Want[c], client'[c], w, c)
    BY <2>2, <2>4, ShownStays
  <2> QED
    BY <1>2, <1>3, <2>1, <2>3, <2>4
<1>4. \A c \in Clients : (UNCHANGED client) => client'[c] = client[c]
  OBVIOUS
<1>5. CASE TakeFirst(r)
  BY <1>1, <1>3, <1>4, <1>5, TakeFirstEffect DEF TakeFirst
<1>6. CASE Read(r)
  BY <1>1, <1>3, <1>4, <1>6, ReadEffect DEF Read
<1>7. CASE ReadFails(r)
  <2>1. \A c \in Clients : client'[c] = client[c] \/ client'[c].pc = "closed"
    BY <1>1, <1>7, DroppedType DEF ReadFails
  <2> QED
    BY <1>1, <1>3, <1>7, <2>1, ReadFailsEffect
<1>8. CASE TakeUpdate(r)
  BY <1>1, <1>3, <1>4, <1>8, TakeUpdateEffect DEF TakeUpdate
<1>9. CASE FellBehind(r) \/ NobodyLeft(r) \/ QueueShut(r) \/ WakeUp(r)
  <2>1. PICK pc : Goto(r, pc)
    BY <1>9 DEF FellBehind, NobodyLeft, QueueShut, WakeUp
  <2>2. UNCHANGED client
    BY <1>9 DEF FellBehind, NobodyLeft, QueueShut, WakeUp
  <2> QED
    BY <1>1, <1>3, <2>1, <2>2, GotoEffect
<1>10. CASE ServeFirst(r)
  <2>1. PICK k, n : k = u.who /\ n = u.res
    OBVIOUS
  <2>2. /\ k \in Clients /\ n \in 1 .. Now /\ Served(r, k, n) /\ Want[k] = r
    BY <1>1, <1>10, <2>1, NobodyAssumption DEF ServeFirst, HeldBy, PlacesInv
  <2>3. PICK w : w = With("loop", None, {k}, n, n, u.note)
    OBVIOUS
  <2>4. Becomes(r, w)
    BY <1>1, <1>10, <2>1, <2>3, ServeFirstEffect
  <2>5. w.subs = {k} /\ w.cur = n
    BY <2>3, WithFields
  <2>6. ShownAs(r, client'[k], w, k)
    BY <2>2, <2>5, ServedShown
  <2>7. ASSUME NEW c \in Clients, c # k
        PROVE  client'[c] = client[c] /\ (Want[c] = r => ShownAs(Want[c], client'[c], w, c))
    <3>1. client'[c] = client[c]
      BY <2>2, <2>7, ServedPage
    <3> QED
      BY <2>5, <2>7, <3>1, ShownStays
  <2> QED
    BY <1>2, <2>2, <2>4, <2>5, <2>6, <2>7
<1>11. CASE Publish(r)
  <2>1. PICK cur : Becomes(r, With("sleeping", u.who, u.subs, cur, u.res, u.note))
    BY <1>1, <1>11, PublishEffect
  <2>2. PICK w : w = With("sleeping", u.who, u.subs, cur, u.res, u.note)
    OBVIOUS
  <2>3. w.subs = u.subs /\ upd'[r] = w
    BY <1>1, <2>1, <2>2, WithFields DEF Becomes
  <2>4. \A c \in w.subs : Want[c] = r
    BY <2>3 DEF ShownInv
  <2>5. ASSUME NEW c \in Clients
        PROVE  \/ client'[c] = client[c] /\ Want[c] # r
               \/ ShownAs(Want[c], client'[c], w, c) /\ Want[c] = r
    <3>1. CASE Want[c] = r
      BY <1>11, <2>3, <3>1, PublishShown
    <3>2. CASE Want[c] # r
      <4>1. c \notin Handles(r)
        BY <3>2 DEF Handles, ShownInv
      <4>2. client'[c] = client[c]
        BY <1>11, <4>1 DEF Publish
      <4> QED
        BY <3>2, <4>2
    <3> QED
      BY <3>1, <3>2
  <2> QED
    BY <1>2, <2>1, <2>2, <2>4, <2>5
<1>12. CASE Accept(r)
  <2>1. PICK k, n : k = Head(queue[r]) /\ n = u.cur
    OBVIOUS
  <2>2. k \in Clients /\ Want[k] = r /\ n \in 1 .. Now
    <3>1. queue[r] \in Seq(Clients) /\ queue[r] # << >>
      BY <1>12 DEF Accept, TypedInv, LiveTypeOK
    <3>2. k \in Clients /\ k = queue[r][1] /\ 1 \in DOMAIN queue[r]
      BY <2>1, <3>1
    <3> QED
      BY <1>1, <1>12, <2>1, <3>2 DEF PlacesInv, Accept, HeldBy
  <2>3. CASE Becomes(r, With("loop", u.who, u.subs \cup {k}, n, u.res, u.note)) /\ Served(r, k, n)
    <3>1. PICK w : w = With("loop", u.who, u.subs \cup {k}, n, u.res, u.note)
      OBVIOUS
    <3>2. w.subs = u.subs \cup {k} /\ w.cur = n
      BY <3>1, WithFields
    <3>3. ShownAs(r, client'[k], w, k)
      BY <2>2, <2>3, <3>2, ServedShown
    <3>4. \A c \in w.subs : Want[c] = r
      BY <2>2, <3>2 DEF ShownInv
    <3>5. ASSUME NEW c \in Clients, c # k
          PROVE  client'[c] = client[c] /\ (Want[c] = r => ShownAs(Want[c], client'[c], w, c))
      <4>1. client'[c] = client[c]
        BY <2>2, <2>3, <3>5, ServedPage
      <4> QED
        BY <2>1, <3>2, <3>5, <4>1, ShownStays
    <3> QED
      BY <1>2, <2>2, <2>3, <3>1, <3>3, <3>4, <3>5
  <2>4. CASE Becomes(r, With("closing", k, u.subs, u.cur, u.res, u.note)) /\ UNCHANGED client
    BY <1>3, <2>4
  <2> QED
    BY <1>1, <1>12, <2>1, <2>3, <2>4, AcceptEffect
<1>13. CASE SendClose(r)
  <2>1. Becomes(r, NoUpdater) /\ NoUpdater.subs = {}
    BY <1>13, FreshUpdaters, WithFields DEF SendClose, Becomes
  <2>2. \A c \in Clients : client'[c] = client[c] \/ client'[c].pc = "closed"
    BY <1>1, <1>13, DroppedType DEF SendClose
  <2>3. ASSUME NEW c \in Clients, client'[c] = client[c], Want[c] = r
        PROVE  ShownAs(Want[c], client'[c], NoUpdater, c)
    BY <2>1, <2>3, ShownStays
  <2> QED
    BY <1>2, <2>1, <2>2, <2>3
<1> QED
  BY <1>5, <1>6, <1>7, <1>8, <1>9, <1>10, <1>11, <1>12, <1>13 DEF UpdaterStep

LEMMA ForwardShown ==
  ASSUME TypedInv, ShownInv, NEW c \in Clients, Forward(c)
  PROVE  ShownAs(Want[c], client'[c], upd[Want[c]], c)
<1>1. PICK r, u, page, m : /\ r = Want[c] /\ u = upd[r] /\ page = client[c]
                           /\ m = Head(page.feed)
  OBVIOUS
<1>2. /\ page \in Connection /\ page.pc = "live" /\ page.feed # << >>
      /\ client \in [Clients -> Connection] /\ ShownAs(r, page, u, c)
  BY <1>1 DEF Forward, TypedInv, LiveTypeOK, ShownInv, ShownOf
<1>3. CASE client' = Dropped({c})
  <2>1. client'[c].pc = "closed"
    BY <1>3, DroppedType DEF TypedInv
  <2> QED
    BY <2>1 DEF ShownAs
<1>4. CASE client' = [client EXCEPT ![c].view = Applied(@, m.changes),
                                    ![c].ver = m.ver, ![c].feed = Tail(@)]
  <2>1. PICK v, n, f, new :
          /\ v = Applied(page.view, m.changes) /\ n = m.ver /\ f = Tail(page.feed)
          /\ new = [page EXCEPT !.view = v, !.ver = n, !.feed = f]
    OBVIOUS
  <2>2. client'[c] = new
    BY <1>1, <1>2, <1>4, <2>1
  <2>3. new.pc = "live" /\ new.view = v /\ new.ver = n /\ new.feed = f
    BY <1>2, <2>1 DEF Connection
  <2>4. PICK S : S = [changes : Changes, ver : Nat]
    OBVIOUS
  <2>5. page.feed \in Seq(S)
    BY <1>2, <2>4 DEF Connection
  <2>6. PICK l : l = Len(page.feed)
    OBVIOUS
  <2>7. /\ l \in Nat /\ l >= 1 /\ DOMAIN page.feed = 1 .. l /\ page.feed[1] = m
        /\ DOMAIN f = 1 .. (l - 1) /\ Len(f) = l - 1
        /\ \A k \in 1 .. (l - 1) : f[k] = page.feed[k + 1]
    BY <1>1, <1>2, <2>1, <2>5, <2>6
  <2>8. \A k \in 1 .. l : Before(new, k) = Before(page, k + 1)
    <3> SUFFICES ASSUME NEW k \in 1 .. l
                 PROVE  Before(new, k) = Before(page, k + 1)
      OBVIOUS
    <3>1. k + 1 # 1 /\ (k + 1) - 1 = k
      BY <2>7
    <3>2. Before(page, k + 1) = page.feed[k].ver
      BY <3>1 DEF Before
    <3>3. CASE k = 1
      BY <2>1, <2>3, <2>7, <3>2, <3>3 DEF Before
    <3>4. CASE k # 1
      <4>1. k - 1 \in 1 .. (l - 1) /\ (k - 1) + 1 = k
        BY <2>7, <3>4
      <4>2. f[k - 1] = page.feed[k]
        BY <2>7, <4>1
      <4> QED
        BY <2>3, <3>2, <3>4, <4>2 DEF Before
    <3> QED
      BY <3>3, <3>4
  <2>9. new.ver \in 1 .. Now /\ new.view = Result(r, new.ver)
    <3>1. Before(page, 1) = page.ver
      BY DEF Before
    <3>2. 1 \in DOMAIN page.feed /\ page.feed[1] = m
      BY <2>7
    <3>3. /\ page.view = Result(r, page.ver) /\ page.feed[1].ver \in 1 .. Now
          /\ Applied(Result(r, Before(page, 1)), page.feed[1].changes)
               = Result(r, page.feed[1].ver)
      BY <1>2, <3>2 DEF ShownAs
    <3> QED
      BY <2>1, <2>3, <3>1, <3>2, <3>3
  <2>10. \A k \in DOMAIN f :
           /\ f[k].ver \in 1 .. Now
           /\ Applied(Result(r, Before(new, k)), f[k].changes) = Result(r, f[k].ver)
    <3> SUFFICES ASSUME NEW k \in 1 .. (l - 1)
                 PROVE  /\ f[k].ver \in 1 .. Now
                        /\ Applied(Result(r, Before(new, k)), f[k].changes)
                             = Result(r, f[k].ver)
      BY <2>7
    <3>1. k + 1 \in DOMAIN page.feed /\ k \in 1 .. l /\ f[k] = page.feed[k + 1]
      BY <2>7
    <3>2. Before(new, k) = Before(page, k + 1)
      BY <2>8, <3>1
    <3> QED
      BY <1>2, <3>1, <3>2 DEF ShownAs
  <2>11. Before(new, Len(new.feed) + 1) = Before(page, Len(page.feed) + 1)
    <3>1. Len(new.feed) + 1 = l /\ l \in 1 .. l /\ Len(page.feed) + 1 = l + 1
      BY <2>3, <2>6, <2>7
    <3> QED
      BY <2>8, <3>1
  <2>12. ShownAs(r, new, u, c)
    BY <1>2, <2>3, <2>9, <2>10, <2>11 DEF ShownAs
  <2> QED
    BY <1>1, <2>2, <2>12
<1> QED
  BY <1>1, <1>3, <1>4 DEF Forward

LEMMA ShownStep ==
  ASSUME TypedInv, PlacesInv, ShownInv, [LiveNext]_liveVars
  PROVE  ShownInv'
<1>1. /\ TypedInv' /\ LiveTypeOK /\ client \in [Clients -> Connection]
      /\ upd \in [Resources -> Updater] /\ Spawned.subs = {}
      /\ \A c \in Clients : Want[c] \in Resources
  BY TypedStep, FreshUpdaters, WithFields, WantAssumption DEF TypedInv, LiveTypeOK
\* Enough: pages are as they were, closed or unopened, and updaters as they were
\* or new.
<1>2. ASSUME \A c \in Clients : client'[c] = client[c] \/ client'[c].pc \notin {"given", "live"},
             \A r \in Resources : \/ upd'[r].subs = {}
                                  \/ upd'[r].subs = upd[r].subs /\ upd'[r].cur = upd[r].cur
      PROVE  ShownInv'
  <2>1. \A r \in Resources : \A c \in upd'[r].subs : Want[c] = r
    BY <1>2 DEF ShownInv
  <2>2. ASSUME NEW c \in Clients
        PROVE  ShownAs(Want[c], client'[c], upd'[Want[c]], c)
    BY <1>1, <1>2, ShownStays
  <2> QED
    BY <1>1, <2>1, <2>2, ShownEnough
<1>3. CASE Announce
  <2>1. \A r \in Resources : upd'[r].subs = upd[r].subs /\ upd'[r].cur = upd[r].cur
    BY <1>1, <1>3 DEF Announce, Updater
  <2> QED
    BY <1>2, <1>3, <2>1 DEF Announce
<1>4. CASE Commit \/ StopServing \/ Ended \/ ConnectorEnds \/ UNCHANGED liveVars
  BY <1>2, <1>4 DEF Commit, StopServing, Ended, ConnectorEnds, liveVars
<1>5. CASE TakeNew \/ PutInQueue \/ TakeClose
  <2>1. UNCHANGED client
    BY <1>5 DEF TakeNew, PutInQueue, TakeClose
  <2>2. upd' = upd \/ \E q : upd' = [upd EXCEPT ![q] = Spawned]
    BY <1>5 DEF TakeNew, PutInQueue, TakeClose
  <2> QED
    BY <1>1, <1>2, <2>1, <2>2
<1>6. CASE DropMap \/ DrainClose
  <2>1. UNCHANGED upd /\ \E cs : client' = Dropped(cs)
    BY <1>6 DEF DropMap, DrainClose
  <2> QED
    BY <1>1, <1>2, <2>1, DroppedType
<1>7. ASSUME NEW k \in Clients, Open(k) \/ Start(k) \/ FeedEnds(k) \/ HangUp(k)
      PROVE  ShownInv'
  <2>1. UNCHANGED upd
    BY <1>7 DEF Open, Start, FeedEnds, HangUp
  <2>2. CASE Open(k)
    BY <1>1, <1>2, <2>1, <2>2, AtType DEF Open
  <2>3. CASE FeedEnds(k) \/ HangUp(k)
    <3>1. client' = Dropped({k})
      BY <2>3 DEF FeedEnds, HangUp
    <3> QED
      BY <1>1, <1>2, <2>1, <3>1, DroppedType
  <2>4. CASE Start(k)
    <3>1. client' = [client EXCEPT ![k].pc = "live"] /\ client[k].pc = "given"
      BY <2>4 DEF Start
    <3>2. PICK page, new : page = client[k] /\ new = [page EXCEPT !.pc = "live"]
      OBVIOUS
    <3>3. /\ page.pc = "given" /\ new.view = page.view /\ new.ver = page.ver
          /\ new.feed = page.feed
      BY <1>1, <3>1, <3>2 DEF Connection
    <3>4. client'[k] = new /\ \A c \in Clients \ {k} : client'[c] = client[c]
      BY <1>1, <3>1, <3>2
    <3>5. ShownAs(Want[k], page, upd[Want[k]], k)
      BY <3>2 DEF ShownInv, ShownOf
    <3>6. ShownAs(Want[k], new, upd[Want[k]], k)
      BY <3>3, <3>5 DEF ShownAs, Before
    <3>7. \A c \in Clients : ShownAs(Want[c], client'[c], upd'[Want[c]], c)
      BY <2>1, <3>4, <3>6, ShownStays
    <3>8. \A r \in Resources : \A c \in upd'[r].subs : Want[c] = r
      BY <2>1 DEF ShownInv
    <3> QED
      BY <1>1, <3>7, <3>8, ShownEnough
  <2> QED
    BY <1>7, <2>2, <2>3, <2>4
<1>8. ASSUME NEW k \in Clients, Forward(k)
      PROVE  ShownInv'
  <2>1. UNCHANGED upd
    BY <1>8 DEF Forward
  <2>2. \A c \in Clients \ {k} : client'[c] = client[c]
    BY <1>1, <1>8, DroppedType DEF Forward
  <2>3. \A c \in Clients : ShownAs(Want[c], client'[c], upd'[Want[c]], c)
    BY <1>8, <2>1, <2>2, ForwardShown, ShownStays
  <2>4. \A r \in Resources : \A c \in upd'[r].subs : Want[c] = r
    BY <2>1 DEF ShownInv
  <2> QED
    BY <1>1, <2>3, <2>4, ShownEnough
<1> QED
  BY <1>3, <1>4, <1>5, <1>6, <1>7, <1>8, UpdaterShown DEF LiveNext, Connector

\* Every page shows a result its query returned after some commit, each message
\* on its way takes that result to a later one, and the last of them to what the
\* updater holds, whenever the page joined.
THEOREM PagesFollow == LiveSpec => []PagesShowResults
<1>1. LiveInit => ShownInv
  <2> SUFFICES ASSUME LiveInit
               PROVE  ShownInv
    OBVIOUS
  <2>1. \A r \in Resources : upd[r].subs = {}
    BY FreshUpdaters, WithFields DEF LiveInit
  <2>2. \A c \in Clients : client[c].pc = "idle"
    BY AtType DEF LiveInit
  <2> QED
    BY <2>1, <2>2 DEF ShownInv, ShownOf, ShownAs
<1>2. LiveInv /\ ShownInv /\ [LiveNext]_liveVars => ShownInv'
  BY ShownStep DEF LiveInv, TypedInv
<1>3. ShownInv => PagesShowResults
  BY DEF ShownInv, ShownOf, ShownAs, PagesShowResults
<1> QED
  BY <1>1, <1>2, <1>3, LiveInvariant, PTL DEF LiveSpec
=============================================================================
