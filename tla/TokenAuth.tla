------------------------------ MODULE TokenAuth ------------------------------
(***************************************************************************)
(* The token cache of server/src/oauth.rs: the auth_server task, the       *)
(* unbounded channel it takes requests from, and the AuthHelpers that ask  *)
(* it.  A helper is one copy of (token, expire, tx): the two processors    *)
(* have one each and every send_envelope or complete_envelope job works    *)
(* with a copy of its processor's.                                         *)
(*                                                                         *)
(* Time is one discrete clock; Instant::now() is its value.  A token is    *)
(* its number in the order DocuSign issued them, 0 the empty one.          *)
(***************************************************************************)
EXTENDS Naturals, Sequences, Functions

CONSTANTS
  Helpers,        \* copies of AuthHelper
  Life,           \* how long the server keeps a token: 3000 s
  ProviderLife,   \* how long DocuSign accepts it: 3600 s
  Delay,          \* bound: answer on the way, and token returned but not used
  MaxTime,        \* bound on the clock
  None            \* Rust's None

ASSUME HelpersAssumption == None \notin Helpers
ASSUME TimesAssumption ==
  /\ Life \in Nat \ {0} /\ ProviderLife \in Nat
  /\ Delay \in Nat /\ MaxTime \in Nat

(* What the 600 s between the two lifetimes are for.                       *)
ASSUME MarginAssumption == Life + 2 * Delay <= ProviderLife

VARIABLES
  now,      \* the clock
  queue,    \* requests in the channel, each with its oneshot sender
  server,   \* the auth_server task and its `token'
  helper,   \* the helpers
  issued    \* history: when DocuSign issued each token

authVars == <<now, queue, server, helper, issued>>

Server == [pc : {"idle", "renewing", "issued", "dead"},
           for : Helpers \cup {None}, token : Nat, expire : Nat]

\* since: when the helper was handed the token it is about to use, 0 otherwise.
Helper == [pc : {"idle", "waiting", "using", "panicked"},
           token : Nat, expire : Nat, since : Nat]

\* The task of the helper is gone, and the helper with it.
Panicked == [pc |-> "panicked", token |-> 0, expire |-> 0, since |-> 0]

(* Every variable has its type; a token is one that was issued, or none.   *)
AuthTypeOK ==
  /\ now \in Nat
  /\ queue \in Seq(Helpers)
  /\ server \in Server /\ server.token \in 0 .. Len(issued)
  /\ helper \in [Helpers -> Helper]
  /\ \A h \in Helpers : helper[h].token \in 0 .. Len(issued)
  /\ issued \in Seq(Nat)

AuthInit ==
  /\ now = 0
  /\ queue = << >>
  /\ server = [pc |-> "idle", for |-> None, token |-> 0, expire |-> 0]
  /\ helper = [h \in Helpers |-> [pc |-> "idle", token |-> 0, expire |-> 0,
                                  since |-> 0]]
  /\ issued = << >>

-----------------------------------------------------------------------------
(* AuthHelper.                                                             *)

\* get(): the token at hand, or a request to the task.  When the task is gone
\* the send fails, the oneshot sender is dropped with it and unwrap() panics.
Get(h) ==
  /\ helper[h].pc = "idle"
  /\ \/ /\ helper[h].expire > now
        /\ helper' = [helper EXCEPT ![h].pc = "using", ![h].since = now]
        /\ UNCHANGED queue
     \/ /\ helper[h].expire <= now
        /\ server.pc # "dead"
        /\ queue' = Append(queue, h)
        /\ helper' = [helper EXCEPT ![h].pc = "waiting"]
     \/ /\ helper[h].expire <= now
        /\ server.pc = "dead"
        /\ helper' = [helper EXCEPT ![h] = Panicked]
        /\ UNCHANGED queue
  /\ UNCHANGED <<now, server, issued>>

\* The request with the token reaches DocuSign.
Use(h) ==
  /\ helper[h].pc = "using"
  /\ helper' = [helper EXCEPT ![h].pc = "idle", ![h].since = 0]
  /\ UNCHANGED <<now, queue, server, issued>>

\* token.clone(): a new job h starts from the helper of its processor p.
CopyOf(h, p) ==
  /\ h # p
  /\ helper[h].pc = "idle" /\ helper[p].pc = "idle"
  /\ helper' = [helper EXCEPT ![h].token = helper[p].token,
                              ![h].expire = helper[p].expire]
  /\ UNCHANGED <<now, queue, server, issued>>

\* Another job of the same processor panicked: this one is dropped as well.
Unwound(h) ==
  /\ helper[h].pc \in {"waiting", "using"}
  /\ \E p \in Helpers \ {h} : helper[p].pc = "panicked"
  /\ helper' = [helper EXCEPT ![h] = Panicked]
  /\ UNCHANGED <<now, queue, server, issued>>

-----------------------------------------------------------------------------
(* auth_server.                                                            *)

\* tx.send(token).unwrap_or_default(): nothing happens if h has stopped waiting.
HandedTo(h, n, exp) ==
  IF helper[h].pc = "waiting"
    THEN [helper EXCEPT ![h] = [pc |-> "using", token |-> n, expire |-> exp,
                                since |-> now]]
    ELSE helper

\* Seeded fault: every request renews.
ServeRenews ==
  /\ server.pc = "idle"
  /\ queue # << >>
  /\ queue' = Tail(queue)
  /\ server' = [server EXCEPT !.pc = "renewing", !.for = Head(queue)]
  /\ UNCHANGED <<now, helper, issued>>

Serve ==
  /\ server.pc = "idle"
  /\ queue # << >>
  /\ queue' = Tail(queue)
  /\ \/ /\ server.expire > now
        /\ helper' = HandedTo(Head(queue), server.token, server.expire)
        /\ UNCHANGED server
     \/ /\ server.expire <= now
        /\ server' = [server EXCEPT !.pc = "renewing", !.for = Head(queue)]
        /\ UNCHANGED helper
  /\ UNCHANGED <<now, issued>>

\* DocuSign issues a token; its answer is on the way.
Issue ==
  /\ server.pc = "renewing"
  /\ issued' = Append(issued, now)
  /\ server' = [server EXCEPT !.pc = "issued"]
  /\ UNCHANGED <<now, queue, helper>>

\* Seeded faults: the token is kept for as long as DocuSign accepts it; its
\* number runs ahead; the answer is forgotten.
RenewedLonger ==
  /\ server.pc = "issued"
  /\ server' = [pc |-> "idle", for |-> None, token |-> Len(issued),
                expire |-> now + ProviderLife]
  /\ helper' = HandedTo(server.for, Len(issued), now + ProviderLife)
  /\ UNCHANGED <<now, queue, issued>>

RenewedAhead ==
  /\ server.pc = "issued"
  /\ server' = [pc |-> "idle", for |-> None, token |-> Len(issued) + 1,
                expire |-> now + Life]
  /\ helper' = HandedTo(server.for, Len(issued), now + Life)
  /\ UNCHANGED <<now, queue, issued>>

RenewedSilent ==
  /\ server.pc = "issued"
  /\ server' = [pc |-> "idle", for |-> None, token |-> Len(issued),
                expire |-> now + Life]
  /\ UNCHANGED <<now, queue, helper, issued>>

\* The lifetime counts from the arrival of the answer.
Renewed ==
  /\ server.pc = "issued"
  /\ server' = [pc |-> "idle", for |-> None, token |-> Len(issued),
                expire |-> now + Life]
  /\ helper' = HandedTo(server.for, Len(issued), now + Life)
  /\ UNCHANGED <<now, queue, issued>>

\* renew_token unwraps every error: the task ends.  The oneshot sender it held
\* is dropped, so the helper it served panics; dropping the receiver closes the
\* channel but does not empty it, so those queued behind are never answered.
RenewalFails ==
  /\ server.pc \in {"renewing", "issued"}
  /\ server' = [server EXCEPT !.pc = "dead", !.for = None]
  /\ helper' = [helper EXCEPT ![server.for] =
                  IF @.pc = "waiting" THEN Panicked ELSE @]
  /\ UNCHANGED <<now, queue, issued>>

-----------------------------------------------------------------------------
(* Time passes, but no answer and no handed token waits longer than Delay. *)
Tick ==
  /\ now < MaxTime
  /\ server.pc = "issued" => now < issued[Len(issued)] + Delay
  /\ \A h \in Helpers : helper[h].pc = "using" => now < helper[h].since + Delay
  /\ now' = now + 1
  /\ UNCHANGED <<queue, server, helper, issued>>

TimeIsUp == now = MaxTime /\ UNCHANGED authVars

AuthNext ==
  \/ \E h \in Helpers : Get(h) \/ Use(h) \/ Unwound(h)
  \/ \E h, p \in Helpers : CopyOf(h, p)
  \/ Serve \/ Issue \/ Renewed \/ RenewalFails
  \/ Tick \/ TimeIsUp

AuthSpec == AuthInit /\ [][AuthNext]_authVars

(***************************************************************************)
(* The task goes on as long as it lives, and its request to DocuSign ends, *)
(* with a token or with the failure of RenewalFails.                       *)
(***************************************************************************)
AuthFairSpec ==
  AuthSpec /\ WF_authVars(Serve) /\ WF_authVars(Issue) /\ WF_authVars(Renewed)

-----------------------------------------------------------------------------
(* Properties.                                                             *)

(* However many helpers find their token expired at the same time, one     *)
(* renewal serves them all: DocuSign is never asked for a token within the *)
(* lifetime of the last (oauth.rs:44).                                     *)
TokensSpaced ==
  \A n \in 1 .. Len(issued) - 1 : issued[n + 1] >= issued[n] + Life

(* A token is never used after DocuSign stopped accepting it, although it  *)
(* is checked long before: on the way through two caches and a copy, its   *)
(* age is the answer's delay, the lifetime the server gives it and the     *)
(* delay up to its use (oauth.rs:73, 106).                                 *)
UsedInTime ==
  \A h \in Helpers : helper[h].pc = "using" =>
    /\ helper[h].token # 0
    /\ now < issued[helper[h].token] + ProviderLife

(* Every get ends, with a token or a panic, unless the task died first and *)
(* the request is one of those left in the closed channel.                 *)
EveryGetEnds ==
  \A h \in Helpers : helper[h].pc = "waiting" ~>
    \/ helper[h].pc # "waiting"
    \/ server.pc = "dead" /\ h \in Range(queue)
=============================================================================
