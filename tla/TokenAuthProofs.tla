--------------------------- MODULE TokenAuthProofs ---------------------------
(***************************************************************************)
(* Theorems about TokenAuth, for any number of helpers, any lifetimes and  *)
(* any length of run.                                                      *)
(***************************************************************************)
EXTENDS TokenAuth, TLAPS

(***************************************************************************)
(* The inductive invariant.  What ties an expiry kept in a cache to the    *)
(* moment DocuSign issued the token: it is a lifetime after the arrival of *)
(* the answer, and the answer was at most Delay on its way.                *)
(***************************************************************************)
Aged(c) ==
  \/ c.token = 0 /\ c.expire = 0
  \/ /\ c.token > 0
     /\ issued[c.token] + Life <= c.expire
     /\ c.expire <= issued[c.token] + Delay + Life

\* The server holds the newest token, except while the next is on its way.
ServerInv ==
  /\ Aged(server)
  /\ server.pc = "idle" => server.token = Len(issued)
  /\ server.pc = "renewing" =>
       /\ server.token = Len(issued)
       /\ server.expire <= now
       /\ server.for \in Helpers
  /\ server.pc = "issued" =>
       /\ Len(issued) > 0
       /\ now <= issued[Len(issued)] + Delay
       /\ server.for \in Helpers

HelpersInv ==
  \A h \in Helpers :
    /\ Aged(helper[h])
    /\ helper[h].pc = "using" =>
         /\ helper[h].token > 0
         /\ helper[h].since <= now
         /\ now <= helper[h].since + Delay
         /\ helper[h].since < helper[h].expire

IssuedInv ==
  /\ \A n \in 1 .. Len(issued) : issued[n] <= now
  /\ TokensSpaced

AuthInv == AuthTypeOK /\ ServerInv /\ HelpersInv /\ IssuedInv

-----------------------------------------------------------------------------
LEMMA AuthInitInv ==
  ASSUME AuthInit PROVE AuthInv
<1>1. issued \in Seq(Nat) /\ Len(issued) = 0 /\ queue \in Seq(Helpers)
  BY DEF AuthInit
<1>2. AuthTypeOK
  BY <1>1 DEF AuthInit, AuthTypeOK, Server, Helper
<1>3. ServerInv /\ HelpersInv
  BY <1>1 DEF AuthInit, ServerInv, HelpersInv, Aged
<1>4. IssuedInv
  BY <1>1 DEF IssuedInv, TokensSpaced
<1> QED
  BY <1>2, <1>3, <1>4 DEF AuthInv

\* The server hands h a token it has kept for less than its lifetime.
LEMMA HandedInv ==
  ASSUME AuthTypeOK, HelpersInv, NEW h, NEW n \in Nat, NEW e \in Nat,
         n \in 1 .. Len(issued), e > now,
         issued[n] + Life <= e, e <= issued[n] + Delay + Life,
         helper' = HandedTo(h, n, e), UNCHANGED <<now, issued>>
  PROVE  /\ HelpersInv'
         /\ helper' \in [Helpers -> Helper]
         /\ \A p \in Helpers : helper'[p].token \in 0 .. Len(issued')
<1> DEFINE new == [pc |-> "using", token |-> n, expire |-> e, since |-> now]
<1>1. new \in Helper
  BY DEF AuthTypeOK, Helper
<1>2. helper' = helper \/ helper' = [helper EXCEPT ![h] = new]
  BY DEF HandedTo
<1>3. /\ new.pc = "using" /\ new.token = n /\ new.expire = e /\ new.since = now
  OBVIOUS
<1> HIDE DEF new
<1>4. \A p \in Helpers : helper'[p] = helper[p] \/ helper'[p] = new
  BY <1>2 DEF AuthTypeOK
<1>5. helper' \in [Helpers -> Helper]
  BY <1>1, <1>2 DEF AuthTypeOK
<1>6. \A p \in Helpers : helper'[p].token \in 0 .. Len(issued')
  BY <1>3, <1>4 DEF AuthTypeOK
<1>7. now + Delay \in Nat /\ now <= now + Delay
  BY TimesAssumption DEF AuthTypeOK
<1>8. HelpersInv'
  <2> SUFFICES ASSUME NEW p \in Helpers
               PROVE  /\ Aged(helper[p])'
                      /\ helper'[p].pc = "using" =>
                           /\ helper'[p].token > 0
                           /\ helper'[p].since <= now'
                           /\ now' <= helper'[p].since + Delay
                           /\ helper'[p].since < helper'[p].expire
    BY DEF HelpersInv
  <2>1. CASE helper'[p] = helper[p]
    BY <2>1 DEF HelpersInv, Aged
  <2>2. CASE helper'[p] = new
    <3>1. /\ helper'[p].pc = "using" /\ helper'[p].token = n
          /\ helper'[p].expire = e /\ helper'[p].since = now
      BY <1>3, <2>2
    <3>2. Aged(helper[p])'
      BY <3>1 DEF Aged
    <3> QED
      BY <1>7, <3>1, <3>2 DEF AuthTypeOK
  <2> QED
    BY <1>4, <2>1, <2>2
<1> QED
  BY <1>5, <1>6, <1>8

LEMMA GetInv ==
  ASSUME AuthInv, NEW h \in Helpers, Get(h)
  PROVE  AuthInv'
<1>1. UNCHANGED <<now, server, issued>>
  BY DEF Get
<1>2. IssuedInv' /\ ServerInv'
  BY <1>1 DEF AuthInv, IssuedInv, TokensSpaced, ServerInv, Aged
<1>3. CASE /\ helper[h].expire > now
           /\ helper' = [helper EXCEPT ![h].pc = "using", ![h].since = now]
           /\ UNCHANGED queue
  <2>1. AuthTypeOK'
    BY <1>1, <1>3 DEF AuthInv, AuthTypeOK, Helper
  <2>2. helper[h].token > 0
    BY <1>3 DEF AuthInv, AuthTypeOK, HelpersInv, Aged
  <2>3. HelpersInv'
    <3> SUFFICES ASSUME NEW p \in Helpers
                 PROVE  /\ Aged(helper[p])'
                        /\ helper'[p].pc = "using" =>
                             /\ helper'[p].token > 0
                             /\ helper'[p].since <= now'
                             /\ now' <= helper'[p].since + Delay
                             /\ helper'[p].since < helper'[p].expire
      BY DEF HelpersInv
    <3>1. CASE p # h
      BY <1>1, <1>3, <3>1 DEF AuthInv, AuthTypeOK, HelpersInv, Aged
    <3>2. CASE p = h
      <4>1. /\ helper'[p].token = helper[p].token
            /\ helper'[p].expire = helper[p].expire
            /\ helper'[p].since = now
        BY <1>3, <3>2 DEF AuthInv, AuthTypeOK, Helper
      <4> QED
        BY <1>1, <1>3, <2>2, <3>2, <4>1, TimesAssumption
        DEF AuthInv, AuthTypeOK, HelpersInv, Aged
    <3> QED
      BY <3>1, <3>2
  <2> QED
    BY <1>2, <2>1, <2>3 DEF AuthInv
<1>4. CASE /\ queue' = Append(queue, h)
           /\ helper' = [helper EXCEPT ![h].pc = "waiting"]
  <2>1. queue' \in Seq(Helpers)
    BY <1>4 DEF AuthInv, AuthTypeOK
  <2>2. /\ helper' \in [Helpers -> Helper]
        /\ \A p \in Helpers : helper'[p].token = helper[p].token
    BY <1>4 DEF AuthInv, AuthTypeOK, Helper
  <2>3. AuthTypeOK'
    BY <1>1, <2>1, <2>2 DEF AuthInv, AuthTypeOK
  <2>4. HelpersInv'
    BY <1>1, <1>4 DEF AuthInv, AuthTypeOK, Helper, HelpersInv, Aged
  <2> QED
    BY <1>2, <2>3, <2>4 DEF AuthInv
<1>5. CASE helper' = [helper EXCEPT ![h] = Panicked] /\ UNCHANGED queue
  <2>1. AuthTypeOK'
    BY <1>1, <1>5 DEF AuthInv, AuthTypeOK, Helper, Panicked
  <2>2. HelpersInv'
    BY <1>1, <1>5 DEF AuthInv, AuthTypeOK, Helper, Panicked, HelpersInv, Aged
  <2> QED
    BY <1>2, <2>1, <2>2 DEF AuthInv
<1> QED
  BY <1>3, <1>4, <1>5 DEF Get

\* A helper that uses its token, copies another's or is dropped.
LEMMA HelperInv ==
  ASSUME AuthInv, NEW h \in Helpers, NEW p \in Helpers,
         Use(h) \/ CopyOf(h, p) \/ Unwound(h)
  PROVE  AuthInv'
<1>1. UNCHANGED <<now, queue, server, issued>>
  BY DEF Use, CopyOf, Unwound
<1>2. IssuedInv' /\ ServerInv'
  BY <1>1 DEF AuthInv, IssuedInv, TokensSpaced, ServerInv, Aged
<1>3. CASE Use(h)
  <2>1. AuthTypeOK'
    BY <1>1, <1>3 DEF Use, AuthInv, AuthTypeOK, Helper
  <2>2. HelpersInv'
    BY <1>1, <1>3 DEF Use, AuthInv, AuthTypeOK, Helper, HelpersInv, Aged
  <2> QED
    BY <1>2, <2>1, <2>2 DEF AuthInv
<1>4. CASE CopyOf(h, p)
  <2>1. AuthTypeOK'
    BY <1>1, <1>4 DEF CopyOf, AuthInv, AuthTypeOK, Helper
  <2>2. HelpersInv'
    BY <1>1, <1>4 DEF CopyOf, AuthInv, AuthTypeOK, Helper, HelpersInv, Aged
  <2> QED
    BY <1>2, <2>1, <2>2 DEF AuthInv
<1>5. CASE Unwound(h)
  <2>1. AuthTypeOK'
    BY <1>1, <1>5 DEF Unwound, AuthInv, AuthTypeOK, Helper, Panicked
  <2>2. HelpersInv'
    BY <1>1, <1>5 DEF Unwound, AuthInv, AuthTypeOK, Helper, Panicked, HelpersInv, Aged
  <2> QED
    BY <1>2, <2>1, <2>2 DEF AuthInv
<1> QED
  BY <1>3, <1>4, <1>5

-----------------------------------------------------------------------------
\* The task answers from its cache, or starts a renewal.
LEMMA ServeInv ==
  ASSUME AuthInv, Serve
  PROVE  AuthInv'
<1>1. /\ server.pc = "idle" /\ queue # << >> /\ queue' = Tail(queue)
      /\ UNCHANGED <<now, issued>>
  BY DEF Serve
<1>2. Head(queue) \in Helpers /\ queue' \in Seq(Helpers)
  BY <1>1 DEF AuthInv, AuthTypeOK
<1>3. IssuedInv'
  BY <1>1 DEF AuthInv, IssuedInv, TokensSpaced
<1>4. CASE /\ server.expire > now
           /\ helper' = HandedTo(Head(queue), server.token, server.expire)
           /\ UNCHANGED server
  <2>1. server.token \in Nat /\ server.expire \in Nat
    BY DEF AuthInv, AuthTypeOK, Server
  <2>2. /\ server.token \in 1 .. Len(issued)
        /\ issued[server.token] + Life <= server.expire
        /\ server.expire <= issued[server.token] + Delay + Life
    BY <1>4 DEF AuthInv, AuthTypeOK, ServerInv, Aged
  <2>3. /\ HelpersInv'
        /\ helper' \in [Helpers -> Helper]
        /\ \A p \in Helpers : helper'[p].token \in 0 .. Len(issued')
    BY <1>1, <1>4, <2>1, <2>2, HandedInv DEF AuthInv
  <2>4. AuthTypeOK'
    BY <1>1, <1>2, <1>4, <2>3 DEF AuthInv, AuthTypeOK
  <2>5. ServerInv'
    BY <1>1, <1>4 DEF AuthInv, ServerInv, Aged
  <2> QED
    BY <1>3, <2>3, <2>4, <2>5 DEF AuthInv
<1>5. CASE /\ server.expire <= now
           /\ server' = [server EXCEPT !.pc = "renewing", !.for = Head(queue)]
           /\ UNCHANGED helper
  <2>1. /\ server' \in Server /\ server'.pc = "renewing"
        /\ server'.for = Head(queue)
        /\ server'.token = server.token /\ server'.expire = server.expire
    BY <1>2, <1>5 DEF AuthInv, AuthTypeOK, Server
  <2>2. AuthTypeOK'
    BY <1>1, <1>2, <1>5, <2>1 DEF AuthInv, AuthTypeOK
  <2>3. ServerInv'
    BY <1>1, <1>2, <1>5, <2>1 DEF AuthInv, ServerInv, Aged
  <2>4. HelpersInv'
    BY <1>1, <1>5 DEF AuthInv, HelpersInv, Aged
  <2> QED
    BY <1>3, <2>2, <2>3, <2>4 DEF AuthInv
<1> QED
  BY <1>4, <1>5 DEF Serve

\* A token is issued only when the last one's lifetime is over.
LEMMA IssueInv ==
  ASSUME AuthInv, Issue
  PROVE  AuthInv'
<1>1. /\ server.pc = "renewing" /\ issued' = Append(issued, now)
      /\ server' = [server EXCEPT !.pc = "issued"]
      /\ UNCHANGED <<now, queue, helper>>
  BY DEF Issue
<1>2. /\ issued \in Seq(Nat) /\ issued' \in Seq(Nat) /\ now \in Nat
      /\ Len(issued) \in Nat /\ Len(issued') = Len(issued) + 1
      /\ issued'[Len(issued) + 1] = now
      /\ \A n \in 1 .. Len(issued) : issued'[n] = issued[n] /\ issued[n] \in Nat
  BY <1>1 DEF AuthInv, AuthTypeOK
<1>3. /\ server' \in Server /\ server'.pc = "issued"
      /\ server'.for = server.for /\ server'.token = server.token
      /\ server'.expire = server.expire
  BY <1>1 DEF AuthInv, AuthTypeOK, Server
<1>4. AuthTypeOK'
  BY <1>1, <1>2, <1>3 DEF AuthInv, AuthTypeOK
<1>5. ServerInv'
  <2>1. Aged(server)'
    BY <1>2, <1>3 DEF AuthInv, AuthTypeOK, ServerInv, Aged
  <2>2. now' <= issued'[Len(issued')] + Delay
    BY <1>1, <1>2, TimesAssumption
  <2> QED
    BY <1>1, <1>2, <1>3, <2>1, <2>2 DEF AuthInv, ServerInv
<1>6. HelpersInv'
  BY <1>1, <1>2 DEF AuthInv, AuthTypeOK, HelpersInv, Aged
<1>7. IssuedInv'
  <2>1. \A n \in 1 .. Len(issued') : issued'[n] <= now'
    BY <1>1, <1>2 DEF AuthInv, IssuedInv
  <2>2. ASSUME NEW n \in 1 .. Len(issued') - 1
        PROVE  issued'[n + 1] >= issued'[n] + Life
    <3>1. CASE n = Len(issued)
      <4>1. issued[n] + Life <= now
        BY <1>1, <1>2, <3>1, <2>2, TimesAssumption
        DEF AuthInv, AuthTypeOK, Server, ServerInv, Aged
      <4> QED
        BY <1>2, <3>1, <4>1, <2>2, TimesAssumption
    <3>2. CASE n # Len(issued)
      <4>1. n \in 1 .. Len(issued) - 1 /\ n + 1 \in 1 .. Len(issued)
        BY <1>2, <2>2, <3>2
      <4>2. issued[n + 1] >= issued[n] + Life
        BY <4>1 DEF AuthInv, IssuedInv, TokensSpaced
      <4>3. issued'[n + 1] = issued[n + 1] /\ issued'[n] = issued[n]
        BY <1>2, <4>1
      <4> QED
        BY <4>2, <4>3
    <3> QED
      BY <3>1, <3>2
  <2> QED
    BY <2>1, <2>2 DEF IssuedInv, TokensSpaced
<1> QED
  BY <1>4, <1>5, <1>6, <1>7 DEF AuthInv

LEMMA RenewedInv ==
  ASSUME AuthInv, Renewed
  PROVE  AuthInv'
<1> DEFINE n == Len(issued)
           e == now + Life
<1>1. /\ server.pc = "issued"
      /\ server' = [pc |-> "idle", for |-> None, token |-> n, expire |-> e]
      /\ helper' = HandedTo(server.for, n, e)
      /\ UNCHANGED <<now, queue, issued>>
  BY DEF Renewed
<1>2. /\ n \in Nat /\ n > 0 /\ now \in Nat /\ issued[n] \in Nat
      /\ issued[n] <= now /\ now <= issued[n] + Delay
  BY <1>1 DEF AuthInv, AuthTypeOK, ServerInv, IssuedInv
<1>3. /\ e \in Nat /\ e > now
      /\ issued[n] + Life <= e /\ e <= issued[n] + Delay + Life
  BY <1>2, TimesAssumption
<1>4. server' \in Server
  BY <1>1, <1>2, <1>3 DEF Server
<1>5. /\ HelpersInv'
      /\ helper' \in [Helpers -> Helper]
      /\ \A p \in Helpers : helper'[p].token \in 0 .. Len(issued')
  <2> n \in 1 .. Len(issued)
    BY <1>2
  <2> HIDE DEF n, e
  <2> QED
    BY <1>1, <1>2, <1>3, HandedInv DEF AuthInv
<1>6. AuthTypeOK'
  BY <1>1, <1>2, <1>4, <1>5 DEF AuthInv, AuthTypeOK
<1>7. ServerInv'
  BY <1>1, <1>2, <1>3 DEF ServerInv, Aged
<1>8. IssuedInv'
  BY <1>1 DEF AuthInv, IssuedInv, TokensSpaced
<1> QED
  BY <1>5, <1>6, <1>7, <1>8 DEF AuthInv

LEMMA RenewalFailsInv ==
  ASSUME AuthInv, RenewalFails
  PROVE  AuthInv'
<1>1. /\ server' = [server EXCEPT !.pc = "dead", !.for = None]
      /\ UNCHANGED <<now, queue, issued>>
      /\ \/ UNCHANGED helper
         \/ helper' = [helper EXCEPT ![server.for] = Panicked]
  <2>1. helper \in [Helpers -> Helper]
    BY DEF AuthInv, AuthTypeOK
  <2> QED
    BY <2>1 DEF RenewalFails
<1>2. \A h \in Helpers : helper'[h] = helper[h] \/ helper'[h] = Panicked
  BY <1>1 DEF AuthInv, AuthTypeOK
<1>3. AuthTypeOK'
  <2>1. Panicked \in Helper /\ Panicked.token = 0
    BY DEF Panicked, Helper
  <2>2. helper' \in [Helpers -> Helper]
    BY <1>1, <2>1 DEF AuthInv, AuthTypeOK
  <2>3. \A h \in Helpers : helper'[h].token \in 0 .. Len(issued')
    BY <1>1, <1>2, <2>1 DEF AuthInv, AuthTypeOK
  <2>4. server' \in Server /\ server'.token = server.token
    BY <1>1 DEF AuthInv, AuthTypeOK, Server
  <2> QED
    BY <1>1, <2>2, <2>3, <2>4 DEF AuthInv, AuthTypeOK
<1>4. ServerInv'
  BY <1>1 DEF AuthInv, AuthTypeOK, Server, ServerInv, Aged
<1>5. HelpersInv'
  BY <1>1, <1>2 DEF AuthInv, Panicked, HelpersInv, Aged
<1>6. IssuedInv'
  BY <1>1 DEF AuthInv, IssuedInv, TokensSpaced
<1> QED
  BY <1>3, <1>4, <1>5, <1>6 DEF AuthInv

LEMMA TickInv ==
  ASSUME AuthInv, Tick
  PROVE  AuthInv'
<1>1. now \in Nat /\ now' = now + 1 /\ UNCHANGED <<queue, server, helper, issued>>
  BY DEF Tick, AuthInv, AuthTypeOK
<1>2. AuthTypeOK'
  BY <1>1 DEF AuthInv, AuthTypeOK
<1>3. ServerInv'
  BY <1>1, TimesAssumption DEF Tick, AuthInv, AuthTypeOK, Server, ServerInv, Aged
<1>4. HelpersInv'
  BY <1>1, TimesAssumption DEF Tick, AuthInv, AuthTypeOK, Helper, HelpersInv, Aged
<1>5. IssuedInv'
  BY <1>1 DEF AuthInv, AuthTypeOK, IssuedInv, TokensSpaced
<1> QED
  BY <1>2, <1>3, <1>4, <1>5 DEF AuthInv

LEMMA NextInv ==
  ASSUME AuthInv, [AuthNext]_authVars
  PROVE  AuthInv'
<1>1. CASE UNCHANGED authVars
  BY <1>1 DEF authVars, AuthInv, AuthTypeOK, ServerInv, HelpersInv, IssuedInv,
              TokensSpaced, Aged
<1> QED
  BY <1>1, GetInv, HelperInv, ServeInv, IssueInv, RenewedInv, RenewalFailsInv, TickInv
  DEF AuthNext, TimeIsUp

(* The inductive invariant holds in every reachable state.                 *)
THEOREM AuthInvariant == AuthSpec => []AuthInv
<1>1. AuthInit => AuthInv
  BY AuthInitInv
<1>2. AuthInv /\ [AuthNext]_authVars => AuthInv'
  BY NextInv
<1> QED
  BY <1>1, <1>2, PTL DEF AuthSpec

-----------------------------------------------------------------------------
(* Every variable of the token cache keeps its type.                       *)
THEOREM AuthTypeCorrect == AuthSpec => []AuthTypeOK
BY AuthInvariant, PTL DEF AuthInv

(* One renewal serves every helper that finds its token expired: two tokens*)
(* are never issued within the lifetime of the first.                      *)
THEOREM RenewalsAreSpaced == AuthSpec => []TokensSpaced
<1>1. AuthInv => TokensSpaced
  BY DEF AuthInv, IssuedInv
<1> QED
  BY <1>1, AuthInvariant, PTL

(* No helper uses a token DocuSign no longer accepts, whatever copies were *)
(* made of it, as long as twice the delay fits between the two lifetimes.  *)
THEOREM TokensUsedInTime == AuthSpec => []UsedInTime
<1>1. AuthInv => UsedInTime
  <2> SUFFICES ASSUME AuthInv, NEW h \in Helpers, helper[h].pc = "using"
               PROVE  /\ helper[h].token # 0
                      /\ now < issued[helper[h].token] + ProviderLife
    BY DEF UsedInTime
  <2>1. helper[h] \in Helper /\ helper[h].token \in 1 .. Len(issued)
    BY DEF AuthInv, AuthTypeOK, HelpersInv
  <2>2. issued[helper[h].token] \in Nat /\ now \in Nat
    BY <2>1 DEF AuthInv, AuthTypeOK
  <2>3. /\ helper[h].since \in Nat /\ helper[h].expire \in Nat
        /\ now <= helper[h].since + Delay
        /\ helper[h].since < helper[h].expire
        /\ helper[h].expire <= issued[helper[h].token] + Delay + Life
    BY <2>1 DEF AuthInv, HelpersInv, Aged, Helper
  <2>4. helper[h].token # 0
    BY <2>1
  <2> DEFINE at == issued[helper[h].token]
             since == helper[h].since
             exp == helper[h].expire
  <2>5. /\ at \in Nat /\ since \in Nat /\ exp \in Nat /\ now \in Nat
        /\ now <= since + Delay /\ since < exp /\ exp <= at + Delay + Life
    BY <2>2, <2>3
  <2> HIDE DEF at, since, exp
  <2>6. now < at + Life + 2 * Delay
    BY <2>5, TimesAssumption
  <2>7. now < at + ProviderLife
    BY <2>5, <2>6, TimesAssumption, MarginAssumption
  <2> QED
    BY <2>4, <2>7 DEF at
<1> QED
  BY <1>1, AuthInvariant, PTL
=============================================================================
