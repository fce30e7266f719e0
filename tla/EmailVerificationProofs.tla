----------------------- MODULE EmailVerificationProofs -----------------------
(***************************************************************************)
(* Proofs about EmailVerification, for any number of users, tokens and     *)
(* requests and any time to live.                                          *)
(*                                                                         *)
(* The invariant says who owns a token: the first request that stores it   *)
(* fixes its user and its rank, a key never disagrees with that, a request *)
(* deletes only tokens of its own user and of a lower rank, and a token    *)
(* belongs to one request until it is mailed.                              *)
(***************************************************************************)
EXTENDS EmailVerification, FiniteSetTheorems, TLAPS

Stored == {t \in Tokens : minted[t] # None}

\* The first token gets rank 0, each further one a rank above all others.
RanksOK ==
    /\ IsFiniteSet(Stored)
    /\ \A t \in Stored : minted[t].rank < Cardinality(Stored)

KeysOK ==
    /\ \A t \in Tokens : tokenKey[t] # None =>
           t \in Stored /\ tokenKey[t] = [user |-> minted[t].user, exp |-> minted[t].exp]
    /\ UserKeyNamesLiveToken

\* NewestLinkWorks, from the moment the token is stored.
Works(t) == ~Superseded(t) /\ t \notin used /\ clock <= minted[t].exp => tokenKey[t] # None

MailsOK ==
    /\ mailed \subseteq Stored /\ used \subseteq mailed
    /\ \A t \in Stored : Works(t)
    /\ VerifiedByMail

Sends(c) == c.step \in {"previous", "store", "enqueue"}

\* A request that sends is the only one that knows its token, and what it will
\* delete is an older token of its user; a request that verifies came by mail.
SendOK(c) ==
    /\ c.user \in Users /\ c.token \notin mailed
    /\ c.step = "previous" => c.token \notin Stored
    /\ c.step = "enqueue" => c.token \in Stored
    /\ c.token \in Stored => minted[c.token].user = c.user
    /\ c.step # "previous" /\ c.previous # None =>
          /\ c.previous \in Stored /\ minted[c.previous].user = c.user /\ c.previous # c.token
          /\ c.token \in Stored => minted[c.token].rank > minted[c.previous].rank

VerifyOK(c) ==
    /\ c.token \in mailed
    /\ c.step # "read" => c.user = minted[c.token].user
    /\ c.step = "update" => c.token \in used

CallOK(c) == IF Sends(c) THEN SendOK(c) ELSE VerifyOK(c)

CallsOK ==
    /\ \A h \in Handlers : calls[h] # None => CallOK(calls[h])
    /\ \A g, h \in Handlers :
          g # h /\ calls[g] # None /\ calls[h] # None /\ Sends(calls[g]) =>
             calls[g].token # calls[h].token

MailInv == TypeOK /\ RanksOK /\ KeysOK /\ MailsOK /\ CallsOK

LEMMA MailInvInit == Init => MailInv
  <1> SUFFICES ASSUME Init PROVE MailInv
    OBVIOUS
  <1>1. Stored = {} /\ TypeOK
    BY DEF Init, Stored, TypeOK
  <1>2. KeysOK /\ MailsOK /\ CallsOK
    BY <1>1 DEF Init, KeysOK, MailsOK, CallsOK, UserKeyNamesLiveToken, VerifiedByMail
  <1>3. RanksOK
    BY <1>1, FS_EmptySet DEF RanksOK
  <1>. QED
    BY <1>1, <1>2, <1>3 DEF MailInv

(***************************************************************************)
(* Frames.                                                                 *)
(***************************************************************************)

\* One request moves on, nothing is stored or mailed.
LEMMA CallsFrame ==
    ASSUME MailInv, NEW h \in Handlers, NEW c \in Call \cup {None},
           calls' = [calls EXCEPT ![h] = c], UNCHANGED <<mailed, minted>>, used \subseteq used',
           c # None => CallOK(c)',
           c # None => \A g \in Handlers : g # h /\ calls[g] # None /\ (Sends(c) \/ Sends(calls[g]))
                          => calls[g].token # c.token
    PROVE  calls' \in [Handlers -> Call \cup {None}] /\ CallsOK'
  <1>1. calls' \in [Handlers -> Call \cup {None}]
        /\ \A g \in Handlers : calls'[g] = IF g = h THEN c ELSE calls[g]
    BY DEF MailInv, TypeOK
  <1>2. ASSUME NEW g \in Handlers, calls'[g] # None PROVE CallOK(calls[g])'
    <2>1. CASE g = h
      BY <2>1, <1>1, <1>2
    <2>2. CASE g # h
      BY <2>2, <1>1, <1>2
         DEF MailInv, CallsOK, CallOK, Sends, SendOK, VerifyOK, Stored
    <2>. QED
      BY <2>1, <2>2
  <1>3. ASSUME NEW f \in Handlers, NEW g \in Handlers, f # g, calls'[f] # None, calls'[g] # None,
               Sends(calls'[f])
        PROVE  calls'[f].token # calls'[g].token
    <2>1. CASE f = h
      BY <2>1, <1>1, <1>3
    <2>2. CASE g = h
      BY <2>2, <1>1, <1>3
    <2>3. CASE f # h /\ g # h
      BY <2>3, <1>1, <1>3 DEF MailInv, CallsOK
    <2>. QED
      BY <2>1, <2>2, <2>3
  <1>. QED
    BY <1>1, <1>2, <1>3 DEF CallsOK, Sends

LEMMA StoreFrame ==
    ASSUME MailInv, UNCHANGED <<clock, tokenKey, userKey, verified, mailed, minted, used>>
    PROVE  RanksOK' /\ KeysOK' /\ MailsOK'
  BY DEF MailInv, RanksOK, KeysOK, MailsOK, Stored, UserKeyNamesLiveToken, Works, Superseded,
         VerifiedByMail

\* A step that only moves one request on.
LEMMA OnlyCalls ==
    ASSUME MailInv, NEW h \in Handlers, NEW c \in Call \cup {None},
           calls' = [calls EXCEPT ![h] = c],
           UNCHANGED <<clock, tokenKey, userKey, verified, mailed, minted, used>>,
           c # None => CallOK(c),
           c # None => \A g \in Handlers : g # h /\ calls[g] # None /\ (Sends(c) \/ Sends(calls[g]))
                          => calls[g].token # c.token
    PROVE  MailInv'
  <1>1. c # None => CallOK(c)'
    BY DEF CallOK, Sends, SendOK, VerifyOK, Stored
  <1>2. calls' \in [Handlers -> Call \cup {None}] /\ CallsOK'
    BY <1>1, CallsFrame
  <1>. QED
    BY <1>2, StoreFrame DEF MailInv, TypeOK

\* The request of a handler at a step: it is typed and good, and its token is
\* another's only if both verify.
LEMMA AtCall ==
    ASSUME MailInv, NEW h \in Handlers, NEW step, At(h, step)
    PROVE  /\ calls[h] # None /\ calls[h] \in Call /\ calls[h].step = step /\ CallOK(calls[h])
           /\ \A g \in Handlers :
                 g # h /\ calls[g] # None /\ (Sends(calls[h]) \/ Sends(calls[g])) =>
                    calls[g].token # calls[h].token
  BY DEF MailInv, TypeOK, CallsOK, At

(***************************************************************************)
(* Steps that write no key.                                                *)
(***************************************************************************)

LEMMA StartSendStep ==
    ASSUME MailInv, NEW h \in Handlers, NEW u \in Users, NEW t \in Tokens, StartSend(h, u, t)
    PROVE  MailInv'
  <1> DEFINE c == [step |-> "previous", user |-> u, token |-> t, previous |-> None]
  <1>1. c \in Call /\ Sends(c)
    BY DEF Call, Step, Sends
  <1>2. t \notin Stored /\ t \notin mailed
    BY DEF StartSend, Fresh, Stored, MailInv, MailsOK
  <1>3. CallOK(c)
    BY <1>1, <1>2 DEF CallOK, SendOK
  <1>4. \A g \in Handlers : calls[g] # None => calls[g].token # c.token
    BY DEF StartSend, Fresh
  <1>. QED
    BY <1>1, <1>3, <1>4, OnlyCalls DEF StartSend

LEMMA ReadPreviousStep ==
    ASSUME MailInv, NEW h \in Handlers, ReadPrevious(h)
    PROVE  MailInv'
  <1> USE NoneIsNothing
  <1>1. /\ calls[h] \in Call /\ calls[h].step = "previous" /\ SendOK(calls[h])
        /\ \A g \in Handlers : g # h /\ calls[g] # None => calls[g].token # calls[h].token
    BY AtCall DEF ReadPrevious, CallOK, Sends
  <1> DEFINE u == calls[h].user
             data == userKey[u]
  <1>2. u \in Users /\ calls[h].token \notin Stored
    BY <1>1 DEF SendOK
  <1>3. PICK p \in Tokens \cup {None} : p = IF data = None THEN None ELSE data.token
    BY <1>2 DEF MailInv, TypeOK, UserData
  <1>4. p # None => p \in Stored /\ minted[p].user = u
    <2> SUFFICES ASSUME p # None PROVE p \in Stored /\ minted[p].user = u
      OBVIOUS
    <2>1. data # None /\ p = data.token /\ p \in Tokens
      BY <1>3
    <2>2. tokenKey[p] = [user |-> u, exp |-> data.exp] /\ tokenKey[p] \in TokenData \cup {None}
      BY <1>2, <2>1 DEF MailInv, KeysOK, UserKeyNamesLiveToken, TypeOK
    <2>3. data.exp \in Nat
      BY <1>2, <2>1 DEF MailInv, TypeOK, UserData
    <2>4. tokenKey[p] # None
      BY <2>2, <2>3, <1>2 DEF TokenData
    <2>5. p \in Stored /\ tokenKey[p] = [user |-> minted[p].user, exp |-> minted[p].exp]
      BY <2>1, <2>4 DEF MailInv, KeysOK
    <2>. QED
      BY <2>2, <2>5
  <1> DEFINE c == [calls[h] EXCEPT !.step = "store", !.previous = p]
  <1>5. c \in Call /\ c.step = "store" /\ c.user = u /\ c.token = calls[h].token /\ c.previous = p
    BY <1>1 DEF Call, Step
  <1>6. CallOK(c)
    BY <1>1, <1>2, <1>4, <1>5 DEF CallOK, Sends, SendOK
  <1>7. /\ calls' = [calls EXCEPT ![h] = c]
        /\ UNCHANGED <<clock, tokenKey, userKey, verified, mailed, minted, used>>
    BY <1>3 DEF ReadPrevious, MailInv, TypeOK
  <1> HIDE DEF c
  <1>. QED
    BY <1>1, <1>5, <1>6, <1>7, OnlyCalls

LEMMA StartVerifyStep ==
    ASSUME MailInv, NEW h \in Handlers, NEW t \in Tokens, StartVerify(h, t)
    PROVE  MailInv'
  <1> DEFINE c == [step |-> "read", user |-> None, token |-> t, previous |-> None]
  <1>1. c \in Call /\ ~Sends(c) /\ t \in mailed
    BY DEF Call, Step, Sends, StartVerify
  <1>2. CallOK(c)
    BY <1>1 DEF CallOK, VerifyOK
  <1>3. \A g \in Handlers : calls[g] # None /\ Sends(calls[g]) => calls[g].token # t
    BY <1>1 DEF MailInv, CallsOK, CallOK, SendOK
  <1>. QED
    BY <1>1, <1>2, <1>3, OnlyCalls DEF StartVerify

LEMMA ReadTokenStep ==
    ASSUME MailInv, NEW h \in Handlers, ReadToken(h)
    PROVE  MailInv'
  <1>1. /\ calls[h] \in Call /\ calls[h].step = "read" /\ VerifyOK(calls[h])
        /\ \A g \in Handlers : g # h /\ calls[g] # None /\ Sends(calls[g]) =>
              calls[g].token # calls[h].token
    BY AtCall DEF ReadToken, CallOK, Sends
  <1> DEFINE t == calls[h].token
  <1>2. t \in Tokens /\ tokenKey[t] # None /\ tokenKey[t].user = minted[t].user
    <2>1. t \in Tokens /\ tokenKey[t] # None
      BY <1>1 DEF ReadToken, Call
    <2>2. tokenKey[t] = [user |-> minted[t].user, exp |-> minted[t].exp]
      BY <2>1 DEF MailInv, KeysOK
    <2>. QED
      BY <2>1, <2>2
  <1>3. PICK u \in Users : u = tokenKey[t].user
    BY <1>2 DEF MailInv, TypeOK, TokenData
  <1> DEFINE c == [calls[h] EXCEPT !.step = "consume", !.user = u]
  <1>4. c \in Call /\ c.step = "consume" /\ c.user = u /\ c.token = t
    BY <1>1 DEF Call, Step
  <1>5. CallOK(c) /\ ~Sends(c)
    BY <1>1, <1>2, <1>3, <1>4 DEF CallOK, Sends, VerifyOK
  <1>6. /\ calls' = [calls EXCEPT ![h] = c]
        /\ UNCHANGED <<clock, tokenKey, userKey, verified, mailed, minted, used>>
    BY <1>3 DEF ReadToken, MailInv, TypeOK
  <1> HIDE DEF c
  <1>. QED
    BY <1>1, <1>4, <1>5, <1>6, OnlyCalls

LEMMA ResendStep ==
    ASSUME MailInv, NEW h \in Handlers, Resend(h)
    PROVE  MailInv'
  <1>1. CASE At(h, "enqueue") /\ GoTo(h, "store")
    <2> DEFINE c == [calls[h] EXCEPT !.step = "store"]
    <2>1. /\ calls[h] \in Call /\ calls[h].step = "enqueue" /\ SendOK(calls[h])
          /\ \A g \in Handlers : g # h /\ calls[g] # None => calls[g].token # calls[h].token
      BY <1>1, AtCall DEF CallOK, Sends
    <2>2. /\ c \in Call /\ c.step = "store" /\ c.user = calls[h].user
          /\ c.token = calls[h].token /\ c.previous = calls[h].previous
      BY <2>1 DEF Call, Step
    <2>3. CallOK(c)
      BY <2>1, <2>2 DEF CallOK, Sends, SendOK
    <2>4. calls' = [calls EXCEPT ![h] = c]
      BY <1>1 DEF GoTo, MailInv, TypeOK
    <2>. QED
      BY <2>1, <2>2, <2>3, <2>4, OnlyCalls DEF Resend
  <1>2. CASE At(h, "update") /\ GoTo(h, "consume")
    <2> DEFINE c == [calls[h] EXCEPT !.step = "consume"]
    <2>1. /\ calls[h] \in Call /\ calls[h].step = "update" /\ VerifyOK(calls[h])
          /\ \A g \in Handlers : g # h /\ calls[g] # None /\ Sends(calls[g]) =>
                calls[g].token # calls[h].token
      BY <1>2, AtCall DEF CallOK, Sends
    <2>2. /\ c \in Call /\ c.step = "consume" /\ c.user = calls[h].user /\ c.token = calls[h].token
      BY <2>1 DEF Call, Step
    <2>3. CallOK(c) /\ ~Sends(c)
      BY <2>1, <2>2 DEF CallOK, Sends, VerifyOK
    <2>4. calls' = [calls EXCEPT ![h] = c]
      BY <1>2 DEF GoTo, MailInv, TypeOK
    <2>. QED
      BY <2>1, <2>2, <2>3, <2>4, OnlyCalls DEF Resend
  <1>. QED
    BY <1>1, <1>2 DEF Resend

(***************************************************************************)
(* Steps that mail a token or verify a user.                               *)
(***************************************************************************)

LEMMA EnqueueMailStep ==
    ASSUME MailInv, NEW h \in Handlers, EnqueueMail(h)
    PROVE  MailInv'
  <1>1. /\ calls[h] \in Call /\ calls[h].step = "enqueue" /\ SendOK(calls[h])
        /\ \A g \in Handlers : g # h /\ calls[g] # None => calls[g].token # calls[h].token
    BY AtCall DEF EnqueueMail, CallOK, Sends
  <1>2. PICK t \in Tokens : t = calls[h].token
    BY <1>1 DEF Call
  <1>3. /\ mailed' = mailed \cup {t} /\ calls' = [calls EXCEPT ![h] = None] /\ t \in Stored
        /\ UNCHANGED <<clock, tokenKey, userKey, verified, minted, used>>
    BY <1>1, <1>2 DEF EnqueueMail, Done, SendOK
  <1>4. TypeOK'
    BY <1>3 DEF MailInv, TypeOK
  <1>5. RanksOK' /\ KeysOK' /\ MailsOK'
    BY <1>3 DEF MailInv, RanksOK, KeysOK, MailsOK, Stored, UserKeyNamesLiveToken, Works,
                Superseded, VerifiedByMail
  <1>6. \A g \in Handlers : calls'[g] = IF g = h THEN None ELSE calls[g]
    BY <1>3 DEF MailInv, TypeOK
  <1>7. ASSUME NEW g \in Handlers, calls'[g] # None PROVE CallOK(calls[g])'
    <2>1. g # h /\ calls'[g] = calls[g] /\ calls[g].token # t /\ CallOK(calls[g])
      BY <1>1, <1>2, <1>6, <1>7 DEF MailInv, CallsOK
    <2>. QED
      BY <2>1, <1>3 DEF CallOK, Sends, SendOK, VerifyOK, Stored
  <1>8. CallsOK'
    BY <1>6, <1>7 DEF MailInv, CallsOK, Sends
  <1>. QED
    BY <1>4, <1>5, <1>8 DEF MailInv

LEMMA MarkVerifiedStep ==
    ASSUME MailInv, NEW h \in Handlers, MarkVerified(h)
    PROVE  MailInv'
  <1>1. calls[h] \in Call /\ calls[h].step = "update" /\ VerifyOK(calls[h])
    BY AtCall DEF MarkVerified, CallOK, Sends
  <1> DEFINE t == calls[h].token
  <1>2. /\ t \in used \cap mailed /\ t \in Stored
        /\ calls[h].user = minted[t].user /\ minted[t].user \in Users
    BY <1>1 DEF VerifyOK, MailInv, MailsOK, TypeOK, Stored, Minted
  <1>3. /\ verified' = verified \cup {calls[h].user} /\ calls' = [calls EXCEPT ![h] = None]
        /\ UNCHANGED <<clock, tokenKey, userKey, mailed, minted, used>>
    BY DEF MarkVerified, Done
  <1>4. calls' \in [Handlers -> Call \cup {None}] /\ CallsOK'
    BY <1>3, CallsFrame
  <1>5. VerifiedByMail'
    BY <1>2, <1>3 DEF MailInv, MailsOK, VerifiedByMail
  <1>6. RanksOK' /\ KeysOK' /\ MailsOK'
    BY <1>3, <1>5 DEF MailInv, RanksOK, KeysOK, MailsOK, Stored, UserKeyNamesLiveToken, Works,
                      Superseded
  <1>. QED
    BY <1>2, <1>3, <1>4, <1>6 DEF MailInv, TypeOK

(***************************************************************************)
(* Steps that write the keys.                                              *)
(***************************************************************************)

\* The token is deleted and with it the key of its user, which may name another
\* token: no other user's key names either.
LEMMA ConsumeTokenStep ==
    ASSUME MailInv, NEW h \in Handlers, ConsumeToken(h)
    PROVE  MailInv'
  <1> USE NoneIsNothing
  <1>1. /\ calls[h] \in Call /\ calls[h].step = "consume" /\ VerifyOK(calls[h])
        /\ \A g \in Handlers : g # h /\ calls[g] # None /\ Sends(calls[g]) =>
              calls[g].token # calls[h].token
    BY AtCall DEF ConsumeToken, CallOK, Sends
  <1>2. PICK t \in Tokens, u \in Users : t = calls[h].token /\ u = calls[h].user /\ u = minted[t].user
    BY <1>1 DEF Call, VerifyOK, MailInv, MailsOK, TypeOK, Stored, Minted
  <1>3. PICK c \in Call :
           /\ c = [calls[h] EXCEPT !.step = "update"]
           /\ c.step = "update" /\ c.user = u /\ c.token = t
    <2> DEFINE d == [calls[h] EXCEPT !.step = "update"]
    <2>1. d \in Call /\ d.step = "update" /\ d.user = u /\ d.token = t
      BY <1>1, <1>2 DEF Call, Step
    <2>. QED
      BY <2>1
  <1>4. /\ tokenKey' = [tokenKey EXCEPT ![t] = None] /\ userKey' = [userKey EXCEPT ![u] = None]
        /\ used' = used \cup {t} /\ t \in mailed /\ calls' = [calls EXCEPT ![h] = c]
        /\ UNCHANGED <<clock, verified, mailed, minted>>
    BY <1>1, <1>2, <1>3 DEF ConsumeToken, Without, GoTo, VerifyOK, MailInv, TypeOK
  <1>5. CallOK(c)' /\ ~Sends(c)
    BY <1>2, <1>3, <1>4 DEF CallOK, Sends, VerifyOK
  <1>6. calls' \in [Handlers -> Call \cup {None}] /\ CallsOK'
    BY <1>1, <1>2, <1>3, <1>4, <1>5, CallsFrame
  <1>7. TypeOK'
    BY <1>4, <1>6 DEF MailInv, TypeOK
  <1>8. /\ \A x \in Tokens : tokenKey'[x] = IF x = t THEN None ELSE tokenKey[x]
        /\ \A v \in Users : userKey'[v] = IF v = u THEN None ELSE userKey[v]
    BY <1>4 DEF MailInv, TypeOK
  <1>9. UserKeyNamesLiveToken'
    <2> SUFFICES ASSUME NEW v \in Users, userKey'[v] # None
                 PROVE  tokenKey'[userKey[v].token] = [user |-> v, exp |-> userKey[v].exp]
                        /\ userKey'[v] = userKey[v]
      BY DEF UserKeyNamesLiveToken
    <2>1. v # u /\ userKey[v] # None /\ userKey'[v] = userKey[v]
      BY <1>8
    <2>2. PICK x \in Tokens, e \in Nat : x = userKey[v].token /\ e = userKey[v].exp
      BY <2>1 DEF MailInv, TypeOK, UserData
    <2>3. tokenKey[x] = [user |-> v, exp |-> e]
      BY <2>1, <2>2 DEF MailInv, KeysOK, UserKeyNamesLiveToken
    <2>4. tokenKey[x] # None
      BY <2>3 DEF TokenData
    <2>5. minted[x].user = v
      <3>1. tokenKey[x] = [user |-> minted[x].user, exp |-> minted[x].exp]
        BY <2>4 DEF MailInv, KeysOK
      <3>. QED
        BY <3>1, <2>3
    <2>. QED
      BY <2>1, <2>2, <2>3, <2>5, <1>2, <1>8
  <1>10. KeysOK'
    BY <1>4, <1>8, <1>9 DEF MailInv, KeysOK, Stored
  <1>11. RanksOK'
    BY <1>4 DEF MailInv, RanksOK, Stored
  <1>12. MailsOK'
    BY <1>4, <1>8 DEF MailInv, MailsOK, Stored, Works, Superseded, VerifiedByMail
  <1>. QED
    BY <1>6, <1>7, <1>10, <1>11, <1>12 DEF MailInv

\* Both keys of a token are dropped in the same tick, and not before its time.
LEMMA TickStep == MailInv /\ Tick => MailInv'
  <1> SUFFICES ASSUME MailInv, Tick PROVE MailInv'
    OBVIOUS
  <1>1. clock \in Nat /\ clock' = clock + 1 /\ UNCHANGED <<verified, mailed, minted, used, calls>>
    BY DEF Tick, MailInv, TypeOK
  <1>2. /\ \A t \in Tokens : tokenKey'[t] = Drop(tokenKey[t], clock + 1)
        /\ \A u \in Users : userKey'[u] = Drop(userKey[u], clock + 1)
    BY DEF Tick
  <1>3. TypeOK'
    BY <1>1 DEF Tick, Drop, MailInv, TypeOK
  <1>4. RanksOK'
    BY <1>1 DEF MailInv, RanksOK, Stored
  <1>5. CallsOK'
    BY <1>1 DEF MailInv, CallsOK, CallOK, Sends, SendOK, VerifyOK, Stored
  <1>6. KeysOK'
    <2>1. ASSUME NEW u \in Users, userKey'[u] # None
          PROVE  tokenKey'[userKey'[u].token] = [user |-> u, exp |-> userKey'[u].exp]
      <3>1. userKey[u] # None /\ userKey'[u] = userKey[u] /\ ~(userKey[u].exp < clock + 1)
        BY <2>1, <1>2 DEF Drop
      <3>2. PICK x \in Tokens, e \in Nat : x = userKey[u].token /\ e = userKey[u].exp
        BY <3>1 DEF MailInv, TypeOK, UserData
      <3>3. tokenKey[x] = [user |-> u, exp |-> e]
        BY <3>1, <3>2 DEF MailInv, KeysOK, UserKeyNamesLiveToken
      <3>4. tokenKey'[x] = tokenKey[x]
        BY <3>1, <3>2, <3>3, <1>2 DEF Drop
      <3>. QED
        BY <3>1, <3>2, <3>3, <3>4
    <2>2. ASSUME NEW t \in Tokens, tokenKey'[t] # None
          PROVE  tokenKey[t] # None /\ tokenKey'[t] = tokenKey[t]
      BY <2>2, <1>2 DEF Drop
    <2>. QED
      BY <2>1, <2>2, <1>1 DEF MailInv, KeysOK, UserKeyNamesLiveToken, Stored
  <1>7. ASSUME NEW t \in Stored PROVE Works(t)'
    <2> SUFFICES ASSUME ~Superseded(t), t \notin used, clock + 1 <= minted[t].exp
                 PROVE  tokenKey'[t] # None
      BY <1>1 DEF Works, Superseded
    <2>1. t \in Tokens /\ minted[t].exp \in Nat
      BY DEF Stored, MailInv, TypeOK, Minted
    <2>2. tokenKey[t] # None
      BY <2>1, <1>1 DEF MailInv, MailsOK, Works
    <2>3. tokenKey[t] = [user |-> minted[t].user, exp |-> minted[t].exp]
      BY <2>1, <2>2 DEF MailInv, KeysOK
    <2>4. ~(tokenKey[t].exp < clock + 1)
      BY <2>1, <2>3, <1>1
    <2>. QED
      BY <2>1, <2>2, <2>4, <1>2 DEF Drop
  <1>8. MailsOK'
    BY <1>1, <1>7 DEF MailInv, MailsOK, VerifiedByMail, Stored
  <1>. QED
    BY <1>3, <1>4, <1>5, <1>6, <1>8 DEF MailInv

\* Storing a token for the first time makes it the newest of its user, storing
\* it again changes neither its user nor its rank; what is deleted is older.
LEMMA StoreTokenStep ==
    ASSUME MailInv, NEW h \in Handlers, StoreToken(h)
    PROVE  MailInv'
  <1> USE NoneIsNothing, TimeIsNat
  <1>1. /\ calls[h] \in Call /\ calls[h].step = "store" /\ SendOK(calls[h])
        /\ \A g \in Handlers : g # h /\ calls[g] # None => calls[g].token # calls[h].token
    BY AtCall DEF StoreToken, CallOK, Sends
  <1>2. PICK t \in Tokens, u \in Users, p \in Tokens \cup {None}, exp \in Nat :
           t = calls[h].token /\ u = calls[h].user /\ p = calls[h].previous /\ exp = clock + TTL
    BY <1>1 DEF Call, SendOK, MailInv, TypeOK
  <1>3. /\ t \notin mailed
        /\ t \in Stored => minted[t].user = u
        /\ p # None => /\ p \in Stored /\ minted[p].user = u /\ p # t
                       /\ t \in Stored => minted[t].rank > minted[p].rank
    BY <1>1, <1>2 DEF SendOK
  <1>4. PICK c \in Call :
           /\ c = [calls[h] EXCEPT !.step = "enqueue"]
           /\ c.step = "enqueue" /\ c.user = u /\ c.token = t /\ c.previous = p
    <2> DEFINE d == [calls[h] EXCEPT !.step = "enqueue"]
    <2>1. d \in Call /\ d.step = "enqueue" /\ d.user = u /\ d.token = t /\ d.previous = p
      BY <1>1, <1>2 DEF Call, Step
    <2>. QED
      BY <2>1
  <1>5. PICK r \in Nat : /\ r = RankOf(t)
                         /\ t \in Stored => r = minted[t].rank
                         /\ t \notin Stored => r = Cardinality(Stored)
    <2>1. Cardinality(Stored) \in Nat
      BY FS_CardinalityType DEF MailInv, RanksOK
    <2>2. t \in Stored => minted[t].rank \in Nat
      BY DEF MailInv, TypeOK, Stored, Minted
    <2>3. RankOf(t) = IF t \in Stored THEN minted[t].rank ELSE Cardinality(Stored)
      BY DEF RankOf, Stored
    <2>. QED
      BY <2>1, <2>2, <2>3
  <1> DEFINE new == [user |-> u, rank |-> r, exp |-> exp]
  <1>6. /\ tokenKey' = [Replaced(p) EXCEPT ![t] = [user |-> u, exp |-> exp]]
        /\ userKey' = [userKey EXCEPT ![u] = [token |-> t, exp |-> exp]]
        /\ minted' = [minted EXCEPT ![t] = new]
        /\ calls' = [calls EXCEPT ![h] = c]
        /\ UNCHANGED <<clock, verified, mailed, used>>
    BY <1>2, <1>4, <1>5 DEF StoreToken, GoTo, MailInv, TypeOK
  <1>7. new \in Minted /\ new # None /\ new.user = u /\ new.rank = r /\ new.exp = exp
    BY DEF Minted
  <1> HIDE DEF new
  <1>8. /\ Replaced(p) \in [Tokens -> TokenData \cup {None}]
        /\ \A x \in Tokens : tokenKey'[x] =
              IF x = t THEN [user |-> u, exp |-> exp]
              ELSE IF p # None /\ x = p THEN None ELSE tokenKey[x]
        /\ \A v \in Users : userKey'[v] =
              IF v = u THEN [token |-> t, exp |-> exp] ELSE userKey[v]
        /\ \A x \in Tokens : minted'[x] = IF x = t THEN new ELSE minted[x]
    BY <1>6 DEF Replaced, Without, MailInv, TypeOK
  <1>9. [user |-> u, exp |-> exp] \in TokenData /\ [token |-> t, exp |-> exp] \in UserData
    BY DEF TokenData, UserData
  <1>10. TypeOK'
    BY <1>6, <1>7, <1>8, <1>9 DEF MailInv, TypeOK
  <1>11. Stored' = Stored \cup {t}
    BY <1>7, <1>8 DEF Stored
  <1>12. RanksOK'
    <2>1. /\ IsFiniteSet(Stored) /\ Cardinality(Stored) \in Nat
          /\ IsFiniteSet(Stored')
          /\ Cardinality(Stored') = IF t \in Stored THEN Cardinality(Stored)
                                    ELSE Cardinality(Stored) + 1
      BY <1>11, FS_AddElement, FS_CardinalityType DEF MailInv, RanksOK
    <2>2. ASSUME NEW x \in Stored' PROVE minted'[x].rank < Cardinality(Stored')
      <3>1. CASE x = t
        BY <3>1, <2>1, <1>5, <1>7, <1>8 DEF MailInv, RanksOK
      <3>2. CASE x # t
        <4>1. x \in Stored /\ minted'[x] = minted[x] /\ minted[x].rank \in Nat
          BY <3>2, <2>2, <1>8, <1>11 DEF Stored, MailInv, TypeOK, Minted
        <4>2. minted[x].rank < Cardinality(Stored)
          BY <4>1 DEF MailInv, RanksOK
        <4>. QED
          BY <4>1, <4>2, <2>1
      <3>. QED
        BY <3>1, <3>2
    <2>. QED
      BY <2>1, <2>2 DEF RanksOK
  <1>13. ASSUME NEW x \in Stored
         PROVE  minted'[x].user = minted[x].user /\ minted'[x].rank = minted[x].rank
    BY <1>3, <1>5, <1>7, <1>8 DEF Stored
  <1>14. KeysOK'
    <2>1. ASSUME NEW x \in Tokens, tokenKey'[x] # None
          PROVE  x \in Stored' /\ tokenKey'[x] = [user |-> minted'[x].user, exp |-> minted'[x].exp]
      <3>1. CASE x = t
        BY <3>1, <1>7, <1>8, <1>11
      <3>2. CASE x # t
        BY <3>2, <2>1, <1>8, <1>11 DEF MailInv, KeysOK
      <3>. QED
        BY <3>1, <3>2
    <2>2. ASSUME NEW v \in Users, userKey'[v] # None
          PROVE  tokenKey'[userKey'[v].token] = [user |-> v, exp |-> userKey'[v].exp]
      <3>1. CASE v = u
        BY <3>1, <1>8
      <3>2. CASE v # u
        <4>1. userKey'[v] = userKey[v] /\ userKey[v] # None
          BY <3>2, <2>2, <1>8
        <4>2. PICK x \in Tokens, e \in Nat : x = userKey[v].token /\ e = userKey[v].exp
          BY <4>1 DEF MailInv, TypeOK, UserData
        <4>3. tokenKey[x] = [user |-> v, exp |-> e]
          BY <4>1, <4>2 DEF MailInv, KeysOK, UserKeyNamesLiveToken
        <4>4. tokenKey[x] # None
          BY <4>3 DEF TokenData
        <4>5. x \in Stored /\ minted[x].user = v
          <5>1. x \in Stored /\ tokenKey[x] = [user |-> minted[x].user, exp |-> minted[x].exp]
            BY <4>4 DEF MailInv, KeysOK
          <5>. QED
            BY <5>1, <4>3
        <4>. QED
          BY <4>1, <4>2, <4>3, <4>5, <3>2, <1>3, <1>8
      <3>. QED
        BY <3>1, <3>2
    <2>. QED
      BY <2>1, <2>2 DEF KeysOK, UserKeyNamesLiveToken
  <1>15. ASSUME NEW x \in Stored' PROVE Works(x)'
    <2>1. CASE x = t
      BY <2>1, <1>8, <1>9 DEF Works
    <2>2. CASE x # t /\ p # None /\ x = p
      <3>1. r > minted[p].rank
        BY <2>2, <1>3, <1>5 DEF MailInv, RanksOK
      <3>2. /\ minted'[t] # None /\ minted'[t].user = minted'[x].user
            /\ minted'[t].rank > minted'[x].rank
        BY <3>1, <2>2, <1>3, <1>7, <1>8
      <3>. QED
        BY <3>2 DEF Works, Superseded
    <2>3. CASE x # t /\ ~(p # None /\ x = p)
      <3>1. x \in Stored /\ x \in Tokens /\ minted'[x] = minted[x] /\ tokenKey'[x] = tokenKey[x]
        BY <2>3, <1>8, <1>11 DEF Stored
      <3>2. Superseded(x) => Superseded(x)'
        <4> SUFFICES ASSUME NEW y \in Tokens, minted[y] # None, minted[y].user = minted[x].user,
                            minted[y].rank > minted[x].rank
                     PROVE  /\ minted'[y] # None /\ minted'[y].user = minted'[x].user
                            /\ minted'[y].rank > minted'[x].rank
          BY DEF Superseded
        <4>1. y \in Stored /\ y \in Stored'
          BY <1>11 DEF Stored
        <4>. QED
          BY <4>1, <3>1, <1>13 DEF Stored
      <3>. QED
        BY <3>1, <3>2, <1>6 DEF MailInv, MailsOK, Works
    <2>. QED
      BY <2>1, <2>2, <2>3
  <1>16. MailsOK'
    <2>1. VerifiedByMail'
      BY <1>3, <1>6, <1>8 DEF MailInv, MailsOK, VerifiedByMail, Stored
    <2>. QED
      BY <2>1, <1>6, <1>11, <1>15 DEF MailInv, MailsOK
  <1>17. \A g \in Handlers : calls'[g] = IF g = h THEN c ELSE calls[g]
    BY <1>6 DEF MailInv, TypeOK
  <1>18. ASSUME NEW g \in Handlers, calls'[g] # None PROVE CallOK(calls[g])'
    <2>1. CASE g = h
      <3>1. c.token \in Stored' /\ minted'[t].user = u /\ minted'[t].rank = r
        BY <1>4, <1>7, <1>8, <1>11
      <3>2. p # None => /\ p \in Stored' /\ minted'[p].user = u
                        /\ minted'[t].rank > minted'[p].rank
        BY <3>1, <1>3, <1>5, <1>11, <1>13 DEF MailInv, RanksOK
      <3>3. CallOK(c)'
        BY <3>1, <3>2, <1>3, <1>4, <1>6 DEF CallOK, Sends, SendOK
      <3>. QED
        BY <3>3, <2>1, <1>17
    <2>2. CASE g # h
      <3>1. PICK d \in Call : d = calls[g] /\ calls'[g] = d /\ d.token # t /\ CallOK(d)
        BY <2>2, <1>1, <1>2, <1>17, <1>18 DEF MailInv, TypeOK, CallsOK
      <3>2. d.token \in Tokens /\ (d.token \in Stored <=> d.token \in Stored')
            /\ minted'[d.token] = minted[d.token]
        BY <3>1, <1>8, <1>11 DEF Call
      <3>3. CallOK(d)'
        <4>1. CASE Sends(d)
          <5>1. SendOK(d)
            BY <3>1, <4>1 DEF CallOK
          <5>2. d.previous \in Stored => /\ d.previous \in Stored'
                                         /\ minted'[d.previous].user = minted[d.previous].user
                                         /\ minted'[d.previous].rank = minted[d.previous].rank
            BY <1>11, <1>13
          <5>3. SendOK(d)'
            BY <5>1, <5>2, <3>2, <1>6 DEF SendOK
          <5>. QED
            BY <4>1, <5>3 DEF CallOK, Sends
        <4>2. CASE ~Sends(d)
          BY <4>2, <3>1, <3>2, <1>6 DEF CallOK, Sends, VerifyOK
        <4>. QED
          BY <4>1, <4>2
      <3>. QED
        BY <3>1, <3>3
    <2>. QED
      BY <2>1, <2>2
  <1>19. CallsOK'
    <2>1. ASSUME NEW f \in Handlers, NEW g \in Handlers, f # g, calls'[f] # None, calls'[g] # None,
                 Sends(calls'[f])
          PROVE  calls'[f].token # calls'[g].token
      <3>1. CASE f = h
        <4>1. calls'[g] = calls[g] /\ g # h /\ calls[g] # None
          BY <3>1, <2>1, <1>17
        <4>2. calls[g].token # t
          BY <4>1, <1>1, <1>2
        <4>. QED
          BY <4>1, <4>2, <3>1, <1>4, <1>17
      <3>2. CASE g = h
        BY <3>2, <2>1, <1>1, <1>2, <1>4, <1>17
      <3>3. CASE f # h /\ g # h
        BY <3>3, <2>1, <1>17 DEF MailInv, CallsOK
      <3>. QED
        BY <3>1, <3>2, <3>3
    <2>. QED
      BY <2>1, <1>18 DEF CallsOK, Sends
  <1>. QED
    BY <1>10, <1>12, <1>14, <1>16, <1>19 DEF MailInv

LEMMA MailInvStep == MailInv /\ [Next]_vars => MailInv'
  <1> SUFFICES ASSUME MailInv, [Next]_vars PROVE MailInv'
    OBVIOUS
  <1>1. ASSUME NEW h \in Handlers, InvalidToken(h) \/ Fail(h) PROVE MailInv'
    BY <1>1, OnlyCalls DEF InvalidToken, Fail, Done
  <1>2. CASE UNCHANGED vars
    <2>1. CallsOK'
      BY <1>2 DEF vars, MailInv, CallsOK, CallOK, Sends, SendOK, VerifyOK, Stored
    <2>. QED
      BY <2>1, <1>2, StoreFrame DEF vars, MailInv, TypeOK
  <1>. QED
    BY <1>1, <1>2, StartSendStep, ReadPreviousStep, StoreTokenStep, EnqueueMailStep,
       StartVerifyStep, ReadTokenStep, ConsumeTokenStep, MarkVerifiedStep, ResendStep, TickStep
       DEF Next, Send, Verify

THEOREM MailInvariant == Spec => []MailInv
  BY MailInvInit, MailInvStep, PTL DEF Spec

(***************************************************************************)
(* The theorems.                                                           *)
(***************************************************************************)

\* Keys and requests stay well typed.
THEOREM MailTypes == Spec => []TypeOK
  <1>1. MailInv => TypeOK
    BY DEF MailInv
  <1>. QED
    BY <1>1, MailInvariant, PTL

\* The key of a user always leads to a live token of that user.
THEOREM UserKeyLives == Spec => []UserKeyNamesLiveToken
  <1>1. MailInv => UserKeyNamesLiveToken
    BY DEF MailInv, KeysOK
  <1>. QED
    BY <1>1, MailInvariant, PTL

\* Nothing takes the newest link of a user away before it is used or expires.
THEOREM NewestWorks == Spec => []NewestLinkWorks
  <1>1. MailInv => NewestLinkWorks
    BY DEF MailInv, MailsOK, Works, NewestLinkWorks
  <1>. QED
    BY <1>1, MailInvariant, PTL

\* Nobody is verified without having opened a link of their own.
THEOREM VerifiedMailed == Spec => []VerifiedByMail
  <1>1. MailInv => VerifiedByMail
    BY DEF MailInv, MailsOK
  <1>. QED
    BY <1>1, MailInvariant, PTL

\* A used link is never stored again: only a request that has not mailed its
\* token yet can store it.
THEOREM UsedStaysDead == Spec => UsedLinkStaysDead
  <1>1. ASSUME MailInv, [Next]_vars, NEW t \in used, tokenKey[t] = None
        PROVE  tokenKey'[t] = None
    <2>1. t \in Tokens /\ t \in mailed
      BY <1>1 DEF MailInv, MailsOK, TypeOK
    <2>2. ASSUME NEW h \in Handlers, StoreToken(h) PROVE tokenKey'[t] = None
      <3>1. calls[h].token # t
        BY <2>1, <2>2, <1>1, AtCall DEF StoreToken, CallOK, Sends, SendOK
      <3>. QED
        BY <3>1, <2>1, <2>2, <1>1 DEF StoreToken, Replaced, Without, MailInv, TypeOK
    <2>3. ASSUME NEW h \in Handlers, ConsumeToken(h) PROVE tokenKey'[t] = None
      BY <2>1, <2>3, <1>1 DEF ConsumeToken, Without, MailInv, TypeOK
    <2>4. CASE Tick
      BY <2>1, <2>4, <1>1 DEF Tick, Drop
    <2>5. CASE UNCHANGED tokenKey
      BY <2>5, <1>1
    <2>. QED
      BY <2>2, <2>3, <2>4, <2>5, <1>1
         DEF Next, vars, Send, Verify, StartSend, ReadPrevious, EnqueueMail, StartVerify, ReadToken,
             InvalidToken, MarkVerified, Resend, Fail
  <1>2. MailInv /\ [Next]_vars =>
           (\A t \in used : tokenKey[t] = None => tokenKey'[t] = None)
    BY <1>1
  <1>. QED
    BY <1>2, MailInvariant, PTL DEF Spec, UsedLinkStaysDead
=============================================================================
