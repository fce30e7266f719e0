--------------------------- MODULE SessionsProofs ---------------------------
(***************************************************************************)
(* Proofs about Sessions: its inductive invariant and, from it, the safety *)
(* properties, the finality of a session's end, and the refinement of      *)
(* SessionLedger.                                                          *)
(***************************************************************************)
EXTENDS Sessions, FiniteSetTheorems, TLAPS

(***************************************************************************)
(* Facts about the Redis commands.                                         *)
(***************************************************************************)

\* ZADD followed by the clean-up: the other members and the new one, as far as
\* the clean-up spares them.
LEMMA AddToIndexFacts ==
    ASSUME NEW z, NEW m, NEW s, NEW now
    PROVE  \A e : e \in AddToIndex(z, m, s, now) <=>
              /\ (e \in z /\ e.member # m) \/ e = [member |-> m, score |-> s]
              /\ e.score > now
  BY DEF AddToIndex, ZREMRANGEBYSCORE, ZADD

\* ZREM removes exactly the entries of its member.
LEMMA ZREMFacts ==
    ASSUME NEW z, NEW m
    PROVE  \A e : e \in ZREM(z, m) <=> e \in z /\ e.member # m
  BY DEF ZREM

\* A command a handler waits for is a call.
LEMMA BusyIsCall ==
    ASSUME TypeOK, NEW h \in Handlers, Busy(h)
    PROVE  calls[h] \in Call
  BY DEF TypeOK, Busy

\* Writing a result into a waiting call touches no other call, and nothing but
\* the result of that one.
LEMMA ReturnFrame ==
    ASSUME TypeOK, NEW h \in Handlers, Busy(h), NEW r \in Result \cup {None},
           calls' = [calls EXCEPT ![h].result = r]
    PROVE  /\ calls' \in [Handlers -> Call \cup {None}]
           /\ calls'[h] = [calls[h] EXCEPT !.result = r] /\ calls'[h] \in Call
           /\ calls'[h].result = r /\ calls'[h].id = calls[h].id
           /\ \A g \in Handlers : g # h => calls'[g] = calls[g]
           /\ \A g \in Handlers : Busy(g)' <=> Busy(g)
  <1>1. calls[h] \in Call
    BY BusyIsCall
  <1>2. [calls[h] EXCEPT !.result = r] \in Call
    BY <1>1 DEF Call
  <1>3. /\ calls' \in [Handlers -> Call \cup {None}]
        /\ calls'[h] = [calls[h] EXCEPT !.result = r]
        /\ \A g \in Handlers : g # h => calls'[g] = calls[g]
    BY <1>2 DEF TypeOK
  <1>4. \A g \in Handlers : Busy(g)' <=> Busy(g)
    BY <1>2, <1>3, NoneAssumption DEF Busy
  <1>. QED
    BY <1>1, <1>2, <1>3, <1>4 DEF Call

\* No more sessions are stranded, and no reply is lost.
LEMMA NoneStranded ==
    ASSUME TypeOK, StrandedOK, faults' = faults, Stranded' \subseteq Stranded
    PROVE  StrandedOK'
  <1>1. /\ IsFiniteSet(Stranded') /\ Cardinality(Stranded') <= Cardinality(Stranded)
        /\ Cardinality(Stranded) \in Nat /\ Cardinality(Stranded') \in Nat
    BY FS_Subset, FS_CardinalityType DEF StrandedOK
  <1>. QED
    BY <1>1 DEF StrandedOK, FaultsStrandOneEach, TypeOK

\* A loss strands one session at most.
LEMMA OneStranded ==
    ASSUME TypeOK, StrandedOK, faults' = faults + 1, NEW x, Stranded' \subseteq Stranded \cup {x}
    PROVE  StrandedOK'
  <1>1. /\ IsFiniteSet(Stranded \cup {x}) /\ Cardinality(Stranded) \in Nat
        /\ Cardinality(Stranded \cup {x}) \in Nat
        /\ Cardinality(Stranded \cup {x}) <= Cardinality(Stranded) + 1
    <2>1. IsFiniteSet(Stranded) /\ Cardinality(Stranded) \in Nat
      BY FS_CardinalityType DEF StrandedOK
    <2>2. /\ IsFiniteSet(Stranded \cup {x})
          /\ Cardinality(Stranded \cup {x}) = IF x \in Stranded THEN Cardinality(Stranded)
                                              ELSE Cardinality(Stranded) + 1
      BY <2>1, FS_AddElement
    <2>. QED
      BY <2>1, <2>2
  <1>2. /\ IsFiniteSet(Stranded') /\ Cardinality(Stranded') \in Nat
        /\ Cardinality(Stranded') <= Cardinality(Stranded \cup {x})
    BY <1>1, FS_Subset, FS_CardinalityType
  <1>. QED
    BY <1>1, <1>2 DEF StrandedOK, FaultsStrandOneEach, TypeOK

\* A script that creates no session but the one it reports strands none.
LEMMA StrandedFrame ==
    ASSUME TypeOK, StrandedOK, NEW h \in Handlers, Busy(h), calls[h].result = None,
           NEW r \in Result, calls' = [calls EXCEPT ![h].result = r],
           issued' = issued, faults' = faults,
           \A i \in Ids : Live(i)' => Live(i) \/ (i = calls[h].id /\ r = "OK")
    PROVE  StrandedOK'
  <1>1. ASSUME NEW i \in Ids, Answered(i) PROVE Answered(i)'
    <2>1. PICK g \in Handlers : Busy(g) /\ calls[g].id = i /\ calls[g].result = "OK"
      BY <1>1 DEF Answered
    <2>2. g # h
      BY <2>1, NoneAssumption DEF Result
    <2>. QED
      BY <2>1, <2>2, ReturnFrame DEF Answered
  <1>2. r = "OK" => Answered(calls[h].id)'
    BY ReturnFrame DEF Answered
  <1>3. Stranded' \subseteq Stranded
    BY <1>1, <1>2 DEF Stranded
  <1>. QED
    BY <1>3, NoneStranded

(***************************************************************************)
(* The type invariant.                                                     *)
(***************************************************************************)

\* Handlers and the connection keep the types.
LEMMA TypeOKSend ==
    ASSUME TypeOK, NEW h \in Handlers, NEW op \in Op, NEW u \in Users \cup {None},
           NEW old \in Ids \cup {None}, NEW id \in Ids \cup {None},
           Send(h, op, u, old, id)
    PROVE  TypeOK'
  <1>1. PICK now \in ClockOf(op) :
           calls' = [calls EXCEPT ![h] =
              [op |-> op, user |-> u, old |-> old, id |-> id,
               at |-> clock, now |-> now, result |-> None]]
    BY DEF Send, Request
  <1>2. now \in Int
    BY TimeAssumption DEF ClockOf, TypeOK
  <1>3. [op |-> op, user |-> u, old |-> old, id |-> id,
         at |-> clock, now |-> now, result |-> None] \in Call
    BY <1>2 DEF Call, TypeOK
  <1>. QED
    BY <1>1, <1>3 DEF TypeOK, Send, Request, store

\* Every step keeps the types.
LEMMA TypeOKStep == TypeOK /\ CallsOK /\ [Next]_vars => TypeOK'
  <1> SUFFICES ASSUME TypeOK, CallsOK, [Next]_vars PROVE TypeOK'
    OBVIOUS
  <1> USE TimeAssumption
  <1>1. ASSUME NEW h \in Handlers, StartCreate(h) PROVE TypeOK'
    BY <1>1, TypeOKSend DEF StartCreate, Op
  <1>2. ASSUME NEW h \in Handlers, StartRotate(h) PROVE TypeOK'
    <2>1. PICK t \in issued, i \in Ids : Send(h, "rotate", None, t, i)
      BY <1>2 DEF StartRotate
    <2>. QED
      BY <2>1, TypeOKSend DEF Op, TypeOK
  <1>3. ASSUME NEW h \in Handlers, StartRevoke(h) PROVE TypeOK'
    <2>1. PICK s \in issued : Send(h, "revoke", None, s, None)
      BY <1>3 DEF StartRevoke
    <2>. QED
      BY <2>1, TypeOKSend DEF Op, TypeOK
  <1>4. ASSUME NEW h \in Handlers, StartList(h) PROVE TypeOK'
    BY <1>4, TypeOKSend DEF StartList, Op
  <1>5. ASSUME NEW h \in Handlers, CreateSession(h) PROVE TypeOK'
    <2> DEFINE c == calls[h]
    <2>1. Busy(h) /\ c \in Call /\ c.op = "create" /\ calls' = [calls EXCEPT ![h].result = "OK"]
      BY <1>5, BusyIsCall DEF CreateSession, Waiting, Return
    <2>2. c.user \in Users /\ c.id \in Ids /\ c.now \in Int
      BY <2>1 DEF CallsOK, CallOK, Call
    <2>3. calls' \in [Handlers -> Call \cup {None}]
      BY <2>1, ReturnFrame DEF Result
    <2>4. session' \in [Ids -> Session \cup {None}]
      BY <1>5, <2>2 DEF CreateSession, TypeOK, Session
    <2>5. refresh' \in [Ids -> Refresh \cup {None}]
      BY <1>5, <2>2 DEF CreateSession, TypeOK, Refresh
    <2>6. AddToIndex(userSessions[c.user], c.id, c.now + TTL, c.now) \in SUBSET Entry
      BY <2>2, AddToIndexFacts DEF TypeOK, Entry
    <2>7. userSessions' \in [Users -> SUBSET Entry]
      BY <1>5, <2>2, <2>6 DEF CreateSession, TypeOK
    <2>8. login' \in [Ids -> Ids \cup {None}]
      BY <1>5, <2>2 DEF CreateSession, TypeOK
    <2>. QED
      BY <1>5, <2>3, <2>4, <2>5, <2>7, <2>8 DEF CreateSession, TypeOK
  <1>6. ASSUME NEW h \in Handlers, RotateRefresh(h) PROVE TypeOK'
    <2> DEFINE c == calls[h]
               u == refresh[c.old].user
               s == refresh[c.old].sessionId
    <2>1. Busy(h) /\ c \in Call /\ c.op = "rotate" /\ calls' = [calls EXCEPT ![h].result = "OK"]
      BY <1>6, BusyIsCall DEF RotateRefresh, Waiting, Return
    <2>2. c.old \in Ids /\ c.id \in Ids /\ c.now \in Int
      BY <2>1 DEF CallsOK, CallOK, Call, TypeOK
    <2>3. calls' \in [Handlers -> Call \cup {None}]
      BY <2>1, ReturnFrame DEF Result
    <2>4. u \in Users /\ s \in Ids
      BY <1>6, <2>2 DEF RotateRefresh, TypeOK, Refresh
    <2>5. DeviceOf(s) \in Ids \cup {None}
      BY <2>4 DEF DeviceOf, TypeOK, Session
    <2>6. session' \in [Ids -> Session \cup {None}]
      <3> DEFINE d == [user |-> u, tokenHash |-> c.id, device |-> DeviceOf(s),
                       expiresAt |-> c.now + TTL, exp |-> clock + TTL]
      <3>1. d \in Session
        BY <2>2, <2>4, <2>5 DEF Session, TypeOK
      <3>2. session' = [[session EXCEPT ![s] = None] EXCEPT ![c.id] = d]
        BY <1>6 DEF RotateRefresh, DEL
      <3>. QED
        BY <3>1, <3>2, <2>2, <2>4 DEF TypeOK
    <2>7. refresh' \in [Ids -> Refresh \cup {None}]
      BY <1>6, <2>2, <2>4 DEF RotateRefresh, TypeOK, Refresh, DEL
    <2>8. AddToIndex(ZREM(userSessions[u], s), c.id, c.now + TTL, c.now) \in SUBSET Entry
      BY <2>2, <2>4, AddToIndexFacts, ZREMFacts DEF TypeOK, Entry
    <2>9. userSessions' \in [Users -> SUBSET Entry]
      BY <1>6, <2>4, <2>8 DEF RotateRefresh, TypeOK
    <2>10. login' \in [Ids -> Ids \cup {None}]
      BY <1>6, <2>2 DEF RotateRefresh, TypeOK
    <2>. QED
      BY <1>6, <2>3, <2>6, <2>7, <2>9, <2>10 DEF RotateRefresh, TypeOK
  <1>7. ASSUME NEW h \in Handlers, RotateNotFound(h) PROVE TypeOK'
    BY <1>7, ReturnFrame DEF RotateNotFound, Waiting, Return, Result, TypeOK, store
  <1>8. ASSUME NEW h \in Handlers, RevokeSession(h) PROVE TypeOK'
    <2>1. Busy(h) /\ calls[h].op = "revoke" /\ calls' = [calls EXCEPT ![h].result = "OK"]
      BY <1>8 DEF RevokeSession, Waiting, Return
    <2>2. calls' \in [Handlers -> Call \cup {None}]
      BY <2>1, ReturnFrame DEF Result
    <2> DEFINE s == calls[h].old
    <2>3. s \in Ids /\ session[s] \in Session
      BY <1>8, <2>1 DEF RevokeSession, CallsOK, CallOK, TypeOK
    <2>4. userSessions' \in [Users -> SUBSET Entry]
      BY <1>8, <2>3, ZREMFacts DEF RevokeSession, TypeOK, Session, Entry
    <2>. QED
      BY <1>8, <2>2, <2>3, <2>4 DEF RevokeSession, TypeOK, DEL, Session
  <1>9. ASSUME NEW h \in Handlers, RevokeGone(h) PROVE TypeOK'
    BY <1>9, ReturnFrame DEF RevokeGone, Waiting, Return, Result, TypeOK, store
  <1>10. ASSUME NEW h \in Handlers, GetUserSessions(h) PROVE TypeOK'
    <2>1. Busy(h) /\ \E r \in Result : calls' = [calls EXCEPT ![h].result = r]
      BY <1>10 DEF GetUserSessions, Waiting, Return, Result
    <2>2. calls' \in [Handlers -> Call \cup {None}]
      BY <2>1, ReturnFrame
    <2>3. userSessions' \in [Users -> SUBSET Entry]
      BY <1>10 DEF GetUserSessions, TypeOK, ZREMRANGEBYSCORE
    <2>. QED
      BY <1>10, <2>2, <2>3 DEF GetUserSessions, TypeOK
  <1>11. ASSUME NEW h \in Handlers, Reply(h) PROVE TypeOK'
    <2>1. Mints(calls[h]) => calls[h].id \in Ids
      BY <1>11 DEF Reply, CallsOK, CallOK, Mints
    <2>. QED
      BY <1>11, <2>1 DEF Reply, TypeOK, store
  <1>12. ASSUME NEW h \in Handlers, Resend(h) PROVE TypeOK'
    <2>1. calls' \in [Handlers -> Call \cup {None}]
      BY <1>12, ReturnFrame DEF Resend
    <2>. QED
      BY <1>12, <2>1 DEF Resend, TypeOK, store
  <1>13. ASSUME NEW h \in Handlers, Fail(h) PROVE TypeOK'
    BY <1>13 DEF Fail, TypeOK, store
  <1>14. CASE Tick
    <2>1. /\ \A i \in Ids : Drop(session[i], clock + 1) \in Session \cup {None}
          /\ \A i \in Ids : Drop(refresh[i], clock + 1) \in Refresh \cup {None}
      BY DEF Drop, TypeOK
    <2>. QED
      BY <1>14, <2>1 DEF Tick, TypeOK
  <1>15. CASE UNCHANGED vars
    BY <1>15 DEF vars, TypeOK
  <1>. QED
    BY <1>1, <1>2, <1>3, <1>4, <1>5, <1>6, <1>7, <1>8, <1>9, <1>10, <1>11, <1>12,
       <1>13, <1>14, <1>15 DEF Next

(***************************************************************************)
(* The inductive invariant, one lemma per kind of step.                    *)
(***************************************************************************)

\* It holds before anybody has logged in.
LEMMA IInvInit == Init => IInv
  <1> SUFFICES ASSUME Init PROVE IInv
    OBVIOUS
  <1>1. Stranded = {} /\ faults = 0
    BY DEF Init, Stranded, Live
  <1>2. StrandedOK
    BY <1>1, FS_EmptySet DEF StrandedOK, FaultsStrandOneEach
  <1>. QED
    BY <1>2, TimeAssumption DEF Init, IInv, TypeOK, KeysAgree, OnlyBornIds, ScoresAgree,
       CallsOK, OneLivePerLogin, IndexComplete, GhostsAreExpired, DeviceFollowsLogin, Live, Busy

\* The part of the invariant that speaks about the store and not about handlers.
StoreInv ==
    /\ KeysAgree /\ OnlyBornIds /\ ScoresAgree /\ OneLivePerLogin
    /\ IndexComplete /\ GhostsAreExpired /\ DeviceFollowsLogin

\* A step that leaves clock, store, login and issued ids alone keeps that part.
LEMMA StoreFrame ==
    ASSUME StoreInv, UNCHANGED <<clock, store, login, issued>>
    PROVE  StoreInv'
  BY DEF StoreInv, store, KeysAgree, OnlyBornIds, ScoresAgree, OneLivePerLogin,
     IndexComplete, GhostsAreExpired, DeviceFollowsLogin, Live

\* Sending a command.
LEMMA IInvSend ==
    ASSUME IInv, NEW h \in Handlers, NEW op \in Op, NEW u \in Users \cup {None},
           NEW old \in Ids \cup {None}, NEW id \in Ids \cup {None},
           Send(h, op, u, old, id),
           op \in {"create", "list"} => u \in Users,
           op \in {"rotate", "revoke"} => old \in issued,
           op \in {"create", "rotate"} => id \in Ids /\ Fresh(id),
           op \in {"revoke", "list"} => id = None
    PROVE  IInv'
  <1>1. TypeOK'
    BY TypeOKSend DEF IInv
  <1>2. StoreInv'
    BY StoreFrame DEF IInv, StoreInv, Send, Request
  <1>3. PICK now \in ClockOf(op) :
           calls' = [calls EXCEPT ![h] =
              [op |-> op, user |-> u, old |-> old, id |-> id,
               at |-> clock, now |-> now, result |-> None]]
    BY DEF Send, Request
  <1>4. UNCHANGED <<clock, session, login, issued, faults>> /\ ~Busy(h)
    BY DEF Send, Request, store
  <1>5. CallsOK'
    <2>1. ASSUME NEW g \in Handlers, Busy(g)' PROVE CallOK(calls[g])'
      <3>1. CASE g = h
        <4>1. op # "revoke" => clock - MaxSkew <= now /\ now <= clock + MaxSkew
          BY TimeAssumption DEF ClockOf, IInv, TypeOK
        <4>. QED
          BY <1>3, <1>4, <3>1, <4>1, TimeAssumption, NoneAssumption
             DEF CallOK, IInv, TypeOK, Fresh, Live, Mints, Result
      <3>2. CASE g # h
        BY <1>3, <1>4, <2>1, <3>2 DEF CallOK, IInv, TypeOK, CallsOK, Busy, Live, Mints
      <3>. QED
        BY <3>1, <3>2
    <2>2. ASSUME NEW g \in Handlers, NEW k \in Handlers, Busy(g)', Busy(k)',
                 (calls[g].id = calls[k].id)', calls'[g].id # None
          PROVE  g = k
      BY <1>3, <1>4, <2>2 DEF IInv, TypeOK, CallsOK, Busy, Fresh, Op
    <2>. QED
      BY <2>1, <2>2 DEF CallsOK
  <1>6. StrandedOK'
    <2>1. Stranded' \subseteq Stranded
      BY <1>3, <1>4 DEF IInv, TypeOK, Stranded, Answered, Live, Busy
    <2>. QED
      BY <1>4, <2>1, NoneStranded DEF IInv
  <1>. QED
    BY <1>1, <1>2, <1>5, <1>6 DEF IInv, StoreInv

\* An answer that changes nothing in the store.
LEMMA IInvAnswer ==
    ASSUME IInv, NEW h \in Handlers, Busy(h), calls[h].result = None,
           NEW r \in {"TOKEN_NOT_FOUND", "gone"}, Return(h, r),
           UNCHANGED <<clock, store, issued, login, faults>>
    PROVE  IInv'
  <1>1. calls[h] \in Call /\ calls' = [calls EXCEPT ![h].result = r]
    BY BusyIsCall DEF IInv, Return
  <1>2. TypeOK'
    <2>1. calls' \in [Handlers -> Call \cup {None}]
      BY <1>1, ReturnFrame DEF IInv, Result
    <2>. QED
      BY <2>1 DEF IInv, TypeOK, store
  <1>3. StoreInv'
    BY StoreFrame DEF IInv, StoreInv
  <1>4. \A g \in Handlers : Busy(g)' => /\ Busy(g)
                                       /\ calls'[g] = IF g = h THEN [calls[h] EXCEPT !.result = r]
                                                               ELSE calls[g]
    BY <1>1 DEF IInv, TypeOK, Busy
  <1>5. CallsOK'
    <2>1. ASSUME NEW g \in Handlers, Busy(g)' PROVE CallOK(calls[g])'
      BY <1>1, <1>4, <2>1 DEF IInv, CallsOK, CallOK, Call, Live, Mints, store
    <2>. QED
      BY <1>1, <1>4, <2>1 DEF IInv, CallsOK, Call
  <1>6. StrandedOK'
    BY <1>1, StrandedFrame DEF IInv, Live, store, Result
  <1>. QED
    BY <1>2, <1>3, <1>5, <1>6 DEF IInv, StoreInv

\* create-session.lua.
LEMMA IInvCreateSession ==
    ASSUME IInv, TypeOK', NEW h \in Handlers, CreateSession(h) PROVE IInv'
  <1> DEFINE c == calls[h]
             d == [user |-> c.user, tokenHash |-> c.id, device |-> c.id,
                   expiresAt |-> c.now + TTL, exp |-> clock + TTL]
             k == [user |-> c.user, sessionId |-> c.id, exp |-> clock + TTL]
  <1>1. /\ Busy(h) /\ c \in Call /\ c.op = "create" /\ c.result = None /\ CallOK(c)
        /\ calls' = [calls EXCEPT ![h].result = "OK"]
        /\ clock' = clock /\ issued' = issued /\ faults' = faults
    BY BusyIsCall DEF IInv, CallsOK, CreateSession, Waiting, Return
  <1>2. /\ c.id \in Ids \ issued /\ c.user \in Users /\ c.now \in Int /\ c.at \in Nat
        /\ c.at <= clock /\ clock <= c.at + MaxDelay
        /\ c.now <= c.at + MaxSkew
    BY <1>1 DEF CallOK, Call
  <1>3. d \in Session /\ k \in Refresh
    BY <1>2, TimeAssumption DEF Session, Refresh, IInv, TypeOK
  <1>4. /\ session' = [session EXCEPT ![c.id] = d]
        /\ refresh' = [refresh EXCEPT ![c.id] = k]
        /\ login' = [login EXCEPT ![c.id] = c.id]
    BY DEF CreateSession
  <1>5. /\ \A u \in Users : u # c.user => userSessions'[u] = userSessions[u]
        /\ \A e : e \in userSessions'[c.user] <=>
              /\ \/ e \in userSessions[c.user] /\ e.member # c.id
                 \/ e = [member |-> c.id, score |-> c.now + TTL]
              /\ e.score > c.now
    <2>1. userSessions' = [userSessions EXCEPT ![c.user] =
                              AddToIndex(@, c.id, c.now + TTL, c.now)]
      BY DEF CreateSession
    <2>. QED
      BY <1>2, <2>1, AddToIndexFacts DEF IInv, TypeOK
  <1>6. \/ login[c.id] = None /\ ~Live(c.id)
        \/ /\ Live(c.id) /\ login[c.id] = c.id
           /\ session[c.id].user = c.user
    BY <1>1, <1>2 DEF IInv, CallOK, OnlyBornIds
  <1>7. /\ \A i \in Ids : i # c.id => /\ session'[i] = session[i]
                                      /\ refresh'[i] = refresh[i]
                                      /\ login'[i] = login[i]
        /\ session'[c.id] = d /\ refresh'[c.id] = k /\ login'[c.id] = c.id
        /\ d # None /\ k # None /\ c.id # None
    BY <1>2, <1>3, <1>4, NoneAssumption DEF IInv, TypeOK
  <1>8. \A i \in Ids : Live(i)' <=> Live(i) \/ i = c.id
    BY <1>7 DEF Live
  <1>. HIDE DEF c
  <1>9. KeysAgree'
    BY <1>7, <1>8 DEF IInv, KeysAgree, Live
  <1>10. OnlyBornIds'
    <2>1. \A i \in Ids : login'[i] # None => login'[login'[i]] # None
      BY <1>2, <1>7 DEF IInv, OnlyBornIds, TypeOK
    <2>2. \A u \in Users : \A e \in userSessions'[u] : login'[e.member] # None
      BY <1>2, <1>5, <1>7 DEF IInv, OnlyBornIds, TypeOK, Entry
    <2>3. \A i \in Ids : Live(i)' => login'[i] # None
      BY <1>7, <1>8 DEF IInv, OnlyBornIds
    <2>. QED
      BY <1>1, <1>2, <1>7, <2>1, <2>2, <2>3 DEF IInv, OnlyBornIds, TypeOK
  <1>11. ScoresAgree'
    <2>1. \A u \in Users : \A e \in userSessions'[u] :
             Live(e.member)' => e.score = session'[e.member].expiresAt
      <3> SUFFICES ASSUME NEW u \in Users, NEW e \in userSessions'[u], Live(e.member)'
                   PROVE  e.score = session'[e.member].expiresAt
        OBVIOUS
      <3>0. e.member \in Ids /\ e \in Entry
        BY DEF TypeOK, Entry
      <3>1. CASE u = c.user /\ e = [member |-> c.id, score |-> c.now + TTL]
        BY <3>1, <1>7
      <3>2. CASE e \in userSessions[u] /\ e.member # c.id
        BY <3>0, <3>2, <1>7 DEF IInv, ScoresAgree, Live
      <3>3. CASE u # c.user /\ e \in userSessions[u] /\ e.member = c.id
        BY <3>3, <1>6 DEF IInv, GhostsAreExpired, OnlyBornIds
      <3>. QED
        BY <3>1, <3>2, <3>3, <1>5
    <2>2. c.now + TTL <= clock + TTL + MaxSkew
      BY <1>2, TimeAssumption DEF IInv, TypeOK
    <2>. QED
      BY <2>1, <2>2, <1>7, <1>8, TimeAssumption DEF IInv, ScoresAgree, Live, TypeOK
  <1>12. OneLivePerLogin'
    BY <1>2, <1>6, <1>7, <1>8 DEF IInv, OneLivePerLogin, OnlyBornIds, TypeOK
  <1>13. IndexComplete'
    <2> SUFFICES ASSUME NEW i \in Ids, Live(i)', clock + MaxSkew < session'[i].expiresAt
                 PROVE  [member |-> i, score |-> session'[i].expiresAt]
                            \in userSessions'[session'[i].user]
      BY <1>1 DEF IndexComplete
    <2>1. CASE i = c.id
      BY <2>1, <1>2, <1>5, <1>7, TimeAssumption
    <2>2. CASE i # c.id
      <3>1. /\ Live(i) /\ session'[i] = session[i] /\ session[i] \in Session
            /\ [member |-> i, score |-> session[i].expiresAt] \in userSessions[session[i].user]
        BY <2>2, <1>7, <1>8 DEF IInv, IndexComplete, TypeOK, Live
      <3>2. session[i].expiresAt \in Int /\ session[i].expiresAt > c.now
        BY <3>1, <1>2, TimeAssumption DEF Session, IInv, TypeOK
      <3>. QED
        BY <2>2, <3>1, <3>2, <1>5 DEF Session
    <2>. QED
      BY <2>1, <2>2
  <1>14. GhostsAreExpired'
    <2> SUFFICES ASSUME NEW u \in Users, NEW e \in userSessions'[u]
                 PROVE  IF Live(e.member)' THEN session'[e.member].user = u
                                           ELSE clock + MaxSkew > e.score
      BY <1>1 DEF GhostsAreExpired
    <2>0. e.member \in Ids /\ e \in Entry
      BY DEF TypeOK, Entry
    <2>1. CASE e \in userSessions[u] /\ e.member # c.id
      <3>1. session'[e.member] = session[e.member]
        BY <2>0, <2>1, <1>7
      <3>. QED
        BY <2>1, <3>1 DEF IInv, GhostsAreExpired, Live
    <2>2. CASE u = c.user /\ e.member = c.id
      BY <2>2, <1>7 DEF Live
    <2>3. CASE u # c.user /\ e \in userSessions[u] /\ e.member = c.id
      BY <2>3, <1>6 DEF IInv, GhostsAreExpired, OnlyBornIds
    <2>. QED
      BY <2>1, <2>2, <2>3, <1>5
  <1>15. DeviceFollowsLogin'
    BY <1>7, <1>8 DEF IInv, DeviceFollowsLogin
  <1>16. \A g \in Handlers : Busy(g)' => /\ Busy(g)
                                        /\ calls'[g] = IF g = h THEN [c EXCEPT !.result = "OK"]
                                                                ELSE calls[g]
    BY <1>1 DEF IInv, TypeOK, Busy, c
  <1>17. CallsOK'
    <2>1. ASSUME NEW g \in Handlers, Busy(g)' PROVE CallOK(calls[g])'
      <3>1. CASE g = h
        BY <1>1, <1>2, <1>7, <1>8, <1>16, <2>1, <3>1, TimeAssumption
           DEF CallOK, Call, Mints, IInv, TypeOK
      <3>2. CASE g # h
        <4>1. calls'[g] = calls[g] /\ CallOK(calls[g]) /\ calls[g].id # c.id
          BY <1>1, <1>2, <1>7, <1>16, <2>1, <3>2 DEF IInv, CallsOK, c
        <4>2. calls[g].old # c.id \/ calls[g].op \notin {"rotate", "revoke"}
          BY <1>2, <4>1 DEF CallOK
        <4>3. calls[g] \in Call
          BY <1>16, <2>1, BusyIsCall DEF IInv
        <4>. QED
          BY <1>1, <1>2, <1>7, <1>8, <4>1, <4>2, <4>3
             DEF CallOK, Call, Mints, IInv, TypeOK
      <3>. QED
        BY <3>1, <3>2
    <2>. QED
      BY <1>1, <1>16, <2>1 DEF IInv, CallsOK, Call, c
  <1>18. StrandedOK'
    BY <1>1, <1>8, StrandedFrame DEF IInv, Result, c
  <1>. QED
    BY <1>9, <1>10, <1>11, <1>12, <1>13, <1>14, <1>15, <1>17, <1>18 DEF IInv

\* rotate-refresh.lua, when the token is there.
LEMMA IInvRotateRefresh ==
    ASSUME IInv, TypeOK', NEW h \in Handlers, RotateRefresh(h) PROVE IInv'
  <1> DEFINE c == calls[h]
             u == refresh[c.old].user
             s == refresh[c.old].sessionId
             d == [user |-> u, tokenHash |-> c.id, device |-> DeviceOf(s),
                   expiresAt |-> c.now + TTL, exp |-> clock + TTL]
             k == [user |-> u, sessionId |-> c.id, exp |-> clock + TTL]
  <1>1. /\ Busy(h) /\ c \in Call /\ c.op = "rotate" /\ c.result = None /\ CallOK(c)
        /\ calls' = [calls EXCEPT ![h].result = "OK"]
        /\ clock' = clock /\ issued' = issued /\ faults' = faults
        /\ refresh[c.old] # None
    BY BusyIsCall DEF IInv, CallsOK, RotateRefresh, Waiting, Return
  <1>2. /\ c.id \in Ids \ issued /\ c.old \in issued /\ c.old \in Ids
        /\ c.now \in Int /\ c.at \in Nat
        /\ c.at <= clock /\ clock <= c.at + MaxDelay
        /\ c.now <= c.at + MaxSkew
    BY <1>1 DEF CallOK, Call, IInv, TypeOK
  \* The token of the old session names that session, which is still alive.
  <1>3. /\ s = c.old /\ Live(s) /\ u = session[s].user /\ u \in Users
        /\ DeviceOf(s) = login[s] /\ login[s] \in Ids
    BY <1>1, <1>2 DEF IInv, KeysAgree, TypeOK, Refresh, DeviceOf, Live,
       DeviceFollowsLogin, OnlyBornIds
  \* So this rotation has not run before.
  <1>4. login[c.id] = None /\ ~Live(c.id) /\ c.id # s
    BY <1>1, <1>2, <1>3 DEF CallOK, IInv, OnlyBornIds
  <1>5. d \in Session /\ k \in Refresh
    BY <1>2, <1>3, TimeAssumption DEF Session, Refresh, IInv, TypeOK
  <1>6. /\ session' = [[session EXCEPT ![s] = None] EXCEPT ![c.id] = d]
        /\ refresh' = [[refresh EXCEPT ![c.old] = None] EXCEPT ![c.id] = k]
        /\ login' = [login EXCEPT ![c.id] = login[c.old]]
    BY DEF RotateRefresh, DEL
  <1>7. /\ \A i \in Ids : i # c.id /\ i # s => /\ session'[i] = session[i]
                                               /\ refresh'[i] = refresh[i]
        /\ \A i \in Ids : i # c.id => login'[i] = login[i]
        /\ session'[c.id] = d /\ refresh'[c.id] = k /\ login'[c.id] = login[s]
        /\ session'[s] = None /\ refresh'[s] = None
        /\ d # None /\ k # None
    BY <1>2, <1>3, <1>4, <1>5, <1>6, NoneAssumption DEF IInv, TypeOK
  <1>8. \A i \in Ids : Live(i)' <=> (Live(i) /\ i # s) \/ i = c.id
    BY <1>4, <1>7 DEF Live
  <1>9. /\ \A v \in Users : v # u => userSessions'[v] = userSessions[v]
        /\ \A e : e \in userSessions'[u] <=>
              /\ \/ e \in userSessions[u] /\ e.member # s /\ e.member # c.id
                 \/ e = [member |-> c.id, score |-> c.now + TTL]
              /\ e.score > c.now
    <2>1. userSessions' = [userSessions EXCEPT ![u] =
                              AddToIndex(ZREM(@, s), c.id, c.now + TTL, c.now)]
      BY DEF RotateRefresh
    <2>. QED
      BY <1>3, <2>1, AddToIndexFacts, ZREMFacts DEF IInv, TypeOK
  <1>. HIDE DEF c, u, s
  \* Nobody has used the new id, and only its user lists the old session.
  <1>10. ASSUME NEW v \in Users, NEW e \in userSessions'[v]
         PROVE  /\ e \in Entry /\ e.member \in Ids
                /\ \/ v = u /\ e = [member |-> c.id, score |-> c.now + TTL]
                   \/ e \in userSessions[v] /\ e.member # s /\ e.member # c.id
    <2>1. e \in Entry /\ e.member \in Ids
      BY DEF TypeOK, Entry
    <2>2. e \in userSessions[v] => e.member # c.id
      BY <1>4 DEF IInv, OnlyBornIds
    <2>3. e \in userSessions[v] /\ v # u => e.member # s
      BY <1>3 DEF IInv, GhostsAreExpired
    <2>. QED
      BY <2>1, <2>2, <2>3, <1>9
  <1>11. KeysAgree'
    BY <1>7, <1>8 DEF IInv, KeysAgree, Live
  <1>12. OnlyBornIds'
    <2>1. \A i \in Ids : login'[i] # None => login'[login'[i]] # None
      BY <1>2, <1>3, <1>4, <1>7 DEF IInv, OnlyBornIds, TypeOK
    <2>2. \A v \in Users : \A e \in userSessions'[v] : login'[e.member] # None
      BY <1>3, <1>7, <1>10, NoneAssumption DEF IInv, OnlyBornIds
    <2>3. \A i \in Ids : Live(i)' => login'[i] # None
      BY <1>3, <1>7, <1>8, NoneAssumption DEF IInv, OnlyBornIds
    <2>. QED
      BY <1>1, <1>2, <1>7, <2>1, <2>2, <2>3 DEF IInv, OnlyBornIds, TypeOK
  <1>13. ScoresAgree'
    <2>1. \A v \in Users : \A e \in userSessions'[v] :
             Live(e.member)' => e.score = session'[e.member].expiresAt
      <3> SUFFICES ASSUME NEW v \in Users, NEW e \in userSessions'[v], Live(e.member)'
                   PROVE  e.score = session'[e.member].expiresAt
        OBVIOUS
      <3>1. CASE e = [member |-> c.id, score |-> c.now + TTL]
        BY <3>1, <1>7
      <3>2. CASE e \in userSessions[v] /\ e.member # s /\ e.member # c.id
        BY <3>2, <1>7, <1>10 DEF IInv, ScoresAgree, Live
      <3>. QED
        BY <3>1, <3>2, <1>10
    <2>2. c.now + TTL <= clock + TTL + MaxSkew
      BY <1>2, TimeAssumption DEF IInv, TypeOK
    <2>. QED
      BY <2>1, <2>2, <1>7, <1>8, TimeAssumption DEF IInv, ScoresAgree, Live, TypeOK
  <1>14. OneLivePerLogin'
    <2>1. \A i \in Ids : Live(i) /\ login[i] = login[s] => i = s
      BY <1>2, <1>3 DEF IInv, OneLivePerLogin
    <2>2. ASSUME NEW i \in Ids, NEW j \in Ids, Live(i)', Live(j)', login'[i] = login'[j]
          PROVE  i = j
      <3>1. CASE i = c.id
        BY <2>1, <2>2, <3>1, <1>7, <1>8
      <3>2. CASE j = c.id
        BY <2>1, <2>2, <3>2, <1>7, <1>8
      <3>3. CASE i # c.id /\ j # c.id
        BY <2>2, <3>3, <1>7, <1>8 DEF IInv, OneLivePerLogin
      <3>. QED
        BY <3>1, <3>2, <3>3
    <2>. QED
      BY <2>2 DEF OneLivePerLogin
  <1>15. IndexComplete'
    <2> SUFFICES ASSUME NEW i \in Ids, Live(i)', clock + MaxSkew < session'[i].expiresAt
                 PROVE  [member |-> i, score |-> session'[i].expiresAt]
                            \in userSessions'[session'[i].user]
      BY <1>1 DEF IndexComplete
    <2>1. CASE i = c.id
      BY <2>1, <1>2, <1>9, <1>7, TimeAssumption
    <2>2. CASE i # c.id
      <3>1. /\ Live(i) /\ i # s /\ session'[i] = session[i] /\ session[i] \in Session
            /\ [member |-> i, score |-> session[i].expiresAt] \in userSessions[session[i].user]
        BY <2>2, <1>7, <1>8 DEF IInv, IndexComplete, TypeOK, Live
      <3>2. session[i].expiresAt \in Int /\ session[i].expiresAt > c.now
        BY <3>1, <1>2, TimeAssumption DEF Session, IInv, TypeOK
      <3>. QED
        BY <2>2, <3>1, <3>2, <1>9 DEF Session
    <2>. QED
      BY <2>1, <2>2
  <1>16. GhostsAreExpired'
    <2> SUFFICES ASSUME NEW v \in Users, NEW e \in userSessions'[v]
                 PROVE  IF Live(e.member)' THEN session'[e.member].user = v
                                           ELSE clock + MaxSkew > e.score
      BY <1>1 DEF GhostsAreExpired
    <2>1. CASE v = u /\ e = [member |-> c.id, score |-> c.now + TTL]
      BY <2>1, <1>7 DEF Live
    <2>2. CASE e \in userSessions[v] /\ e.member # s /\ e.member # c.id
      <3>1. session'[e.member] = session[e.member]
        BY <2>2, <1>7, <1>10
      <3>. QED
        BY <2>2, <3>1 DEF IInv, GhostsAreExpired, Live
    <2>. QED
      BY <2>1, <2>2, <1>10
  <1>17. DeviceFollowsLogin'
    BY <1>3, <1>7, <1>8 DEF IInv, DeviceFollowsLogin
  <1>18. CallsOK'
    <2>0. /\ calls'[h] = [c EXCEPT !.result = "OK"] /\ calls'[h].id = calls[h].id
          /\ \A g \in Handlers : g # h => calls'[g] = calls[g]
          /\ \A g \in Handlers : Busy(g)' <=> Busy(g)
      BY <1>1, ReturnFrame DEF IInv, Result, c
    <2>1. ASSUME NEW g \in Handlers, Busy(g)' PROVE CallOK(calls[g])'
      <3>1. CASE g = h
        BY <1>1, <1>2, <1>3, <1>4, <1>7, <1>8, <2>0, <3>1, NoneAssumption
           DEF CallOK, Call, Mints, IInv, TypeOK
      <3>2. CASE g # h
        <4>1. calls'[g] = calls[g] /\ CallOK(calls[g]) /\ calls[g].id # c.id
          BY <1>1, <1>2, <2>0, <2>1, <3>2, NoneAssumption DEF IInv, CallsOK, c
        <4>2. calls[g].op \in {"rotate", "revoke"} => calls[g].old # c.id
          BY <1>2, <4>1 DEF CallOK
        \* The old session was handed out: no create waits with its id.
        <4>3. calls[g].op = "create" => calls[g].id # s
          BY <1>2, <1>3, <4>1 DEF CallOK
        <4>4. calls[g] \in Call
          BY <2>0, <2>1, BusyIsCall DEF IInv
        <4>. QED
          BY <1>1, <1>2, <1>3, <1>7, <1>8, <4>1, <4>2, <4>3, <4>4
             DEF CallOK, Call, Mints, IInv, TypeOK
      <3>. QED
        BY <3>1, <3>2
    <2>. QED
      BY <2>0, <2>1 DEF IInv, CallsOK
  <1>19. StrandedOK'
    BY <1>1, <1>8, StrandedFrame DEF IInv, Result, c
  <1>. QED
    BY <1>11, <1>12, <1>13, <1>14, <1>15, <1>16, <1>17, <1>18, <1>19 DEF IInv

\* revoke-session.lua, when the session is there.
LEMMA IInvRevokeSession ==
    ASSUME IInv, TypeOK', NEW h \in Handlers, RevokeSession(h) PROVE IInv'
  <1> DEFINE s == calls[h].old
             u == session[s].user
  <1>1. /\ Busy(h) /\ calls[h] \in Call /\ calls[h].op = "revoke" /\ calls[h].result = None
        /\ CallOK(calls[h]) /\ calls' = [calls EXCEPT ![h].result = "OK"]
        /\ clock' = clock /\ issued' = issued /\ faults' = faults /\ login' = login
        /\ session[s] # None
    BY BusyIsCall DEF IInv, CallsOK, RevokeSession, Waiting, Return
  <1>2. s \in issued /\ s \in Ids /\ u \in Users /\ session[s].tokenHash = s
    BY <1>1 DEF CallOK, IInv, TypeOK, KeysAgree, Live, Session
  <1>3. /\ session' = [session EXCEPT ![s] = None]
        /\ refresh' = [refresh EXCEPT ![s] = None]
        /\ userSessions' = [userSessions EXCEPT ![u] = ZREM(@, s)]
    BY <1>2 DEF RevokeSession, DEL
  <1>4. /\ \A i \in Ids : i # s => session'[i] = session[i] /\ refresh'[i] = refresh[i]
        /\ session'[s] = None /\ refresh'[s] = None
        /\ \A i \in Ids : Live(i)' <=> Live(i) /\ i # s
    BY <1>2, <1>3 DEF IInv, TypeOK, Live
  \* Only the owner of a live session lists it.
  <1>5. \A v \in Users : \A e : e \in userSessions'[v] <=> e \in userSessions[v] /\ e.member # s
    <2>1. \A v \in Users : \A e \in userSessions[v] : e.member = s => v = u
      BY <1>1 DEF IInv, GhostsAreExpired, Live
    <2>. QED
      BY <1>2, <1>3, <2>1, ZREMFacts DEF IInv, TypeOK
  <1>. HIDE DEF s, u
  <1>6. KeysAgree'
    BY <1>2, <1>4 DEF IInv, KeysAgree, Live
  <1>7. OnlyBornIds' /\ ScoresAgree'
    <2>1. \A v \in Users : \A e \in userSessions[v] : e.member \in Ids
      BY DEF IInv, TypeOK, Entry
    <2>2. OnlyBornIds'
      BY <1>1, <1>4, <1>5 DEF IInv, OnlyBornIds
    <2>. QED
      BY <2>1, <2>2, <1>4, <1>5 DEF IInv, ScoresAgree, Live
  <1>8. OneLivePerLogin' /\ DeviceFollowsLogin'
    BY <1>1, <1>4 DEF IInv, OneLivePerLogin, DeviceFollowsLogin
  <1>9. IndexComplete'
    BY <1>1, <1>4, <1>5 DEF IInv, IndexComplete, TypeOK, Session, Live
  <1>10. GhostsAreExpired'
    <2>1. \A v \in Users : \A e \in userSessions'[v] :
             e \in userSessions[v] /\ session'[e.member] = session[e.member]
      BY <1>4, <1>5 DEF IInv, TypeOK, Entry
    <2>. QED
      BY <1>1, <2>1 DEF IInv, GhostsAreExpired, Live
  <1>11. CallsOK'
    <2>0. /\ calls'[h] = [calls[h] EXCEPT !.result = "OK"] /\ calls'[h].id = calls[h].id
          /\ \A g \in Handlers : g # h => calls'[g] = calls[g]
          /\ \A g \in Handlers : Busy(g)' <=> Busy(g)
      BY <1>1, ReturnFrame DEF IInv, Result
    <2>1. ASSUME NEW g \in Handlers, Busy(g)' PROVE CallOK(calls[g])'
      <3>1. CASE g = h
        BY <1>1, <2>0, <3>1 DEF CallOK, Call, Mints, IInv, TypeOK
      <3>2. CASE g # h
        <4>1. calls'[g] = calls[g] /\ CallOK(calls[g]) /\ calls[g] \in Call
          BY <2>0, <2>1, <3>2, BusyIsCall DEF IInv, CallsOK
        <4>2. calls[g].op = "create" => calls[g].id # s
          BY <1>2, <4>1 DEF CallOK
        <4>. QED
          BY <1>1, <1>4, <4>1, <4>2 DEF CallOK, Call, Mints, IInv, TypeOK
      <3>. QED
        BY <3>1, <3>2
    <2>. QED
      BY <2>0, <2>1 DEF IInv, CallsOK
  <1>12. StrandedOK'
    BY <1>1, <1>4, StrandedFrame DEF IInv, Result
  <1>. QED
    BY <1>6, <1>7, <1>8, <1>9, <1>10, <1>11, <1>12 DEF IInv

\* get-user-sessions.lua removes expired entries and ghosts, nothing else.
LEMMA IInvGetUserSessions ==
    ASSUME IInv, TypeOK', NEW h \in Handlers, GetUserSessions(h) PROVE IInv'
  <1> DEFINE u == calls[h].user
  <1>1. PICK r \in Result : calls' = [calls EXCEPT ![h].result = r]
    BY DEF GetUserSessions, Return, Result
  <1>2. /\ Busy(h) /\ calls[h] \in Call /\ calls[h].op = "list" /\ calls[h].result = None
        /\ CallOK(calls[h])
        /\ UNCHANGED <<clock, session, refresh, issued, login, faults>>
    BY BusyIsCall DEF IInv, CallsOK, GetUserSessions, Waiting
  <1>3. u \in Users /\ calls[h].now \in Int /\ calls[h].now <= clock + MaxSkew
    BY <1>2, TimeAssumption DEF CallOK, Call, IInv, TypeOK
  <1>4. \A v \in Users :
          /\ userSessions'[v] \subseteq userSessions[v]
          /\ \A e \in userSessions[v] :
                Live(e.member) /\ e.score > calls[h].now => e \in userSessions'[v]
    BY <1>3 DEF GetUserSessions, ZREMRANGEBYSCORE, Live, IInv, TypeOK
  <1>5. KeysAgree' /\ OneLivePerLogin' /\ DeviceFollowsLogin'
    BY <1>2 DEF IInv, KeysAgree, OneLivePerLogin, DeviceFollowsLogin, Live
  <1>6. OnlyBornIds' /\ ScoresAgree' /\ GhostsAreExpired'
    BY <1>2, <1>4 DEF IInv, OnlyBornIds, ScoresAgree, GhostsAreExpired, Live
  <1>7. IndexComplete'
    <2> SUFFICES ASSUME NEW i \in Ids, Live(i), clock + MaxSkew < session[i].expiresAt
                 PROVE  [member |-> i, score |-> session[i].expiresAt]
                            \in userSessions'[session[i].user]
      BY <1>2 DEF IndexComplete, Live
    <2>1. session[i] \in Session
      BY DEF IInv, TypeOK, Live
    <2>2. session[i].user \in Users /\ session[i].expiresAt > calls[h].now
      BY <2>1, <1>3, TimeAssumption DEF Session, IInv, TypeOK
    <2>. QED
      BY <2>2, <1>4 DEF IInv, IndexComplete
  <1>8. CallsOK'
    <2>0. /\ calls'[h] = [calls[h] EXCEPT !.result = r] /\ calls'[h].id = calls[h].id
          /\ \A g \in Handlers : g # h => calls'[g] = calls[g]
          /\ \A g \in Handlers : Busy(g)' <=> Busy(g)
      BY <1>1, <1>2, ReturnFrame DEF IInv
    <2>1. ASSUME NEW g \in Handlers, Busy(g)' PROVE CallOK(calls[g])'
      BY <1>2, <2>0, <2>1 DEF IInv, CallsOK, CallOK, Call, Mints, Live
    <2>. QED
      BY <2>0, <2>1 DEF IInv, CallsOK
  <1>9. StrandedOK'
    <2>1. \A i \in Ids : Live(i)' => Live(i)
      BY <1>2 DEF Live
    <2>. QED
      BY <2>1, <1>1, <1>2, StrandedFrame DEF IInv
  <1>. QED
    BY <1>5, <1>6, <1>7, <1>8, <1>9 DEF IInv

\* An answer reaches the client.
LEMMA IInvReply ==
    ASSUME IInv, TypeOK', NEW h \in Handlers, Reply(h) PROVE IInv'
  <1>1. /\ Busy(h) /\ calls[h].result # None /\ CallOK(calls[h])
        /\ UNCHANGED <<clock, session, refresh, userSessions, login, faults>>
        /\ calls' = [calls EXCEPT ![h] = None]
        /\ issued' = IF Mints(calls[h]) THEN issued \cup {calls[h].id} ELSE issued
    BY DEF IInv, CallsOK, Reply, store
  <1>2. \A g \in Handlers : Busy(g)' <=> Busy(g) /\ g # h
    BY <1>1 DEF IInv, TypeOK, Busy
  <1>3. \A g \in Handlers : g # h => calls'[g] = calls[g]
    BY <1>1 DEF IInv, TypeOK
  <1>4. \A i \in issued' : i \in issued \/ (i = calls[h].id /\ Mints(calls[h]))
    BY <1>1
  <1>5. KeysAgree' /\ ScoresAgree' /\ OneLivePerLogin' /\ IndexComplete'
        /\ GhostsAreExpired' /\ DeviceFollowsLogin'
    BY <1>1 DEF IInv, KeysAgree, ScoresAgree, OneLivePerLogin, IndexComplete,
       GhostsAreExpired, DeviceFollowsLogin, Live
  <1>6. OnlyBornIds'
    BY <1>1, <1>4 DEF IInv, OnlyBornIds, CallOK, Live
  <1>7. CallsOK'
    <2>1. ASSUME NEW g \in Handlers, Busy(g)' PROVE CallOK(calls[g])'
      <3>1. g # h /\ Busy(g) /\ CallOK(calls[g]) /\ calls'[g] = calls[g]
        BY <1>2, <1>3, <2>1 DEF IInv, CallsOK
      <3>2. calls[g].op \in {"create", "rotate"} => calls[g].id \notin issued'
        <4> SUFFICES ASSUME calls[g].op \in {"create", "rotate"}, calls[g].id = calls[h].id
                     PROVE  FALSE
          BY <1>4, <3>1 DEF CallOK
        <4>1. calls[g].id # None
          BY <3>1, NoneAssumption DEF CallOK
        <4>. QED
          BY <1>1, <3>1, <4>1 DEF IInv, CallsOK
      <3>3. issued \subseteq issued'
        BY <1>1
      <3>. QED
        BY <1>1, <3>1, <3>2, <3>3 DEF CallOK, Mints, Live
    <2>. QED
      BY <1>2, <1>3, <2>1 DEF IInv, CallsOK
  <1>8. StrandedOK'
    <2>1. ASSUME NEW i \in Ids, i \notin issued', Answered(i) PROVE Answered(i)'
      <3>1. PICK g \in Handlers : Busy(g) /\ calls[g].id = i /\ calls[g].result = "OK"
        BY <2>1 DEF Answered
      \* Only a create or a rotate carries an id, and the answer of h would
      \* have put it among the issued ones.
      <3>2. Mints(calls[g])
        <4>1. CallOK(calls[g]) /\ calls[g] \in Call /\ i # None
          BY <3>1, BusyIsCall, NoneAssumption DEF IInv, CallsOK
        <4>. QED
          BY <3>1, <4>1 DEF CallOK, Mints, Call, Op
      <3>3. g # h
        BY <1>1, <2>1, <3>1, <3>2
      <3>. QED
        BY <3>1, <3>3, <1>2, <1>3 DEF Answered
    <2>2. Stranded' \subseteq Stranded
      BY <1>1, <2>1 DEF Stranded, Live
    <2>. QED
      BY <1>1, <2>2, NoneStranded DEF IInv
  <1>. QED
    BY <1>5, <1>6, <1>7, <1>8 DEF IInv

\* A reply is lost, and the command sent again or given up.
LEMMA IInvLoss ==
    ASSUME IInv, TypeOK', NEW h \in Handlers, Resend(h) \/ Fail(h) PROVE IInv'
  <1>1. /\ UNCHANGED <<clock, store, login, issued>>
        /\ faults \in Nat /\ faults' = faults + 1 /\ Busy(h)
        /\ \/ calls' = [calls EXCEPT ![h].result = None]
           \/ calls' = [calls EXCEPT ![h] = None]
    BY DEF Resend, Fail, IInv, TypeOK
  <1>2. StoreInv'
    BY <1>1, StoreFrame DEF IInv, StoreInv
  <1>3. \A g \in Handlers : Busy(g)' =>
          /\ Busy(g)
          /\ calls'[g] = calls[g] \/ calls'[g] = [calls[g] EXCEPT !.result = None]
    BY <1>1, ReturnFrame DEF IInv, TypeOK, Busy
  <1>4. CallsOK'
    <2>1. ASSUME NEW g \in Handlers, Busy(g)' PROVE CallOK(calls[g])'
      <3>1. Busy(g) /\ CallOK(calls[g]) /\ calls[g] \in Call
        BY <1>3, <2>1, BusyIsCall DEF IInv, CallsOK
      <3>2. CASE calls'[g] = calls[g]
        BY <1>1, <3>1, <3>2 DEF CallOK, Mints, Live, store
      <3>3. CASE calls'[g] = [calls[g] EXCEPT !.result = None]
        BY <1>1, <3>1, <3>3, NoneAssumption DEF CallOK, Call, Mints, Live, store, Result
      <3>. QED
        BY <1>3, <2>1, <3>2, <3>3
    <2>2. \A g \in Handlers : Busy(g)' => calls'[g].id = calls[g].id
      BY <1>3, BusyIsCall DEF IInv, Call
    <2>. QED
      BY <1>3, <2>1, <2>2 DEF IInv, CallsOK
  <1>5. StrandedOK'
    <2>1. ASSUME NEW i \in Ids, Answered(i), i # calls[h].id PROVE Answered(i)'
      <3>1. PICK g \in Handlers : Busy(g) /\ calls[g].id = i /\ calls[g].result = "OK"
        BY <2>1 DEF Answered
      <3>2. g # h
        BY <2>1, <3>1
      <3>3. Busy(g)' /\ calls'[g] = calls[g]
        BY <1>1, <3>1, <3>2 DEF IInv, TypeOK, Busy
      <3>. QED
        BY <3>1, <3>3 DEF Answered
    <2>2. Stranded' \subseteq Stranded \cup {calls[h].id}
      BY <1>1, <2>1 DEF Stranded, Live, store
    <2>. QED
      BY <1>1, <2>2, OneStranded DEF IInv
  <1>. QED
    BY <1>2, <1>4, <1>5 DEF IInv, StoreInv

\* Time passes.
LEMMA IInvTick ==
    ASSUME IInv, TypeOK', Tick PROVE IInv'
  <1>1. /\ clock' = clock + 1
        /\ UNCHANGED <<userSessions, calls, issued, login, faults>>
        /\ \A h \in Handlers : Busy(h) => clock < calls[h].at + MaxDelay
    BY DEF Tick
  <1>2. \A i \in Ids :
          /\ Live(i)' <=> Live(i) /\ clock + 1 <= session[i].exp
          /\ Live(i)' => session'[i] = session[i]
    BY DEF Tick, Drop, Live, IInv, TypeOK, Session
  <1>3. \A i \in Ids :
          refresh'[i] = IF refresh[i] # None /\ refresh[i].exp < clock + 1
                        THEN None ELSE refresh[i]
    BY DEF Tick, Drop
  \* Both keys of a session have the same expiry.
  <1>4. KeysAgree'
    <2>1. ASSUME NEW i \in Ids, Live(i)'
          PROVE  /\ session'[i].tokenHash = i
                 /\ refresh'[i] = [user |-> session'[i].user, sessionId |-> i,
                                   exp |-> session'[i].exp]
      <3>1. /\ Live(i) /\ session'[i] = session[i] /\ clock + 1 <= session[i].exp
            /\ session[i].exp \in Nat
        BY <2>1, <1>2 DEF IInv, TypeOK, Session, Live
      <3>2. /\ session[i].tokenHash = i
            /\ refresh[i] = [user |-> session[i].user, sessionId |-> i, exp |-> session[i].exp]
        BY <3>1 DEF IInv, KeysAgree
      <3>. QED
        BY <3>1, <3>2, <1>3 DEF IInv, TypeOK
    <2>2. ASSUME NEW i \in Ids, refresh'[i] # None PROVE Live(i)'
      <3>1. refresh[i] # None /\ ~(refresh[i].exp < clock + 1)
        BY <2>2, <1>3
      <3>2. Live(i) /\ refresh[i].exp = session[i].exp /\ session[i].exp \in Nat
        BY <3>1 DEF IInv, KeysAgree, TypeOK, Session, Live
      <3>. QED
        BY <3>1, <3>2, <1>2 DEF IInv, TypeOK
    <2>. QED
      BY <2>1, <2>2 DEF KeysAgree
  <1>5. OnlyBornIds' /\ OneLivePerLogin' /\ DeviceFollowsLogin'
    BY <1>1, <1>2 DEF IInv, OnlyBornIds, OneLivePerLogin, DeviceFollowsLogin
  <1>6. ScoresAgree'
    <2>1. \A u \in Users : \A e \in userSessions[u] : e.member \in Ids
      BY DEF IInv, TypeOK, Entry
    <2>. QED
      BY <1>1, <1>2, <2>1 DEF IInv, ScoresAgree
  <1>7. IndexComplete'
    <2> SUFFICES ASSUME NEW i \in Ids, Live(i)', clock' + MaxSkew < session'[i].expiresAt
                 PROVE  [member |-> i, score |-> session'[i].expiresAt]
                            \in userSessions[session'[i].user]
      BY <1>1 DEF IndexComplete
    <2>1. Live(i) /\ session'[i] = session[i] /\ session[i] \in Session
      BY <1>2 DEF IInv, TypeOK, Live
    <2>2. clock + MaxSkew < session[i].expiresAt
      BY <2>1, <1>1, TimeAssumption DEF Session, IInv, TypeOK
    <2>. QED
      BY <2>1, <2>2 DEF IInv, IndexComplete
  <1>8. GhostsAreExpired'
    <2> SUFFICES ASSUME NEW u \in Users, NEW e \in userSessions[u]
                 PROVE  IF Live(e.member)' THEN session'[e.member].user = u
                                           ELSE clock + 1 + MaxSkew > e.score
      BY <1>1 DEF GhostsAreExpired
    <2>1. e.member \in Ids /\ e.score \in Int /\ clock \in Nat
      BY DEF IInv, TypeOK, Entry
    <2>2. CASE Live(e.member)'
      BY <2>1, <2>2, <1>2 DEF IInv, GhostsAreExpired
    <2>3. CASE ~Live(e.member)' /\ ~Live(e.member)
      BY <2>1, <2>3, TimeAssumption DEF IInv, GhostsAreExpired
    \* The session expires now: its score is at most MaxSkew after its expiry.
    <2>4. CASE ~Live(e.member)' /\ Live(e.member)
      <3>1. ~(clock + 1 <= session[e.member].exp) /\ session[e.member] \in Session
        BY <2>1, <2>4, <1>2 DEF IInv, TypeOK, Live
      <3>2. e.score <= session[e.member].exp + MaxSkew
        BY <2>1, <2>4 DEF IInv, ScoresAgree
      <3>. QED
        BY <2>1, <2>4, <3>1, <3>2, TimeAssumption DEF Session
    <2>. QED
      BY <2>2, <2>3, <2>4
  <1>9. CallsOK'
    <2>1. ASSUME NEW h \in Handlers, Busy(h) PROVE CallOK(calls[h])'
      <3> DEFINE c == calls[h]
      <3>1. CallOK(c) /\ c \in Call /\ clock + 1 <= c.at + MaxDelay
        BY <2>1, <1>1, BusyIsCall, TimeAssumption DEF IInv, CallsOK, Call, TypeOK
      <3>2. c.at \in Nat /\ clock \in Nat /\ c.at <= clock'
        BY <3>1, <1>1 DEF Call, CallOK, IInv, TypeOK
      \* A create is answered before the session it made can expire.
      <3>3. c.op = "create" /\ login[c.id] # None =>
              /\ Live(c.id)' /\ session'[c.id] = session[c.id]
              /\ c.at + TTL <= session[c.id].exp
        <4> SUFFICES ASSUME c.op = "create", login[c.id] # None
                     PROVE  /\ Live(c.id)' /\ session'[c.id] = session[c.id]
                            /\ c.at + TTL <= session[c.id].exp
          OBVIOUS
        <4>1. c.id \in Ids /\ Live(c.id) /\ c.at + TTL <= session[c.id].exp
          BY <3>1 DEF CallOK
        <4>2. session[c.id].exp \in Nat
          BY <4>1 DEF IInv, TypeOK, Live, Session
        <4>3. clock + 1 <= session[c.id].exp
          BY <3>1, <3>2, <4>1, <4>2, TimeAssumption
        <4>. QED
          BY <4>1, <4>3, <1>1, <1>2
      <3>4. c.op = "rotate" => c.old \in Ids
        BY <3>1 DEF CallOK, IInv, TypeOK
      <3>. QED
        BY <1>1, <1>2, <3>1, <3>2, <3>3, <3>4 DEF CallOK, Mints
    <2>. QED
      BY <1>1, <2>1 DEF IInv, CallsOK, Busy
  <1>10. StrandedOK'
    <2>1. Stranded' \subseteq Stranded
      BY <1>1, <1>2 DEF Stranded, Answered, Busy
    <2>. QED
      BY <1>1, <2>1, NoneStranded DEF IInv
  <1>. QED
    BY <1>4, <1>5, <1>6, <1>7, <1>8, <1>9, <1>10 DEF IInv

\* Every step keeps the invariant.
LEMMA IInvStep == IInv /\ [Next]_vars => IInv'
  <1> SUFFICES ASSUME IInv, [Next]_vars PROVE IInv'
    OBVIOUS
  <1>0. TypeOK /\ TypeOK'
    BY TypeOKStep DEF IInv
  <1>1. ASSUME NEW h \in Handlers, StartCreate(h) PROVE IInv'
    BY <1>1, IInvSend DEF StartCreate, Op
  <1>2. ASSUME NEW h \in Handlers, StartRotate(h) PROVE IInv'
    <2>1. PICK t \in issued, i \in Ids : Fresh(i) /\ Send(h, "rotate", None, t, i)
      BY <1>2 DEF StartRotate
    <2>. QED
      BY <2>1, <1>0, IInvSend DEF Op, TypeOK
  <1>3. ASSUME NEW h \in Handlers, StartRevoke(h) PROVE IInv'
    <2>1. PICK s \in issued : Send(h, "revoke", None, s, None)
      BY <1>3 DEF StartRevoke
    <2>. QED
      BY <2>1, <1>0, IInvSend DEF Op, TypeOK
  <1>4. ASSUME NEW h \in Handlers, StartList(h) PROVE IInv'
    BY <1>4, IInvSend DEF StartList, Op
  <1>5. ASSUME NEW h \in Handlers, RotateNotFound(h) \/ RevokeGone(h) PROVE IInv'
    BY <1>5, IInvAnswer DEF RotateNotFound, RevokeGone, Waiting
  <1>6. CASE UNCHANGED vars
    <2>1. StoreInv'
      BY <1>6, StoreFrame DEF IInv, StoreInv, vars, store
    <2>2. CallsOK' /\ StrandedOK'
      BY <1>6 DEF vars, IInv, CallsOK, CallOK, StrandedOK, FaultsStrandOneEach, Stranded,
         Answered, Busy, Live, Mints
    <2>. QED
      BY <1>0, <2>1, <2>2 DEF IInv, StoreInv
  <1>. QED
    BY <1>0, <1>1, <1>2, <1>3, <1>4, <1>5, <1>6, IInvCreateSession, IInvRotateRefresh,
       IInvRevokeSession, IInvGetUserSessions, IInvReply, IInvLoss, IInvTick DEF Next

(***************************************************************************)
(* The theorems.                                                           *)
(***************************************************************************)

\* The inductive invariant holds in every reachable state.
THEOREM Invariance == Spec => []IInv
  BY IInvInit, IInvStep, PTL DEF Spec

\* Every variable keeps its type (TypeOK).
THEOREM TypeCorrect == Spec => []TypeOK
  <1>1. IInv => TypeOK
    BY DEF IInv
  <1>. QED
    BY <1>1, Invariance, PTL

\* A session and its refresh token exist together and name each other, whatever
\* the interleaving of creates, rotations, revocations and expiries.
THEOREM Pairing == Spec => []SessionTokenPaired
  <1>1. IInv => SessionTokenPaired
    BY DEF IInv, KeysAgree, SessionTokenPaired, Live, TypeOK, Refresh
  <1>. QED
    BY <1>1, Invariance, PTL

\* A login never has two live sessions: of the refreshes that present one
\* token, however often each is sent, at most one succeeds.
THEOREM SingleSession == Spec => []OneLivePerLogin
  <1>1. IInv => OneLivePerLogin
    BY DEF IInv
  <1>. QED
    BY <1>1, Invariance, PTL

\* The index of a user lists every session that still runs by every clock.
THEOREM Listing == Spec => []IndexComplete
  <1>1. IInv => IndexComplete
    BY DEF IInv
  <1>. QED
    BY <1>1, Invariance, PTL

\* What is left in an index after its session is gone has run out, and an index
\* never names a session of another user.
THEOREM Ghosts == Spec => []GhostsAreExpired
  <1>1. IInv => GhostsAreExpired
    BY DEF IInv
  <1>. QED
    BY <1>1, Invariance, PTL

\* The user agent and ip of a login survive every rotation.
THEOREM Device == Spec => []DeviceFollowsLogin
  <1>1. IInv => DeviceFollowsLogin
    BY DEF IInv
  <1>. QED
    BY <1>1, Invariance, PTL

\* Every lost reply and every failing handler strands at most one session, and
\* nothing else does: all other live sessions are known to a client, or are in
\* an answer on its way.
THEOREM StrandedCounted == Spec => []FaultsStrandOneEach
  <1>1. IInv => FaultsStrandOneEach
    BY DEF IInv, StrandedOK
  <1>. QED
    BY <1>1, Invariance, PTL

(***************************************************************************)
(* Refinement of SessionLedger.                                            *)
(***************************************************************************)

LiveIds == {i \in Ids : Live(i)}

\* The first run of a create opens a login; a repeated one changes nothing that
\* the ledger sees.
LEMMA CreateOpens ==
    ASSUME IInv, NEW h \in Handlers, CreateSession(h)
    PROVE  \/ Ledger!Open(calls[h].id) /\ calls[h].id \in Ids
           \/ LiveIds' = LiveIds /\ login' = login
  <1> DEFINE c == calls[h]
  <1>1. CallOK(c) /\ c \in Call /\ c.op = "create"
    BY BusyIsCall DEF IInv, CallsOK, CreateSession, Waiting
  <1>2. c.id \in Ids /\ c.user \in Users /\ c.now \in Int
    BY <1>1 DEF CallOK, Call
  <1>3. PICK d : d \in Session /\ session' = [session EXCEPT ![c.id] = d]
    <2> DEFINE e == [user |-> c.user, tokenHash |-> c.id, device |-> c.id,
                     expiresAt |-> c.now + TTL, exp |-> clock + TTL]
    <2>1. e \in Session
      BY <1>2, TimeAssumption DEF Session, IInv, TypeOK
    <2>2. session' = [session EXCEPT ![c.id] = e]
      BY DEF CreateSession
    <2>. QED
      BY <2>1, <2>2
  <1>4. login' = [login EXCEPT ![c.id] = c.id]
    BY DEF CreateSession
  <1>5. LiveIds' = LiveIds \cup {c.id}
    BY <1>2, <1>3, NoneAssumption DEF LiveIds, Live, IInv, TypeOK
  <1>6. CASE login[c.id] = None
    BY <1>2, <1>4, <1>5, <1>6 DEF Ledger!Open, LiveIds
  <1>7. CASE login[c.id] # None
    <2>1. Live(c.id) /\ login[c.id] = c.id
      BY <1>1, <1>7 DEF CallOK
    <2>. QED
      BY <2>1, <1>2, <1>4, <1>5 DEF LiveIds, IInv, TypeOK
  <1>. QED
    BY <1>6, <1>7

\* A rotation moves its login from a live session to one that never existed.
LEMMA RotateMoves ==
    ASSUME IInv, NEW h \in Handlers, RotateRefresh(h)
    PROVE  calls[h].old \in Ids /\ calls[h].id \in Ids
           /\ Ledger!Rotate(calls[h].old, calls[h].id)
  <1> DEFINE c == calls[h]
  <1>1. CallOK(c) /\ c \in Call /\ c.op = "rotate" /\ refresh[c.old] # None
    BY BusyIsCall DEF IInv, CallsOK, RotateRefresh, Waiting
  <1>2. c.id \in Ids /\ c.old \in Ids /\ c.now \in Int
    BY <1>1 DEF CallOK, Call, IInv, TypeOK
  <1>3. /\ refresh[c.old].sessionId = c.old /\ refresh[c.old].user \in Users
        /\ Live(c.old) /\ DeviceOf(c.old) \in Ids \cup {None}
    BY <1>1, <1>2 DEF IInv, KeysAgree, Live, TypeOK, Refresh, DeviceOf, Session
  <1>4. login[c.id] = None /\ ~Live(c.id)
    BY <1>1, <1>2, <1>3 DEF CallOK, IInv, OnlyBornIds
  <1>5. PICK d : d \in Session /\ session' = [[session EXCEPT ![c.old] = None] EXCEPT ![c.id] = d]
    <2> DEFINE e == [user |-> refresh[c.old].user, tokenHash |-> c.id,
                     device |-> DeviceOf(c.old), expiresAt |-> c.now + TTL,
                     exp |-> clock + TTL]
    <2>1. e \in Session
      BY <1>2, <1>3, TimeAssumption DEF Session, IInv, TypeOK
    <2>2. session' = [[session EXCEPT ![c.old] = None] EXCEPT ![c.id] = e]
      BY <1>3 DEF RotateRefresh, DEL
    <2>. QED
      BY <2>1, <2>2
  <1>6. login' = [login EXCEPT ![c.id] = login[c.old]]
    BY DEF RotateRefresh
  <1>7. LiveIds' = (LiveIds \ {c.old}) \cup {c.id}
    BY <1>2, <1>5, NoneAssumption DEF LiveIds, Live, IInv, TypeOK
  <1>. QED
    BY <1>2, <1>3, <1>4, <1>6, <1>7 DEF Ledger!Rotate, LiveIds

\* A revocation ends one session.
LEMMA RevokeEnds ==
    ASSUME IInv, NEW h \in Handlers, RevokeSession(h)
    PROVE  calls[h].old \in LiveIds /\ Ledger!End({calls[h].old})
  <1> DEFINE s == calls[h].old
  <1>1. CallOK(calls[h]) /\ calls[h].op = "revoke" /\ session[s] # None
        /\ login' = login
    BY DEF IInv, CallsOK, RevokeSession, Waiting
  <1>2. s \in Ids
    BY <1>1 DEF CallOK, IInv, TypeOK
  <1>3. session' = [session EXCEPT ![s] = None]
    BY DEF RevokeSession, DEL
  <1>. QED
    BY <1>1, <1>2, <1>3 DEF LiveIds, Live, Ledger!End, IInv, TypeOK

\* Every step of the store is a step of the ledger or leaves it alone.
LEMMA LedgerStep == IInv /\ [Next]_vars => [Ledger!Next]_(Ledger!vars)
  <1> SUFFICES ASSUME IInv, [Next]_vars PROVE [Ledger!Next]_(Ledger!vars)
    OBVIOUS
  <1>1. ASSUME UNCHANGED <<session, login>> PROVE UNCHANGED Ledger!vars
    BY <1>1 DEF Ledger!vars, Live
  <1>2. ASSUME NEW h \in Handlers, CreateSession(h) PROVE [Ledger!Next]_(Ledger!vars)
    BY <1>2, CreateOpens DEF Ledger!Next, Ledger!vars, LiveIds
  <1>3. ASSUME NEW h \in Handlers, RotateRefresh(h) PROVE Ledger!Next
    BY <1>3, RotateMoves DEF Ledger!Next
  <1>4. ASSUME NEW h \in Handlers, RevokeSession(h) PROVE Ledger!Next
    BY <1>4, RevokeEnds DEF Ledger!Next, LiveIds
  <1>5. CASE Tick
    <2> DEFINE S == {i \in LiveIds : ~Live(i)'}
    <2>1. LiveIds' = LiveIds \ S
      BY <1>5 DEF Tick, Drop, LiveIds, Live
    <2>2. login' = login
      BY <1>5 DEF Tick
    <2>3. CASE S = {}
      BY <2>1, <2>2, <2>3 DEF Ledger!vars, LiveIds
    <2>4. CASE S # {}
      <3>1. Ledger!End(S)
        BY <2>1, <2>2, <2>4 DEF Ledger!End, LiveIds
      <3>2. S \in SUBSET {i \in Ids : Live(i)}
        BY DEF LiveIds
      <3>. HIDE DEF S
      <3>. QED
        BY <3>1, <3>2 DEF Ledger!Next
    <2>. QED
      BY <2>3, <2>4
  <1>6. ASSUME NEW h \in Handlers,
               \/ StartCreate(h) \/ StartRotate(h) \/ StartRevoke(h) \/ StartList(h)
               \/ RotateNotFound(h) \/ RevokeGone(h) \/ GetUserSessions(h)
               \/ Reply(h) \/ Resend(h) \/ Fail(h)
        PROVE  UNCHANGED <<session, login>>
    BY <1>6 DEF StartCreate, StartRotate, StartRevoke, StartList, Send, Request,
       RotateNotFound, RevokeGone, GetUserSessions, Reply, Resend, Fail, store
  <1>7. CASE UNCHANGED vars
    BY <1>7, <1>1 DEF vars
  <1>. QED
    BY <1>1, <1>2, <1>3, <1>4, <1>5, <1>6, <1>7 DEF Next

\* The session store implements the ledger of logins.
THEOREM Refinement == Spec => ImplementsLedger
  <1>1. Init => Ledger!Init
    BY DEF Init, Ledger!Init, Live
  <1>. QED
    BY <1>1, LedgerStep, Invariance, PTL DEF Spec, ImplementsLedger, Ledger!Spec

\* A session that has ended stays ended.
THEOREM Finality == Spec => EndIsFinal
  <1>1. ASSUME [Ledger!Next]_(Ledger!vars), NEW i \in Ids, login[i] # None, ~Live(i)
        PROVE  ~Live(i)'
    <2>1. i \notin LiveIds
      BY <1>1 DEF LiveIds
    <2>2. i \notin LiveIds'
      BY <1>1, <2>1 DEF Ledger!Next, Ledger!vars, Ledger!Open, Ledger!Rotate, Ledger!End, LiveIds
    <2>. QED
      BY <2>2 DEF LiveIds
  <1>2. IInv /\ [Next]_vars =>
          [\A i \in Ids : login[i] # None /\ ~Live(i) => ~Live(i)']_vars
    BY <1>1, LedgerStep
  <1>. QED
    BY <1>2, Invariance, PTL DEF Spec, EndIsFinal
=============================================================================
