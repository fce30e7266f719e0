------------------------------ MODULE Sessions ------------------------------
(***************************************************************************)
(* The session store: the four Lua scripts of packages/redis that keep a   *)
(* session, its refresh token and the per-user index, the API handlers     *)
(* that call them, and the connection between the two.                     *)
(*                                                                         *)
(* Redis runs a script atomically, so a script is one action.  A handler   *)
(* reads Date.now() before it sends the script, so `now' is old when the   *)
(* script runs, and the clock of an API host may be off by MaxSkew from    *)
(* the clock of Redis.  A reply can be lost: the client library then sends *)
(* the same command again, or gives up and the handler fails.              *)
(***************************************************************************)
EXTENDS Integers, FiniteSets

CONSTANTS
    Users,      \* user ids
    Ids,        \* names minted by randomUUID / generateRefreshToken
    Handlers,   \* API requests that may be in progress together
    None,       \* an absent key, a nil value
    TTL,        \* SESSION_TTL_SECONDS, in ticks
    MaxDelay,   \* a command is answered or has failed within MaxDelay ticks
    MaxSkew,    \* largest difference between an API clock and Redis' clock
    MaxClock,   \* bound: the clock stops here
    MaxFaults   \* bound: how often a reply is lost

ASSUME TimeAssumption ==
    /\ TTL \in Nat /\ MaxDelay \in Nat /\ MaxSkew \in Nat
    /\ MaxClock \in Nat /\ MaxFaults \in Nat
    /\ MaxDelay < TTL

VARIABLES
    clock,         \* Redis' clock
    session,       \* session:<id>         -> session data, or None
    refresh,       \* refresh:<hash>       -> refresh data, or None
    userSessions,  \* user_sessions:<user> -> sorted set of session ids
    calls,         \* the command a handler waits for, or None
    issued,        \* ids a client has received in an AuthResponse
    login,         \* history: the login an id descends from, None if unborn
    faults         \* replies lost so far

store == <<session, refresh, userSessions>>
vars == <<clock, session, refresh, userSessions, calls, issued, login, faults>>

(***************************************************************************)
(* A minted id names a session and, under refresh, the hash of the token   *)
(* minted together with it; nothing in the scripts relies on that.  The    *)
(* user agent and ip of a login are its `device': the first id of the      *)
(* login, so that no two logins share one.                                 *)
(***************************************************************************)
Session == [user : Users, tokenHash : Ids, device : Ids \cup {None},
            expiresAt : Int, exp : Nat]
Refresh == [user : Users, sessionId : Ids, exp : Nat]
Entry   == [member : Ids, score : Int]
Op      == {"create", "rotate", "revoke", "list"}
Result  == {"OK", "TOKEN_NOT_FOUND", "gone", "ParseError"}
Call    == [op : Op, user : Users \cup {None}, old : Ids \cup {None},
            id : Ids \cup {None}, at : Nat, now : Int,
            result : Result \cup {None}]

\* nil is not one of the values it stands in for.
ASSUME NoneAssumption ==
    /\ None \notin Users \cup Ids \cup Result
    /\ None \notin Session /\ None \notin Refresh /\ None \notin Call

TypeOK ==
    /\ clock \in Nat
    /\ session \in [Ids -> Session \cup {None}]
    /\ refresh \in [Ids -> Refresh \cup {None}]
    /\ userSessions \in [Users -> SUBSET Entry]
    /\ calls \in [Handlers -> Call \cup {None}]
    /\ issued \in SUBSET Ids
    /\ login \in [Ids -> Ids \cup {None}]
    /\ faults \in Nat

Init ==
    /\ clock = 0
    /\ session = [i \in Ids |-> None]
    /\ refresh = [i \in Ids |-> None]
    /\ userSessions = [u \in Users |-> {}]
    /\ calls = [h \in Handlers |-> None]
    /\ issued = {}
    /\ login = [i \in Ids |-> None]
    /\ faults = 0

-----------------------------------------------------------------------------
(* The Redis commands the scripts use. *)

ZADD(z, m, s) == {e \in z : e.member # m} \cup {[member |-> m, score |-> s]}

ZREMNothing(z, m) == z
ZREM(z, m) == {e \in z : e.member # m}

ZREMRANGEBYSCORE(z, max) == {e \in z : e.score > max}

\* ZADD followed by the clean-up every write to an index ends with.
AddSwapped(z, m, s, now) == ZREMRANGEBYSCORE(ZADD(z, m, s), s)
AddToIndex(z, m, s, now) == ZREMRANGEBYSCORE(ZADD(z, m, s), now)

DELNothing(keys, k) == keys
DEL(keys, k) == [keys EXCEPT ![k] = None]

-----------------------------------------------------------------------------
(* A handler sends a command.  It reads its own clock first. *)

Busy(h) == calls[h] # None

\* Ids no handler and no key has used: randomUUID() never repeats one.
Fresh(i) ==
    /\ login[i] = None
    /\ i \notin issued
    /\ \A h \in Handlers : Busy(h) => calls[h].id # i

\* What Date.now() may return.  A revocation does not read the time.
ClockOf(op) == IF op = "revoke" THEN {0}
               ELSE (clock - MaxSkew)..(clock + MaxSkew)

Request(h, op, u, old, id) ==
    /\ ~Busy(h)
    /\ \E now \in ClockOf(op) :
          calls' = [calls EXCEPT ![h] =
              [op |-> op, user |-> u, old |-> old, id |-> id,
               at |-> clock, now |-> now, result |-> None]]
    /\ UNCHANGED <<clock, store, login, faults>>

\* buildSession without its `await': the client is answered at once.
SendAndAnswer(h, op, u, old, id) ==
    /\ Request(h, op, u, old, id)
    /\ issued' = issued \cup ({id} \ {None})
Send(h, op, u, old, id) ==
    /\ Request(h, op, u, old, id)
    /\ issued' = issued

\* buildSession: login or signup.
StartCreate(h) == \E u \in Users, i \in Ids : Fresh(i) /\ Send(h, "create", u, None, i)

\* refresh: any refresh token ever handed out may be presented, at any time.
StartRotate(h) == \E t \in issued, i \in Ids : Fresh(i) /\ Send(h, "rotate", None, t, i)

\* logout: the session id comes from an access token handed out earlier.
StartRevoke(h) == \E s \in issued : Send(h, "revoke", None, s, None)

StartList(h) == \E u \in Users : Send(h, "list", u, None, None)

-----------------------------------------------------------------------------
(* Redis runs the script of a waiting command. *)

Waiting(h, op) == Busy(h) /\ calls[h].op = op /\ calls[h].result = None
Return(h, r) == calls' = [calls EXCEPT ![h].result = r]

CreateSession(h) ==
    /\ Waiting(h, "create")
    /\ LET c == calls[h]
           expiresAt == c.now + TTL
       IN  /\ session' = [session EXCEPT ![c.id] =
                [user |-> c.user, tokenHash |-> c.id, device |-> c.id,
                 expiresAt |-> expiresAt, exp |-> clock + TTL]]
           /\ refresh' = [refresh EXCEPT ![c.id] =
                [user |-> c.user, sessionId |-> c.id, exp |-> clock + TTL]]
           /\ userSessions' = [userSessions EXCEPT ![c.user] =
                AddToIndex(@, c.id, expiresAt, c.now)]
           /\ login' = [login EXCEPT ![c.id] = c.id]
    /\ Return(h, "OK")
    /\ UNCHANGED <<clock, issued, faults>>

\* What rotation carries over from the old session, read before it is deleted.
DeviceOf(s) == IF session[s] # None THEN session[s].device ELSE None

RotateRefresh(h) ==
    /\ Waiting(h, "rotate")
    /\ refresh[calls[h].old] # None
    /\ LET c == calls[h]
           u == refresh[c.old].user
           s == refresh[c.old].sessionId
           expiresAt == c.now + TTL
       IN  /\ session' = [DEL(session, s) EXCEPT ![c.id] =
                [user |-> u, tokenHash |-> c.id, device |-> DeviceOf(s),
                 expiresAt |-> expiresAt, exp |-> clock + TTL]]
           /\ refresh' = [DEL(refresh, c.old) EXCEPT ![c.id] =
                [user |-> u, sessionId |-> c.id, exp |-> clock + TTL]]
           /\ userSessions' = [userSessions EXCEPT ![u] =
                AddToIndex(ZREM(@, s), c.id, expiresAt, c.now)]
           /\ login' = [login EXCEPT ![c.id] = login[c.old]]
    /\ Return(h, "OK")
    /\ UNCHANGED <<clock, issued, faults>>

\* rotate-refresh.lua without its early return: userId is nil.
RotateUnchecked(h) ==
    /\ Waiting(h, "rotate")
    /\ refresh[calls[h].old] = None
    /\ session' = [session EXCEPT ![calls[h].id] =
            [user |-> None, tokenHash |-> calls[h].id, device |-> None,
             expiresAt |-> calls[h].now + TTL, exp |-> clock + TTL]]
    /\ Return(h, "OK")
    /\ UNCHANGED <<clock, refresh, userSessions, issued, login, faults>>
RotateNotFound(h) ==
    /\ Waiting(h, "rotate")
    /\ refresh[calls[h].old] = None
    /\ Return(h, "TOKEN_NOT_FOUND")
    /\ UNCHANGED <<clock, store, issued, login, faults>>

RevokeKeepsToken(h) ==
    /\ Waiting(h, "revoke")
    /\ session[calls[h].old] # None
    /\ LET s == calls[h].old
       IN  /\ userSessions' = [userSessions EXCEPT ![session[s].user] = ZREM(@, s)]
           /\ session' = DEL(session, s)
    /\ Return(h, "OK")
    /\ UNCHANGED <<clock, refresh, issued, login, faults>>
RevokeSession(h) ==
    /\ Waiting(h, "revoke")
    /\ session[calls[h].old] # None
    /\ LET s == calls[h].old
           data == session[s]
       IN  /\ refresh' = DEL(refresh, data.tokenHash)
           /\ userSessions' = [userSessions EXCEPT ![data.user] = ZREM(@, s)]
           /\ session' = DEL(session, s)
    /\ Return(h, "OK")
    /\ UNCHANGED <<clock, issued, login, faults>>

RevokeGone(h) ==
    /\ Waiting(h, "revoke")
    /\ session[calls[h].old] = None
    /\ Return(h, "gone")
    /\ UNCHANGED <<clock, store, issued, login, faults>>

\* An index without entries returns the literal '[]'.  Otherwise the script
\* encodes the sessions it found: an empty Lua table is encoded as '{}', which
\* the array schema of the caller rejects.
GetUserSessions(h) ==
    /\ Waiting(h, "list")
    /\ LET u == calls[h].user
           entries == ZREMRANGEBYSCORE(userSessions[u], calls[h].now)
           found == {e \in entries : session[e.member] # None}
       IN  /\ userSessions' = [userSessions EXCEPT ![u] = found]
           /\ Return(h, IF entries # {} /\ found = {} THEN "ParseError" ELSE "OK")
    /\ UNCHANGED <<clock, session, refresh, issued, login, faults>>

-----------------------------------------------------------------------------
(* The connection: replies arrive, are lost and retried, or lost for good. *)

\* The handler answers its client; create and a successful rotate hand out
\* the new session id and refresh token.
MintsOnCreate(c) == c.op = "create" /\ c.result = "OK"
Mints(c) == c.op \in {"create", "rotate"} /\ c.result = "OK"

Reply(h) ==
    /\ Busy(h) /\ calls[h].result # None
    /\ issued' = IF Mints(calls[h]) THEN issued \cup {calls[h].id} ELSE issued
    /\ calls' = [calls EXCEPT ![h] = None]
    /\ UNCHANGED <<clock, store, login, faults>>

\* The connection drops before the reply: the command is sent again, with
\* the arguments it had.
Resend(h) ==
    /\ faults < MaxFaults
    /\ Busy(h) /\ calls[h].result # None
    /\ calls' = [calls EXCEPT ![h].result = None]
    /\ faults' = faults + 1
    /\ UNCHANGED <<clock, store, issued, login>>

\* The retries of the client are used up, or the process of the handler dies,
\* before or after the script ran: nobody learns the minted id.
Fail(h) ==
    /\ faults < MaxFaults
    /\ Busy(h)
    /\ calls' = [calls EXCEPT ![h] = None]
    /\ faults' = faults + 1
    /\ UNCHANGED <<clock, store, issued, login>>

\* Time passes and Redis drops the keys whose TTL has passed.  Commands do not
\* stay on their way for longer than MaxDelay.
Drop(key, now) == IF key # None /\ key.exp < now THEN None ELSE key

Tick ==
    /\ clock < MaxClock
    /\ \A h \in Handlers : Busy(h) => clock < calls[h].at + MaxDelay
    /\ clock' = clock + 1
    /\ session' = [i \in Ids |-> Drop(session[i], clock + 1)]
    /\ refresh' = [i \in Ids |-> Drop(refresh[i], clock + 1)]
    /\ UNCHANGED <<userSessions, calls, issued, login, faults>>

Next ==
    \/ \E h \in Handlers :
          \/ StartCreate(h) \/ StartRotate(h) \/ StartRevoke(h) \/ StartList(h)
          \/ CreateSession(h)
          \/ RotateRefresh(h) \/ RotateNotFound(h)
          \/ RevokeSession(h) \/ RevokeGone(h)
          \/ GetUserSessions(h)
          \/ Reply(h) \/ Resend(h) \/ Fail(h)
    \/ Tick

Spec == Init /\ [][Next]_vars
-----------------------------------------------------------------------------
(* What the store promises. *)

Live(i) == session[i] # None

\* A session and its refresh token live and die together, and each names the
\* other: a token can be rotated exactly as long as its session exists, so
\* revoking the session takes the token away, and the expiry of one is the
\* expiry of the other.  (create-session.lua and rotate-refresh.lua write two
\* keys; revoke-session.lua finds the second through the first.)
SessionTokenPaired ==
    \A i \in Ids :
        /\ session[i] # None =>
              LET t == session[i].tokenHash
              IN  refresh[t] = [user |-> session[i].user, sessionId |-> i,
                                exp |-> session[i].exp]
        /\ refresh[i] # None =>
              LET s == refresh[i].sessionId
              IN  session[s] # None /\ session[s].tokenHash = i

\* However many refreshes race, and however often one is sent again, a login
\* has at most one live session: a refresh token is used at most once.
OneLivePerLogin ==
    \A i, j \in Ids : Live(i) /\ Live(j) /\ login[i] = login[j] => i = j

\* A session that still runs by every clock is in the index of its user with
\* the expiry it stores, so a listing cannot miss it.
IndexComplete ==
    \A i \in Ids :
        Live(i) /\ clock + MaxSkew < session[i].expiresAt =>
            [member |-> i, score |-> session[i].expiresAt]
                \in userSessions[session[i].user]

\* Rotation and revocation leave nothing behind in the index: an entry whose
\* session is gone is one whose time has run out, and an entry of a user
\* never names a session of another one.
GhostsAreExpired ==
    \A u \in Users : \A e \in userSessions[u] :
        IF Live(e.member) THEN session[e.member].user = u
                          ELSE clock + MaxSkew > e.score

\* The user agent and ip recorded at login stay with the login through every
\* rotation (rotate-refresh.lua copies them from the old session).
DeviceFollowsLogin ==
    \A i \in Ids : Live(i) => session[i].device = login[i]

\* A client can still refresh or log out of a session whose id has been handed
\* out or is about to be.  A reply that is lost and a handler that fails (after
\* rotateRefresh, auth.service.ts:85) leave one session live out of reach, each
\* of them one at most, whatever is sent again; races and refusals leave none.
Answered(i) == \E h \in Handlers : Busy(h) /\ calls[h].id = i /\ calls[h].result = "OK"
Stranded == {i \in Ids : Live(i) /\ i \notin issued /\ ~Answered(i)}
FaultsStrandOneEach == Cardinality(Stranded) <= faults

\* A session that ended, by rotation, logout or expiry, never comes back, not
\* even when a create that was already executed is sent again.
EndIsFinal == [][\A i \in Ids : login[i] # None /\ ~Live(i) => ~Live(i)']_vars

(***************************************************************************)
(* The invariant that makes the properties above inductive.                *)
(***************************************************************************)

\* The two keys of a session carry the same id, user and expiry.
KeysAgree ==
    \A i \in Ids :
        /\ Live(i) =>
              /\ session[i].tokenHash = i
              /\ refresh[i] = [user |-> session[i].user, sessionId |-> i,
                                exp |-> session[i].exp]
        /\ refresh[i] # None => Live(i)

\* Only ids whose script has run exist in the store, in an index or at a client.
OnlyBornIds ==
    /\ \A i \in Ids : Live(i) => login[i] # None
    /\ \A i \in Ids : login[i] # None => login[login[i]] # None
    /\ \A i \in issued : login[i] # None
    /\ \A u \in Users : \A e \in userSessions[u] : login[e.member] # None

\* The score of a live entry is the expiry the session stores, and that is at
\* most MaxSkew later than the moment Redis drops the key.
ScoresAgree ==
    /\ \A i \in Ids : Live(i) => session[i].expiresAt <= session[i].exp + MaxSkew
    /\ \A u \in Users : \A e \in userSessions[u] :
          Live(e.member) => e.score = session[e.member].expiresAt

\* What a handler waits for.  A create that already ran has left a session that
\* nobody else can end yet; a rotate that already ran has used up its token.
CallOK(c) ==
    /\ c.at <= clock /\ clock <= c.at + MaxDelay
    /\ c.op # "revoke" => c.at - MaxSkew <= c.now /\ c.now <= c.at + MaxSkew
    /\ c.op \in {"create", "list"} => c.user \in Users
    /\ c.op \in {"rotate", "revoke"} => c.old \in issued
    /\ c.op \in {"create", "rotate"} => c.id \in Ids \ issued
    /\ c.op \in {"revoke", "list"} => c.id = None
    /\ c.op = "create" /\ login[c.id] # None =>
          /\ Live(c.id) /\ login[c.id] = c.id
          /\ session[c.id].user = c.user
          /\ c.at + TTL <= session[c.id].exp
    /\ c.op = "rotate" /\ login[c.id] # None => ~Live(c.old)
    /\ Mints(c) => login[c.id] # None

CallsOK ==
    /\ \A h \in Handlers : Busy(h) => CallOK(calls[h])
    /\ \A g, h \in Handlers :
          Busy(g) /\ Busy(h) /\ calls[g].id = calls[h].id /\ calls[g].id # None => g = h

StrandedOK == IsFiniteSet(Stranded) /\ FaultsStrandOneEach

IInv ==
    /\ TypeOK
    /\ KeysAgree
    /\ OnlyBornIds
    /\ ScoresAgree
    /\ CallsOK
    /\ OneLivePerLogin
    /\ IndexComplete
    /\ GhostsAreExpired
    /\ DeviceFollowsLogin
    /\ StrandedOK

\* Seen from outside the store is a ledger of logins: Open, Rotate and End are
\* the only steps its live sessions ever make.
Ledger == INSTANCE SessionLedger WITH live <- {i \in Ids : Live(i)}
ImplementsLedger == Ledger!Spec
=============================================================================
