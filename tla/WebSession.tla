----------------------------- MODULE WebSession -----------------------------
(***************************************************************************)
(* The session of a browser: the cookies that its tabs share, the web      *)
(* server (apps/web) that renews them, and the session store behind the    *)
(* API, of which the server sees what SessionLedger says.                  *)
(*                                                                         *)
(* A request carries the cookies the browser had when it was sent and      *)
(* changes them when its response arrives, so two requests may renew the   *)
(* session with the same refresh token, and responses may overtake each    *)
(* other.  An id names a session, its refresh token and its access token;  *)
(* ids are minted in ascending order, so a larger one is a newer one.      *)
(***************************************************************************)
EXTENDS Integers, FiniteSets

CONSTANTS
    Tabs,       \* requests that may be under way together
    MaxId,      \* bound: sessions minted
    MaxFaults,  \* bound: replies and responses lost
    None        \* no cookie, no request

Ids == 1..MaxId

ASSUME WebAssumption == MaxId \in Nat /\ MaxFaults \in Nat /\ None \notin Int

VARIABLES
    live, login,  \* the session store, see SessionLedger
    cookies,      \* access and refresh cookie of the browser
    requests,     \* tab -> the request it waits for
    expired,      \* ids whose access token (JWT) is no longer accepted
    faults,       \* messages lost so far
    disturbed     \* history: one of the events that NoSessionStranded excepts

vars == <<live, login, cookies, requests, expired, faults, disturbed>>
Store == INSTANCE SessionLedger

(***************************************************************************)
(* api:    a route handler with authenticatedApiRequest                    *)
(* view:   a route handler with optionalAuthenticatedApiRequest            *)
(* page, publicPage: a server component with the server-side counterparts  *)
(***************************************************************************)
Pages    == {"page", "publicPage"}
Optional == {"view", "publicPage"}
Kinds    == Pages \cup Optional \cup {"api", "refresh", "login", "logout"}
Steps    == {"login", "revoke", "refresh", "call", "public", "done"}
Answers  == {"data", "public", "unauthorized", "error"}
IdOrNone == Ids \cup {None}

Request == [kind : Kinds, access : IdOrNone, refresh : IdOrNone, auth : IdOrNone,
            retried : BOOLEAN, step : Steps, answer : Answers \cup {None}]

ASSUME NoneIsNoRequest == None \notin Request

TypeOK ==
    /\ live \in SUBSET Ids
    /\ login \in [Ids -> IdOrNone]
    /\ cookies \in [access : IdOrNone, refresh : IdOrNone]
    /\ requests \in [Tabs -> Request \cup {None}]
    /\ expired \in SUBSET Ids
    /\ faults \in 0..MaxFaults
    /\ disturbed \in BOOLEAN

NoCookies == [access |-> None, refresh |-> None]

Init ==
    /\ Store!Init
    /\ cookies = NoCookies
    /\ requests = [t \in Tabs |-> None]
    /\ expired = {}
    /\ faults = 0
    /\ disturbed = FALSE

Busy(t) == requests[t] # None
At(t, step) == Busy(t) /\ requests[t].step = step
Minted == {i \in Ids : login[i] # None}
Fresh(i) == i = Cardinality(Minted) + 1

\* One login after the other, one logout after the other, and everything else
\* in between: the order of events in which the pages are meant to be used.
Overlaps(k) ==
    LET others == {requests[t].kind : t \in {u \in Tabs : Busy(u)}}
    IN  \/ others \cap {"login", "logout"} # {}
        \/ (k \in {"login", "logout"} /\ others # {})
        \/ (k = "login" /\ cookies.refresh # None)

Put(t, r) == requests' = [requests EXCEPT ![t] = r]
Disturb(cond) == disturbed' = (disturbed \/ cond)

-----------------------------------------------------------------------------
(* The browser sends a request; the handler reads the cookies it needs. *)

\* Where a handler starts and, when that is its end, what it answers.
FirstStep(k) ==
    CASE k = "login" -> "login"
      [] k = "logout" -> IF cookies.access = None THEN "done" ELSE "revoke"
      [] k \notin {"login", "logout"} /\ cookies.refresh = None ->
            IF k \in Optional THEN "public" ELSE "done"
      [] OTHER -> IF k = "refresh" \/ cookies.access = None THEN "refresh" ELSE "call"

FirstAnswer(k) ==
    IF FirstStep(k) # "done" THEN None
    ELSE IF k = "logout" THEN "data" ELSE "unauthorized"

Send(t, k) ==
    /\ ~Busy(t)
    /\ Put(t, [kind |-> k,
               access |-> IF k \in {"login", "refresh"} THEN None ELSE cookies.access,
               refresh |-> IF k \in {"login", "logout"} THEN None ELSE cookies.refresh,
               auth |-> None, retried |-> FALSE,
               step |-> FirstStep(k), answer |-> FirstAnswer(k)])
    /\ Disturb(\/ Overlaps(k)
               \/ k = "logout" /\ cookies.access = None /\ cookies.refresh # None)
    /\ UNCHANGED <<live, login, cookies, expired, faults>>

-----------------------------------------------------------------------------
(* The web server calls the API. *)

\* The handler is through.  What it renewed is in its response only if the
\* response carries data; otherwise nobody will ever hold the new tokens.
Finished(r, a) ==
    [r EXCEPT !.step = "done", !.answer = a, !.access = None, !.retried = FALSE,
              !.auth = IF a = "data" THEN @ ELSE None]

Answer(t, a) ==
    /\ Put(t, Finished(requests[t], a))
    /\ Disturb(a # "data" /\ requests[t].auth # None)

\* A 401 from the API: optional requests are repeated without the session.
Refuse(t) ==
    IF requests[t].kind \in Optional
    THEN /\ Put(t, [requests[t] EXCEPT !.step = "public", !.auth = None])
         /\ Disturb(requests[t].auth # None)
    ELSE Answer(t, "unauthorized")

LoginSucceeds(t) ==
    /\ At(t, "login")
    /\ \E i \in Ids :
          /\ Fresh(i) /\ Store!Open(i)
          /\ Put(t, Finished([requests[t] EXCEPT !.auth = i], "data"))
    /\ UNCHANGED <<cookies, expired, faults, disturbed>>

\* Renewed as if a server component could go on without its cookies: the access
\* token is read from a response that does not carry one.
RenewedInRender(r, i) ==
    CASE r.kind \in Pages -> [r EXCEPT !.access = 0, !.step = "call"]
      [] r.kind = "refresh" -> Finished([r EXCEPT !.auth = i], "data")
      [] OTHER -> [r EXCEPT !.auth = i, !.access = i, !.step = "call"]
\* A route handler goes on with the new access token.  A server component tries
\* to set the cookies at once, which it may not, so its render fails here.
Renewed(r, i) ==
    CASE r.kind \in Pages -> Finished(r, "error")
      [] r.kind = "refresh" -> Finished([r EXCEPT !.auth = i], "data")
      [] OTHER -> [r EXCEPT !.auth = i, !.access = i, !.step = "call"]

RefreshSucceeds(t) ==
    /\ At(t, "refresh")
    /\ LET r == requests[t] IN
       /\ r.refresh \in live
       /\ \E i \in Ids :
             Fresh(i) /\ Store!Rotate(r.refresh, i) /\ Put(t, Renewed(r, i))
       /\ Disturb(r.kind \in Pages)
    /\ UNCHANGED <<cookies, expired, faults>>

\* The token is used up or its session has ended.
RefreshRefused(t) ==
    /\ At(t, "refresh")
    /\ requests[t].refresh \notin live
    /\ IF requests[t].kind = "refresh"
       THEN Answer(t, "unauthorized")
       ELSE Refuse(t)
    /\ UNCHANGED <<live, login, cookies, expired, faults>>

\* The API accepts the access token: whether its session still exists is not
\* looked up.  It may answer with an error of its own.
CallSucceeds(t) ==
    /\ At(t, "call")
    /\ requests[t].access \notin expired
    /\ Answer(t, "data")
    /\ UNCHANGED <<live, login, cookies, expired, faults>>

CallFails(t) ==
    /\ At(t, "call")
    /\ requests[t].access \notin expired
    /\ Answer(t, "error")
    /\ UNCHANGED <<live, login, cookies, expired, faults>>

\* The access token has expired: refresh, once more with the token the request
\* came with, and repeat the call, but only once.
CallRejected(t) ==
    /\ At(t, "call")
    /\ requests[t].access \in expired
    /\ IF requests[t].retried
       THEN Refuse(t)
       ELSE /\ Put(t, [requests[t] EXCEPT !.step = "refresh", !.retried = TRUE])
            /\ UNCHANGED disturbed
    /\ UNCHANGED <<live, login, cookies, expired, faults>>

CallPublic(t) ==
    /\ At(t, "public")
    /\ \E a \in {"public", "error"} : Answer(t, a)
    /\ UNCHANGED <<live, login, cookies, expired, faults>>

\* Logout revokes the session of the access token, if the API accepts that.
RevokeSession(t) ==
    /\ At(t, "revoke")
    /\ LET r == requests[t] IN
       /\ IF r.access \in live \ expired THEN Store!End({r.access})
                                         ELSE UNCHANGED <<live, login>>
       /\ Put(t, Finished(r, "data"))
       /\ Disturb(r.access \in expired)
    /\ UNCHANGED <<cookies, expired, faults>>

\* No answer from the API; whether it did its work is unknown.  A failed
\* revocation is ignored, an optional page is shown to the public.
ApiUnreachable(t) ==
    /\ faults < MaxFaults
    /\ faults' = faults + 1
    /\ disturbed' = TRUE
    /\ Busy(t) /\ requests[t].step \in {"login", "revoke", "refresh", "call"}
    /\ LET r == requests[t] IN
       /\ \/ UNCHANGED <<live, login>>
          \/ r.step = "login" /\ \E i \in Ids : Fresh(i) /\ Store!Open(i)
          \/ r.step = "refresh" /\ r.refresh \in live
                /\ \E i \in Ids : Fresh(i) /\ Store!Rotate(r.refresh, i)
          \/ r.step = "revoke" /\ r.access \in live \ expired /\ Store!End({r.access})
       /\ Put(t, CASE r.kind = "publicPage" -> [r EXCEPT !.step = "public"]
                   [] r.kind = "logout" -> Finished(r, "data")
                   [] r.kind = "refresh" -> Finished(r, "unauthorized")
                   [] OTHER -> Finished(r, "error"))
    /\ UNCHANGED <<cookies, expired>>

-----------------------------------------------------------------------------
(* The response reaches the browser, or does not. *)

Renews(r) == r.answer = "data" /\ r.auth # None

ClearsAlways(r) == r.kind = "logout" \/ r.answer = "unauthorized"
Clears(r) == \/ r.kind = "logout"
             \/ r.kind = "refresh" /\ r.answer = "unauthorized" /\ r.refresh # None

EchoCookies(r) ==
    IF Clears(r) THEN NoCookies
    ELSE IF Renews(r) THEN [access |-> r.auth, refresh |-> r.auth]
    ELSE [access |-> None, refresh |-> r.refresh]
NewCookies(r) ==
    IF Clears(r) THEN NoCookies
    ELSE IF Renews(r) THEN [access |-> r.auth, refresh |-> r.auth]
    ELSE cookies

\* A refused explicit refresh takes away whatever cookies there are by now.
Deliver(t) ==
    /\ At(t, "done")
    /\ cookies' = NewCookies(requests[t])
    /\ Disturb(requests[t].kind = "refresh" /\ Clears(requests[t]))
    /\ Put(t, None)
    /\ UNCHANGED <<live, login, expired, faults>>

DropResponse(t) ==
    /\ faults < MaxFaults
    /\ faults' = faults + 1
    /\ disturbed' = TRUE
    /\ At(t, "done")
    /\ Put(t, None)
    /\ UNCHANGED <<live, login, cookies, expired>>

-----------------------------------------------------------------------------
(* Time. *)

\* An access token lives for minutes; the cookie with it a moment longer,
\* because its age is counted from the arrival of the response.  (A token that
\* nobody holds any more may as well stay valid.)
AccessTokenExpires(i) ==
    /\ i \in Minted \ expired
    /\ \/ i = cookies.access
       \/ \E t \in Tabs : Busy(t) /\ i \in {requests[t].access, requests[t].auth}
    /\ expired' = expired \cup {i}
    /\ UNCHANGED <<live, login, cookies, requests, faults, disturbed>>

AccessCookieExpires ==
    /\ cookies.access \in expired
    /\ cookies' = [cookies EXCEPT !.access = None]
    /\ UNCHANGED <<live, login, requests, expired, faults, disturbed>>

\* The session ends without the browser: its time is over.
SessionExpires(i) ==
    /\ i \in live
    /\ Store!End({i})
    /\ UNCHANGED <<cookies, requests, expired, faults, disturbed>>

Next ==
    \/ \E t \in Tabs :
          \/ \E k \in Kinds : Send(t, k)
          \/ LoginSucceeds(t) \/ RefreshSucceeds(t) \/ RefreshRefused(t)
          \/ CallSucceeds(t) \/ CallFails(t) \/ CallRejected(t) \/ CallPublic(t)
          \/ RevokeSession(t) \/ ApiUnreachable(t)
          \/ Deliver(t) \/ DropResponse(t)
    \/ AccessCookieExpires
    \/ \E i \in Ids : AccessTokenExpires(i) \/ SessionExpires(i)

Spec == Init /\ [][Next]_vars
-----------------------------------------------------------------------------
(* What the browser may rely on. *)

(***************************************************************************)
(* Tabs that renew the session in parallel, requests that are refused      *)
(* because another tab was faster, retries and late responses never cost   *)
(* the login: a live session is in the cookies of the browser or in a      *)
(* response on its way.  A logout therefore ends the session, and a        *)
(* browser whose session is alive is not asked to log in for long.         *)
(* What may strand a session is disturbed: a page that has to renew it     *)
(* while it renders, a request that fails after it has renewed it, an      *)
(* explicit refresh that clears the cookies, a logout without a valid      *)
(* access token, a login or logout that overlaps other requests, and lost  *)
(* messages.                                                               *)
(***************************************************************************)
OnItsWay(i) == \E t \in Tabs : Busy(t) /\ requests[t].auth = i
NoSessionStranded ==
    ~disturbed => \A i \in live : i = cookies.refresh \/ OnItsWay(i)

\* Whatever happens, the refresh cookie of a login is only ever replaced by a
\* newer one of that login: no late response brings a used token back.
SameLogin(i, j) == i # None /\ j # None /\ login[i] = login[j]
CookiesNeverGoBack ==
    [][LET old == cookies.refresh
           new == cookies'.refresh
       IN  SameLogin(old, new) => old <= new]_vars
=============================================================================
