------------------------- MODULE EmailVerification -------------------------
(***************************************************************************)
(* Email verification: the token store of packages/redis and the service   *)
(* of the API that mints a token, mails its link and, when the link is     *)
(* opened, consumes the token and marks the user as verified.              *)
(*                                                                         *)
(* The store needs no script, so every command is a step of its own and    *)
(* what a request has read may be old when it writes.  Both keys of a      *)
(* token are written and deleted by one command each (MULTI, a DEL of two  *)
(* keys).                                                                  *)
(***************************************************************************)
EXTENDS Integers, FiniteSets

CONSTANTS
    Users,
    Tokens,     \* names minted by generateRefreshToken
    Handlers,   \* API requests that may be in progress together
    None,       \* an absent key, no request
    TTL,        \* EMAIL_VERIFICATION_TTL_SECONDS, in ticks
    MaxClock    \* bound: the clock stops here

ASSUME TimeIsNat == TTL \in Nat /\ MaxClock \in Nat

VARIABLES
    clock,
    tokenKey,   \* email_verification:token:<hash> -> data, or None
    userKey,    \* email_verification:user:<user>  -> data, or None
    verified,   \* users with email_verified
    mailed,     \* tokens whose link has been handed to the mail queue
    minted,     \* history: owner, rank and expiry of a stored token, or None
    used,       \* history: tokens that were consumed
    calls       \* the request a handler works on, or None

vars == <<clock, tokenKey, userKey, verified, mailed, minted, used, calls>>

TokenData == [user : Users, exp : Nat]
UserData  == [token : Tokens, exp : Nat]
Minted    == [user : Users, rank : Nat, exp : Nat]
Step      == {"previous", "store", "enqueue", "read", "consume", "update"}
Call      == [step : Step, user : Users \cup {None}, token : Tokens,
              previous : Tokens \cup {None}]

ASSUME NoneIsNothing ==
    None \notin Users \cup Tokens \cup TokenData \cup UserData \cup Minted \cup Call

TypeOK ==
    /\ clock \in Nat
    /\ tokenKey \in [Tokens -> TokenData \cup {None}]
    /\ userKey \in [Users -> UserData \cup {None}]
    /\ verified \subseteq Users
    /\ mailed \subseteq Tokens /\ used \subseteq Tokens
    /\ minted \in [Tokens -> Minted \cup {None}]
    /\ calls \in [Handlers -> Call \cup {None}]

Init ==
    /\ clock = 0
    /\ tokenKey = [t \in Tokens |-> None]
    /\ userKey = [u \in Users |-> None]
    /\ verified = {} /\ mailed = {} /\ used = {}
    /\ minted = [t \in Tokens |-> None]
    /\ calls = [h \in Handlers |-> None]

At(h, step) == calls[h] # None /\ calls[h].step = step
GoTo(h, step) == calls' = [calls EXCEPT ![h].step = step]
Done(h) == calls' = [calls EXCEPT ![h] = None]

-----------------------------------------------------------------------------
(* sendVerificationEmail, after a signup or when the user asks again. *)

Fresh(t) ==
    /\ minted[t] = None
    /\ \A h \in Handlers : calls[h] # None => calls[h].token # t

\* A user who is verified gets no further mail.
StartSend(h, u, t) ==
    /\ calls[h] = None
    /\ u \notin verified
    /\ Fresh(t)
    /\ calls' = [calls EXCEPT ![h] =
          [step |-> "previous", user |-> u, token |-> t, previous |-> None]]
    /\ UNCHANGED <<clock, tokenKey, userKey, verified, mailed, minted, used>>

\* The mail is queued while the store is still busy.
EnqueueEarly(h) ==
    /\ At(h, "previous")
    /\ mailed' = mailed \cup {calls[h].token}
    /\ GoTo(h, "store")
    /\ UNCHANGED <<clock, tokenKey, userKey, verified, minted, used>>
ReadPrevious(h) ==
    /\ At(h, "previous")
    /\ LET data == userKey[calls[h].user]
       IN  calls' = [calls EXCEPT ![h].step = "store",
               ![h].previous = IF data = None THEN None ELSE data.token]
    /\ UNCHANGED <<clock, tokenKey, userKey, verified, mailed, minted, used>>

\* The transaction: DEL of the token that was read, SET of both keys.
Without(t) == [tokenKey EXCEPT ![t] = None]
Replaced(previous) == IF previous = None THEN tokenKey ELSE Without(previous)

\* Rank of a token in the order in which the tokens were stored.
RankOf(t) == IF minted[t] # None THEN minted[t].rank
             ELSE Cardinality({x \in Tokens : minted[x] # None})

StoreToken(h) ==
    /\ At(h, "store")
    /\ LET c == calls[h]
           exp == clock + TTL
       IN  /\ tokenKey' = [Replaced(c.previous) EXCEPT ![c.token] = [user |-> c.user, exp |-> exp]]
           /\ userKey' = [userKey EXCEPT ![c.user] = [token |-> c.token, exp |-> exp]]
           /\ minted' = [minted EXCEPT ![c.token] =
                  [user |-> c.user, rank |-> RankOf(c.token), exp |-> exp]]
    /\ GoTo(h, "enqueue")
    /\ UNCHANGED <<clock, verified, mailed, used>>

\* From here on the mail may arrive, and its link may be opened, at any time.
EnqueueMail(h) ==
    /\ At(h, "enqueue")
    /\ mailed' = mailed \cup {calls[h].token}
    /\ Done(h)
    /\ UNCHANGED <<clock, tokenKey, userKey, verified, minted, used>>

-----------------------------------------------------------------------------
(* verifyEmail: the link of a mail is opened. *)

StartVerify(h, t) ==
    /\ calls[h] = None
    /\ t \in mailed
    /\ calls' = [calls EXCEPT ![h] =
          [step |-> "read", user |-> None, token |-> t, previous |-> None]]
    /\ UNCHANGED <<clock, tokenKey, userKey, verified, mailed, minted, used>>

ReadToken(h) ==
    /\ At(h, "read")
    /\ tokenKey[calls[h].token] # None
    /\ calls' = [calls EXCEPT ![h].step = "consume", ![h].user = tokenKey[calls[h].token].user]
    /\ UNCHANGED <<clock, tokenKey, userKey, verified, mailed, minted, used>>

\* "Email verification token is invalid or expired"
InvalidUnchecked(h) ==
    /\ At(h, "read")
    /\ tokenKey[calls[h].token] = None
    /\ GoTo(h, "consume")
    /\ UNCHANGED <<clock, tokenKey, userKey, verified, mailed, minted, used>>
InvalidToken(h) ==
    /\ At(h, "read")
    /\ tokenKey[calls[h].token] = None
    /\ Done(h)
    /\ UNCHANGED <<clock, tokenKey, userKey, verified, mailed, minted, used>>

\* One DEL of the token and of the key of its user, whatever that now names.
ConsumeKeepsUserKey(h) ==
    /\ At(h, "consume")
    /\ tokenKey' = Without(calls[h].token)
    /\ used' = used \cup {calls[h].token}
    /\ GoTo(h, "update")
    /\ UNCHANGED <<clock, userKey, verified, mailed, minted>>
ConsumeCurrent(h) ==
    /\ At(h, "consume")
    /\ LET c == calls[h]
           current == userKey[c.user]
       IN  /\ tokenKey' = IF current = None THEN tokenKey ELSE Without(current.token)
           /\ userKey' = [userKey EXCEPT ![c.user] = None]
           /\ used' = used \cup {c.token}
    /\ GoTo(h, "update")
    /\ UNCHANGED <<clock, verified, mailed, minted>>
ConsumeToken(h) ==
    /\ At(h, "consume")
    /\ LET c == calls[h]
       IN  /\ tokenKey' = Without(c.token)
           /\ userKey' = [userKey EXCEPT ![c.user] = None]
           /\ used' = used \cup {c.token}
    /\ GoTo(h, "update")
    /\ UNCHANGED <<clock, verified, mailed, minted>>

\* The user of the token becomes verified; email and user are never changed
\* or deleted, so the row is always found.
VerifyEveryone(h) ==
    /\ At(h, "update")
    /\ verified' = Users
    /\ Done(h)
    /\ UNCHANGED <<clock, tokenKey, userKey, mailed, minted, used>>
MarkVerified(h) ==
    /\ At(h, "update")
    /\ verified' = verified \cup {calls[h].user}
    /\ Done(h)
    /\ UNCHANGED <<clock, tokenKey, userKey, mailed, minted, used>>

-----------------------------------------------------------------------------
\* A reply is lost and the client library sends the command again.
Resend(h) ==
    /\ \/ At(h, "enqueue") /\ GoTo(h, "store")
       \/ At(h, "update") /\ GoTo(h, "consume")
    /\ UNCHANGED <<clock, tokenKey, userKey, verified, mailed, minted, used>>

\* A command fails or the process dies: the request ends where it is.
Fail(h) ==
    /\ calls[h] # None
    /\ Done(h)
    /\ UNCHANGED <<clock, tokenKey, userKey, verified, mailed, minted, used>>

Drop(key, now) == IF key # None /\ key.exp < now THEN None ELSE key

Tick ==
    /\ clock < MaxClock
    /\ clock' = clock + 1
    /\ tokenKey' = [t \in Tokens |-> Drop(tokenKey[t], clock + 1)]
    /\ userKey' = [u \in Users |-> Drop(userKey[u], clock + 1)]
    /\ UNCHANGED <<verified, mailed, minted, used, calls>>

Send(h) ==
    \/ \E u \in Users, t \in Tokens : StartSend(h, u, t)
    \/ ReadPrevious(h) \/ StoreToken(h) \/ EnqueueMail(h)

Verify(h) ==
    \/ \E t \in Tokens : StartVerify(h, t)
    \/ ReadToken(h) \/ InvalidToken(h) \/ ConsumeToken(h) \/ MarkVerified(h)

Next ==
    \/ \E h \in Handlers : Send(h) \/ Verify(h) \/ Resend(h) \/ Fail(h)
    \/ Tick

Spec == Init /\ [][Next]_vars

-----------------------------------------------------------------------------
(* What the two keys and the mails promise. *)

\* The key of a user never names a token that is gone, another user's token
\* or one with another expiry: what a replacement reads there is a token it
\* really has to delete.
UserKeyNamesLiveToken ==
    \A u \in Users : userKey[u] # None =>
        tokenKey[userKey[u].token] = [user |-> u, exp |-> userKey[u].exp]

Superseded(t) ==
    \E x \in Tokens : minted[x] # None /\ minted[x].user = minted[t].user
                      /\ minted[x].rank > minted[t].rank

\* The link of the newest mail works until it has been used or has expired:
\* no late write or delete of an older request takes its token away.
NewestLinkWorks ==
    \A t \in mailed :
        ~Superseded(t) /\ t \notin used /\ clock <= minted[t].exp => tokenKey[t] # None

\* Whoever is verified has opened a link that was mailed to that user.
VerifiedByMail ==
    verified \subseteq {minted[t].user : t \in used \cap mailed}

\* A link that has been used and is not used at this moment is dead for good.
UsedLinkStaysDead ==
    [][\A t \in used : tokenKey[t] = None => tokenKey'[t] = None]_vars

\* packages/redis/README.md:491 "Creating a new token for the same user deletes
\* the previous token key": a user never has two links that work.
OneTokenPerUser ==
    \A s, t \in Tokens :
        tokenKey[s] # None /\ tokenKey[t] # None /\ tokenKey[s].user = tokenKey[t].user => s = t
=============================================================================
