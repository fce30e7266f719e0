------------------------------ MODULE TeamAccess ------------------------------
(***************************************************************************)
(* One team of the API: its members, its invitations, and the guard that   *)
(* lets a member manage it.                                                *)
(*                                                                         *)
(* The guard reads memberships through a cache in Redis (getOrSet: read    *)
(* the key, else query PostgreSQL and fill the key), and nothing deletes   *)
(* a key when a member leaves or is removed.  A guarded request therefore  *)
(* acts on a role that may be gone.  An invitation is looked up first and  *)
(* consumed later, in a transaction that checks it again, but for its      *)
(* expiry against a reading of the API host's clock from before the wait   *)
(* for the invitation's row.                                               *)
(*                                                                         *)
(* The three managing roles (owner, captain, manager) allow the same, and  *)
(* so do all the others: "manager" and "player" stand for them.  What only *)
(* the rows of the table memberships allow is left out: nothing in the     *)
(* applications writes that table.                                         *)
(*                                                                         *)
(* Times are kept as what is left, or what has passed, of them, so that no *)
(* clock has to be bounded.                                                *)
(***************************************************************************)
EXTENDS Integers, FiniteSets

CONSTANTS
    Users,
    Owner,        \* the user who created the team
    Invitations,  \* names of the invitations that may be created
    Handlers,     \* API requests that may be in progress together
    None,
    CacheTTL,     \* CACHE_DURATION_AUTHORIZATION, in ticks, not 0
    MaxRequest,   \* bound: how long a request may take
    MaxWait,      \* bound: how long a transaction waits for an invitation's row
    MaxSkew,      \* bound: how far the clock of an API host is off
    MaxUses,      \* bound: largest max_uses asked for
    MaxLife       \* bound: longest life asked for an invitation

ASSUME OwnerIsUser == Owner \in Users
ASSUME TimeIsNat ==
    /\ CacheTTL \in Nat /\ MaxRequest \in Nat /\ MaxWait \in Nat
    /\ MaxSkew \in Nat /\ MaxUses \in Nat /\ MaxLife \in Nat

VARIABLES
    member,     \* role of the active row of a user in team_memberships, or None
    past,       \* rows that have ended, and the status they all carry
    inv,        \* the row of an invitation, or None
    uses,       \* rows of team_invitation_uses
    cache,      \* auth:team-memberships:<user>:<team>, or None
    lapse,      \* history: ticks since a user last had a managing role
    calls       \* the request a handler works on, or None

vars == <<member, past, inv, uses, cache, lapse, calls>>

Roles == {"manager", "player"}
Past == [rows : Nat, status : {"left", "removed", "none"}]
Invitation ==
    [role : Roles, maxUses : Nat \ {0}, used : Nat, left : Int, status : {"active", "revoked"}]
Entry == [role : Roles, left : Nat]
Call == [op : {"manage", "leave", "accept"}, user : Users, age : 0..MaxRequest,
         step : {"cached", "select", "fill", "act", "find", "read", "accept"},
         role : Roles \cup {None}, inv : Invitations \cup {None},
         inTime : BOOLEAN, waited : 0..MaxWait]

ASSUME NoneIsNothing ==
    None \notin Roles \cup Nat \cup Invitations \cup Invitation \cup Entry \cup Call

\* The longest that a role may be acted on after it is gone: the request that
\* fills the cache, the life of the entry, the request that finds it.
Horizon == CacheTTL + 2 * MaxRequest

\* How long after its expiry an invitation may still let somebody in: the clock
\* that is read may be behind, and the transaction may wait after reading it.
Late == MaxWait + MaxSkew

TypeOK ==
    /\ member \in [Users -> Roles \cup {None}]
    /\ past \in [Users -> Past]
    /\ inv \in [Invitations -> Invitation \cup {None}]
    /\ uses \subseteq Invitations \X Users
    /\ cache \in [Users -> Entry \cup {None}]
    /\ lapse \in [Users -> 0..(Horizon + 1)]
    /\ calls \in [Handlers -> Call \cup {None}]

\* createTeam, in one transaction: the team and its owner.
Init ==
    /\ member = [u \in Users |-> IF u = Owner THEN "manager" ELSE None]
    /\ past = [u \in Users |-> [rows |-> 0, status |-> "none"]]
    /\ inv = [i \in Invitations |-> None]
    /\ uses = {}
    /\ cache = [u \in Users |-> None]
    /\ lapse = [u \in Users |-> IF u = Owner THEN 0 ELSE Horizon + 1]
    /\ calls = [h \in Handlers |-> None]

At(h, step) == calls[h] # None /\ calls[h].step = step
GoTo(h, step) == calls' = [calls EXCEPT ![h].step = step]
Done(h) == calls' = [calls EXCEPT ![h] = None]

Begin(h, op, u, step) ==
    /\ calls[h] = None
    /\ calls' = [calls EXCEPT ![h] = [op |-> op, user |-> u, age |-> 0, step |-> step,
                                      role |-> None, inv |-> None,
                                      inTime |-> FALSE, waited |-> 0]]
    /\ UNCHANGED <<member, past, inv, uses, cache, lapse>>

-----------------------------------------------------------------------------
(* TeamPoliciesGuard.canActivate for the routes that manage the team (any  *)
(* management action asks for the same roles) and for leaving it.          *)

StartGuarded(h, u) == \E op \in {"manage", "leave"} : Begin(h, op, u, "cached")

Permits(op, role) == role # None /\ (op = "leave" \/ role = "manager")

\* A request that is allowed goes on to its handler, another ends with 403.
Decide(h, role) ==
    IF Permits(calls[h].op, role)
    THEN calls' = [calls EXCEPT ![h].step = "act", ![h].role = None]
    ELSE Done(h)

\* The time to live of a hit starts anew.
HitProlongs(h) ==
    /\ At(h, "cached")
    /\ LET entry == cache[calls[h].user]
       IN  /\ entry # None
           /\ Decide(h, entry.role)
           /\ cache' = [cache EXCEPT ![calls[h].user].left = CacheTTL]
    /\ UNCHANGED <<member, past, inv, uses, lapse>>
CacheHit(h) ==
    /\ At(h, "cached")
    /\ LET entry == cache[calls[h].user]
       IN  entry # None /\ Decide(h, entry.role)
    /\ UNCHANGED <<member, past, inv, uses, cache, lapse>>

CacheMiss(h) ==
    /\ At(h, "cached")
    /\ cache[calls[h].user] = None
    /\ GoTo(h, "select")
    /\ UNCHANGED <<member, past, inv, uses, cache, lapse>>

SelectMember(h) ==
    /\ At(h, "select")
    /\ calls' = [calls EXCEPT ![h].step = "fill", ![h].role = member[calls[h].user]]
    /\ UNCHANGED <<member, past, inv, uses, cache, lapse>>

\* A stored null reads back as an answer.
FillStoresNull(h) ==
    /\ At(h, "fill")
    /\ cache' = [cache EXCEPT ![calls[h].user] = [role |-> calls[h].role, left |-> CacheTTL]]
    /\ Decide(h, calls[h].role)
    /\ UNCHANGED <<member, past, inv, uses, lapse>>

\* The absence of a membership is stored as well, over what the key held, and
\* a stored null reads back as a miss.  A SET whose reply was lost is sent again.
FillCache(h) ==
    /\ At(h, "fill")
    /\ LET c == calls[h]
       IN  /\ cache' = [cache EXCEPT ![c.user] =
                  IF c.role = None THEN None ELSE [role |-> c.role, left |-> CacheTTL]]
           /\ \/ Decide(h, c.role)
              \/ UNCHANGED calls
    /\ UNCHANGED <<member, past, inv, uses, lapse>>

-----------------------------------------------------------------------------
(* The handlers behind the guard.  What the client asked for (which user,   *)
(* which invitation) plays no part in the guard and is chosen here.         *)

ActsAs(h, op) == At(h, "act") /\ calls[h].op = op

\* removeFromTeam: every row of the user, those that had ended included.
Ended(u, reason) ==
    LET rows == past[u].rows + (IF member[u] = None THEN 0 ELSE 1)
    IN  /\ member' = [member EXCEPT ![u] = None]
        /\ past' = [past EXCEPT ![u] =
              [rows |-> rows, status |-> IF rows = 0 THEN "none" ELSE reason]]

Leave(h) ==
    /\ ActsAs(h, "leave")
    /\ Ended(calls[h].user, "left")
    /\ Done(h)
    /\ UNCHANGED <<inv, uses, cache, lapse>>

Remove(h, u) ==
    /\ ActsAs(h, "manage")
    /\ Ended(u, "removed")
    /\ Done(h)
    /\ UNCHANGED <<inv, uses, cache, lapse>>

\* Any date is accepted as expiry, one in the past too.
CreateInvite(h, i, role, maxUses, life) ==
    /\ ActsAs(h, "manage")
    /\ inv[i] = None
    /\ inv' = [inv EXCEPT ![i] = [role |-> role, maxUses |-> maxUses, used |-> 0,
                                  left |-> life, status |-> "active"]]
    /\ Done(h)
    /\ UNCHANGED <<member, past, uses, cache, lapse>>

\* 404 for an invitation that is not active, with no other effect.
Revoke(h, i) ==
    /\ ActsAs(h, "manage")
    /\ inv[i] # None /\ inv[i].status = "active"
    /\ inv' = [inv EXCEPT ![i].status = "revoked"]
    /\ Done(h)
    /\ UNCHANGED <<member, past, uses, cache, lapse>>

-----------------------------------------------------------------------------
(* acceptTeamInvitation: look the code up, then consume it.  An expiry is   *)
(* compared with the clock of the API host, d ahead of the time.            *)

StartAccept(h, u) == Begin(h, "accept", u, "find")

Unspent(i) == inv[i].used < inv[i].maxUses
Usable(i) == inv[i].status = "active" /\ Unspent(i)
ClockErrors == (-MaxSkew)..MaxSkew
InTime(i, d) == inv[i].left > d
Valid(i, d) == inv[i] # None /\ InTime(i, d) /\ Usable(i)

\* A code that names no valid invitation: 404.  (Reading the clock and the row
\* is one step here: what an older reading lets through is checked again.)
FindInvitation(h, i) ==
    /\ At(h, "find")
    /\ \E d \in ClockErrors :
          IF Valid(i, d)
          THEN calls' = [calls EXCEPT ![h].step = "read", ![h].inv = i, ![h].role = inv[i].role]
          ELSE Done(h)
    /\ UNCHANGED <<member, past, inv, uses, cache, lapse>>

\* The transaction begins and reads the clock.  The expiry of an invitation never
\* changes, so what its update will find of it is settled now.
ReadNow(h) ==
    /\ At(h, "read")
    /\ \E d \in ClockErrors :
          calls' = [calls EXCEPT ![h].step = "accept", ![h].inTime = InTime(calls[h].inv, d)]
    /\ UNCHANGED <<member, past, inv, uses, cache, lapse>>

\* A second active row of a user or a second use of an invitation by the same
\* user violates a unique index.
Conflict(i, u) == member[u] # None \/ <<i, u>> \in uses

Count(i) == [inv EXCEPT ![i].used = @ + 1]

\* The row's lock orders the transactions that consume one invitation, and each
\* checks status and count of the row the one before it has left.
Consume(h, open) ==
    /\ At(h, "accept")
    /\ LET c == calls[h]
       IN  /\ open
           /\ ~Conflict(c.inv, c.user)
           /\ inv' = Count(c.inv)
           /\ member' = [member EXCEPT ![c.user] = c.role]
           /\ uses' = uses \cup {<<c.inv, c.user>>}
           /\ lapse' = [lapse EXCEPT ![c.user] = IF c.role = "manager" THEN 0 ELSE @]
    /\ Done(h)
    /\ UNCHANGED <<past, cache>>

\* What findValidInvitationByCodeHash saw is not checked again.
AcceptFound(h) == Consume(h, TRUE)
\* The count is checked when the code is looked up only.
AcceptCounted(h) ==
    At(h, "accept") /\ Consume(h, calls[h].inTime /\ inv[calls[h].inv].status = "active")

Accepts(c) == c.inTime /\ Usable(c.inv)
AcceptInvitation(h) == At(h, "accept") /\ Consume(h, Accepts(calls[h]))

\* The membership is inserted before the transaction fails, and stays.
JoinHalf(h) ==
    /\ At(h, "accept")
    /\ LET c == calls[h]
       IN  /\ Accepts(c) /\ Conflict(c.inv, c.user)
           /\ member' = [member EXCEPT ![c.user] = c.role]
    /\ Done(h)
    /\ UNCHANGED <<past, inv, uses, cache, lapse>>
\* A conflict throws and the transaction rolls back: nothing is left of it.
AcceptRollsBack(h) ==
    /\ At(h, "accept")
    /\ Accepts(calls[h]) /\ Conflict(calls[h].inv, calls[h].user)
    /\ Done(h)
    /\ UNCHANGED <<member, past, inv, uses, cache, lapse>>

\* The update matches no row any more: 404.
AcceptTooLate(h) ==
    /\ At(h, "accept")
    /\ ~Accepts(calls[h])
    /\ Done(h)
    /\ UNCHANGED <<member, past, inv, uses, cache, lapse>>

-----------------------------------------------------------------------------
\* Redis, PostgreSQL or the process fails: the request ends where it is.
Fail(h) ==
    /\ calls[h] # None
    /\ Done(h)
    /\ UNCHANGED <<member, past, inv, uses, cache, lapse>>

Sooner(x) == IF x = -Late THEN x ELSE x - 1

Older(c) ==
    [c EXCEPT !.age = @ + 1, !.waited = IF c.step = "accept" THEN @ + 1 ELSE @]

\* An entry is dropped at the end of its life, an invitation stays in its table.
Tick ==
    /\ \A h \in Handlers :
          /\ calls[h] # None => calls[h].age < MaxRequest
          /\ At(h, "accept") => calls[h].waited < MaxWait
    /\ calls' = [h \in Handlers |-> IF calls[h] = None THEN None ELSE Older(calls[h])]
    /\ cache' = [u \in Users |->
          IF cache[u] = None \/ cache[u].left = 0 THEN None ELSE [cache[u] EXCEPT !.left = @ - 1]]
    /\ inv' = [i \in Invitations |->
          IF inv[i] = None THEN None ELSE [inv[i] EXCEPT !.left = Sooner(@)]]
    /\ lapse' = [u \in Users |->
          IF member[u] = "manager" THEN 0
          ELSE IF lapse[u] > Horizon THEN lapse[u] ELSE lapse[u] + 1]
    /\ UNCHANGED <<member, past, uses>>

Guard(h) ==
    \/ \E u \in Users : StartGuarded(h, u)
    \/ CacheHit(h) \/ CacheMiss(h) \/ SelectMember(h) \/ FillCache(h)

Manage(h) ==
    \/ Leave(h)
    \/ \E u \in Users : Remove(h, u)
    \/ \E i \in Invitations :
          \/ Revoke(h, i)
          \/ \E role \in Roles, maxUses \in 1..MaxUses, life \in (-Late)..MaxLife :
                CreateInvite(h, i, role, maxUses, life)

Accept(h) ==
    \/ \E u \in Users : StartAccept(h, u)
    \/ \E i \in Invitations : FindInvitation(h, i)
    \/ ReadNow(h) \/ AcceptInvitation(h) \/ AcceptRollsBack(h) \/ AcceptTooLate(h)

Next ==
    \/ \E h \in Handlers : Guard(h) \/ Manage(h) \/ Accept(h) \/ Fail(h)
    \/ Tick

Spec == Init /\ [][Next]_vars

-----------------------------------------------------------------------------
(* What the invitations and the guard promise.                             *)

UsersOf(i) == {u \in Users : <<i, u>> \in uses}
UsedBy(u) == {i \in Invitations : <<i, u>> \in uses}

\* used_count counts the users who joined with the invitation, and there are
\* never more of them than max_uses, however many accept it at once.
UsesWithinLimit ==
    \A i \in Invitations :
        IF inv[i] = None THEN UsersOf(i) = {}
        ELSE Cardinality(UsersOf(i)) = inv[i].used /\ inv[i].used <= inv[i].maxUses

\* Every membership but the owner's first was paid for with one use of an
\* invitation: no use is lost in a failed transaction, none buys two rows.
MembershipsAreInvited ==
    \A u \in Users :
        Cardinality(UsedBy(u)) + (IF u = Owner THEN 1 ELSE 0)
            = past[u].rows + (IF member[u] = None THEN 0 ELSE 1)

\* Closed for good, whatever transaction is still on its way.
Over(i) == inv[i].status = "revoked" \/ inv[i].left <= -Late

\* Requests that interleave at every query keep the book of InvitationBook:
\* nobody joins with an invitation that has been revoked since its code was
\* looked up or that others have used up meanwhile, nor with one that expired
\* longer ago than a transaction waits and a host's clock is behind.  (Until
\* then it may: the transaction compares the expiry with the clock it has read
\* before it waited for the row.)  Its terms never change, and it is never open
\* again.
Book == INSTANCE InvitationBook WITH
    limit <- [i \in Invitations |-> IF inv[i] = None THEN None ELSE inv[i].maxUses],
    closed <- {i \in Invitations : inv[i] # None /\ Over(i)},
    admitted <- uses
ImplementsBook == Book!Spec

\* Whoever acts on the team had a managing role a short while ago: at most
\* the life of a cache entry, the time the request that filled it took and
\* the time this one takes.
OnlyRecentManagersAct ==
    \A h \in Handlers : ActsAs(h, "manage") => lapse[calls[h].user] <= Horizon
=============================================================================
