--------------------------- MODULE TeamAccessProofs ---------------------------
(***************************************************************************)
(* Proofs about TeamAccess, for every number of users, invitations and     *)
(* requests, every life of a cache entry and every length of a request.    *)
(*                                                                         *)
(* The invariant has three parts: what a request carries from step to step *)
(* (CallsOK), how long ago the role in the cache was real (RecentOK), and  *)
(* the books of the invitations (BooksOK).  From it follows that the       *)
(* interleaved requests implement InvitationBook.                          *)
(***************************************************************************)
EXTENDS TeamAccess, FiniteSetTheorems, TLAPS

\* A role read from the table is as old as the request at most, a role that
\* lets a request act also as the entry it came from.  An invitation that was in
\* time when the clock was read has expired since the transaction began to wait
\* at the earliest, but for what that clock is behind.
CallOK(c) ==
    /\ c.op = "accept" <=> c.step \in {"find", "read", "accept"}
    /\ c.step \in {"read", "accept"} =>
          c.inv \in Invitations /\ c.role \in Roles /\ inv[c.inv] # None
    /\ c.step # "accept" => c.waited = 0
    /\ c.step = "accept" /\ c.inTime => inv[c.inv].left > -(MaxSkew + c.waited)
    /\ c.step = "fill" /\ c.role = "manager" => lapse[c.user] <= c.age
    /\ c.step = "act" /\ c.op = "manage" => lapse[c.user] <= CacheTTL + MaxRequest + c.age

CallsOK == \A h \in Handlers : calls[h] # None => CallOK(calls[h])

\* A cached managing role was real when the request that stored it read it.
EntryOK(u) ==
    cache[u] # None /\ cache[u].role = "manager" => lapse[u] + cache[u].left <= CacheTTL + MaxRequest

RecentOK ==
    \A u \in Users :
        /\ member[u] = "manager" => lapse[u] = 0
        /\ EntryOK(u)

\* The two properties count sets, which are finite although Users and
\* Invitations need not be.
BooksOK ==
    /\ \A i \in Invitations : IsFiniteSet(UsersOf(i))
    /\ \A u \in Users : IsFiniteSet(UsedBy(u))
    /\ UsesWithinLimit
    /\ MembershipsAreInvited

TeamInv == TypeOK /\ CallsOK /\ RecentOK /\ BooksOK

LEMMA HorizonIsNat == Horizon \in Nat
  BY TimeIsNat DEF Horizon

LEMMA LateIsNat == Late \in Nat
  BY TimeIsNat DEF Late

LEMMA TeamInvInit == Init => TeamInv
  <1> SUFFICES ASSUME Init PROVE TeamInv
    OBVIOUS
  <1> USE OwnerIsUser, TimeIsNat, NoneIsNothing, HorizonIsNat
  <1>1. TypeOK
    BY DEF Init, TypeOK, Past, Roles
  <1>2. CallsOK /\ RecentOK
    BY DEF Init, CallsOK, RecentOK, EntryOK, Roles
  <1>3. /\ \A i \in Invitations : UsersOf(i) = {}
        /\ \A u \in Users : UsedBy(u) = {}
    BY DEF Init, UsersOf, UsedBy
  <1>4. BooksOK
    BY <1>3, FS_EmptySet DEF Init, BooksOK, UsesWithinLimit, MembershipsAreInvited, Roles
  <1>. QED
    BY <1>1, <1>2, <1>4 DEF TeamInv

(***************************************************************************)
(* Frames: what is left of the invariant when a step writes few variables. *)
(***************************************************************************)

\* No invitation disappears, and no expiry changes.
SameExpiry ==
    \A i \in Invitations : inv[i] # None => inv'[i] # None /\ inv'[i].left = inv[i].left

\* One request moves on, no user's managing role moves into the past, and no
\* invitation's expiry moves.
LEMMA CallsFrame ==
    ASSUME TypeOK, CallsOK, NEW h \in Handlers, NEW c \in Call \cup {None}, c # None => CallOK(c),
           calls' = [calls EXCEPT ![h] = c], SameExpiry,
           lapse' \in [Users -> 0..(Horizon + 1)], \A u \in Users : lapse'[u] <= lapse[u]
    PROVE  calls' \in [Handlers -> Call \cup {None}] /\ CallsOK'
  <1>1. calls' \in [Handlers -> Call \cup {None}]
    BY DEF TypeOK
  <1>2. ASSUME NEW d \in Call, CallOK(d) PROVE CallOK(d)'
    <2>1. /\ d.user \in Users /\ d.age \in Nat /\ lapse[d.user] \in Int /\ lapse'[d.user] \in Int
          /\ lapse'[d.user] <= lapse[d.user]
      BY HorizonIsNat DEF Call, TypeOK
    <2>. QED
      BY <1>2, <2>1, TimeIsNat DEF CallOK, SameExpiry
  <1>3. ASSUME NEW g \in Handlers, calls'[g] # None PROVE CallOK(calls[g])'
    <2>1. calls'[g] \in Call /\ CallOK(calls'[g])
      BY <1>3, <1>1 DEF TypeOK, CallsOK
    <2>. QED
      BY <2>1, <1>2
  <1>. QED
    BY <1>1, <1>3 DEF CallsOK

\* A request ends that changes no expiry and no lapse.
LEMMA EndedCalls ==
    ASSUME TypeOK, CallsOK, NEW h \in Handlers, Done(h), SameExpiry, UNCHANGED lapse
    PROVE  CallsOK'
  <1>1. /\ lapse' \in [Users -> 0..(Horizon + 1)] /\ \A u \in Users : lapse'[u] <= lapse[u]
    BY HorizonIsNat DEF TypeOK
  <1>. QED
    BY <1>1, CallsFrame DEF Done

LEMMA RecentFrame == RecentOK /\ UNCHANGED <<member, cache, lapse>> => RecentOK'
  BY DEF RecentOK, EntryOK

LEMMA BooksFrame == BooksOK /\ UNCHANGED <<member, past, inv, uses>> => BooksOK'
  BY DEF BooksOK, UsersOf, UsedBy, UsesWithinLimit, MembershipsAreInvited

\* A step that only moves one request on.
LEMMA OnlyCalls ==
    ASSUME TeamInv, NEW h \in Handlers, NEW c \in Call \cup {None}, c # None => CallOK(c),
           calls' = [calls EXCEPT ![h] = c],
           UNCHANGED <<member, past, inv, uses, cache, lapse>>
    PROVE  TeamInv'
  <1>1. /\ lapse' \in [Users -> 0..(Horizon + 1)] /\ \A u \in Users : lapse'[u] <= lapse[u]
    BY HorizonIsNat DEF TeamInv, TypeOK
  <1>2. calls' \in [Handlers -> Call \cup {None}] /\ CallsOK'
    BY <1>1, CallsFrame DEF TeamInv, SameExpiry
  <1>. QED
    BY <1>2, RecentFrame, BooksFrame DEF TeamInv, TypeOK

\* The request of a handler that is at a step.
LEMMA AtCall ==
    ASSUME TeamInv, NEW h \in Handlers, NEW step, At(h, step)
    PROVE  calls[h] # None /\ calls[h] \in Call /\ calls[h].step = step /\ CallOK(calls[h])
  BY DEF TeamInv, TypeOK, CallsOK, At

\* The guard's decision: the request ends, or goes on with a managing role that
\* is recent if it is going to manage.
LEMMA DecideFacts ==
    ASSUME TeamInv, NEW h \in Handlers, calls[h] \in Call, calls[h].op # "accept",
           NEW role \in Roles \cup {None}, Decide(h, role),
           role = "manager" => lapse[calls[h].user] <= CacheTTL + MaxRequest + calls[h].age
    PROVE  \E c \in Call \cup {None} :
              (c # None => CallOK(c)) /\ calls' = [calls EXCEPT ![h] = c]
  <1> DEFINE c == [calls[h] EXCEPT !.step = "act", !.role = None]
  <1>1. CASE Permits(calls[h].op, role) /\ calls' = [calls EXCEPT ![h] = c]
    <2>1. c \in Call
      BY DEF Call
    <2>2. calls[h].op = "manage" => role = "manager"
      BY <1>1 DEF Permits
    <2>3. /\ c.op = calls[h].op /\ c.step = "act" /\ c.user = calls[h].user
          /\ c.age = calls[h].age /\ c.waited = 0
      BY NoneIsNothing DEF Call, TeamInv, CallsOK, CallOK
    <2>4. CallOK(c)
      BY <2>2, <2>3 DEF CallOK
    <2>. QED
      BY <1>1, <2>1, <2>4
  <1>2. CASE Done(h)
    BY <1>2 DEF Done
  <1>. QED
    BY <1>1, <1>2 DEF Decide, TeamInv, TypeOK

(***************************************************************************)
(* The steps of the guard.                                                 *)
(***************************************************************************)

LEMMA GuardStep ==
    ASSUME TeamInv, NEW h \in Handlers, Guard(h)
    PROVE  TeamInv'
  <1> USE TimeIsNat, NoneIsNothing
  <1>0. TypeOK /\ CallsOK /\ RecentOK /\ BooksOK
    BY DEF TeamInv
  <1>1. ASSUME NEW u \in Users, NEW op \in {"manage", "leave"}, Begin(h, op, u, "cached")
        PROVE  TeamInv'
    <2> DEFINE c == [op |-> op, user |-> u, age |-> 0, step |-> "cached", role |-> None, inv |-> None,
                     inTime |-> FALSE, waited |-> 0]
    <2>1. c \in Call /\ CallOK(c)
      BY DEF Call, CallOK
    <2>. QED
      BY <1>1, <2>1, OnlyCalls DEF Begin
  <1>2. CASE CacheHit(h)
    <2> DEFINE c == calls[h]
    <2>1. c \in Call /\ c.step = "cached" /\ c.op # "accept" /\ c.user \in Users /\ c.age \in Nat
      BY <1>2, AtCall DEF CacheHit, CallOK, Call
    <2>2. /\ cache[c.user] # None /\ Decide(h, cache[c.user].role)
          /\ UNCHANGED <<member, past, inv, uses, cache, lapse>>
      BY <1>2 DEF CacheHit
    <2>3. cache[c.user] \in Entry /\ lapse[c.user] \in Int
      BY <2>1, <2>2, <1>0, HorizonIsNat DEF TypeOK
    <2>4. cache[c.user].role \in Roles /\ cache[c.user].left \in Nat
      BY <2>3 DEF Entry
    <2>5. cache[c.user].role = "manager" => lapse[c.user] <= CacheTTL + MaxRequest + c.age
      BY <2>1, <2>2, <2>3, <2>4, <1>0 DEF RecentOK, EntryOK
    <2>6. PICK k \in Call \cup {None} : (k # None => CallOK(k)) /\ calls' = [calls EXCEPT ![h] = k]
      BY <2>1, <2>2, <2>4, <2>5, DecideFacts
    <2>. QED
      BY <2>2, <2>6, OnlyCalls
  <1>3. CASE CacheMiss(h)
    <2> DEFINE c == [calls[h] EXCEPT !.step = "select"]
    <2>1. calls[h] \in Call /\ calls[h].step = "cached" /\ CallOK(calls[h])
      BY <1>3, AtCall DEF CacheMiss
    <2>2. c \in Call /\ CallOK(c)
      BY <2>1 DEF Call, CallOK
    <2>3. calls' = [calls EXCEPT ![h] = c] /\ UNCHANGED <<member, past, inv, uses, cache, lapse>>
      BY <1>3, <1>0 DEF CacheMiss, GoTo, TypeOK
    <2>. QED
      BY <2>2, <2>3, OnlyCalls
  <1>4. CASE SelectMember(h)
    <2>1. calls[h] \in Call /\ calls[h].step = "select" /\ CallOK(calls[h])
          /\ calls[h].user \in Users /\ calls[h].age \in Nat
      BY <1>4, AtCall DEF SelectMember, Call
    <2>2. PICK r \in Roles \cup {None} : r = member[calls[h].user]
      BY <2>1, <1>0 DEF TypeOK
    <2> DEFINE c == [calls[h] EXCEPT !.step = "fill", !.role = r]
    <2>3. c \in Call
      BY <2>1 DEF Call
    <2>4. r = "manager" => lapse[calls[h].user] <= calls[h].age
      <3>1. r = "manager" => lapse[calls[h].user] = 0
        BY <2>1, <2>2, <1>0 DEF RecentOK
      <3>. QED
        BY <3>1, <2>1
    <2>5. CallOK(c)
      BY <2>1, <2>4 DEF CallOK, Call
    <2>6. calls' = [calls EXCEPT ![h] = c] /\ UNCHANGED <<member, past, inv, uses, cache, lapse>>
      BY <1>4, <1>0, <2>2 DEF SelectMember, TypeOK
    <2>. QED
      BY <2>3, <2>5, <2>6, OnlyCalls
  <1>5. CASE FillCache(h)
    <2> DEFINE c == calls[h]
               entry == [role |-> c.role, left |-> CacheTTL]
    <2>1. c \in Call /\ c.step = "fill" /\ CallOK(c) /\ c.op # "accept"
          /\ c.user \in Users /\ c.age \in 0..MaxRequest /\ c.role \in Roles \cup {None}
          /\ lapse[c.user] \in Int
      BY <1>5, <1>0, AtCall, HorizonIsNat DEF FillCache, CallOK, Call, TypeOK
    <2>2. /\ cache' = [cache EXCEPT ![c.user] = IF c.role = None THEN None ELSE entry]
          /\ Decide(h, c.role) \/ UNCHANGED calls
          /\ UNCHANGED <<member, past, inv, uses, lapse>>
      BY <1>5 DEF FillCache
    <2>3. PICK k \in Call \cup {None} : (k # None => CallOK(k)) /\ calls' = [calls EXCEPT ![h] = k]
      <3>1. CASE Decide(h, c.role)
        BY <3>1, <2>1, <1>0, DecideFacts DEF CallOK
      <3>2. CASE UNCHANGED calls
        BY <3>2, <2>1, <1>0 DEF TypeOK
      <3>. QED
        BY <3>1, <3>2, <2>2
    <2>4. calls' \in [Handlers -> Call \cup {None}] /\ CallsOK'
      <3>1. lapse' \in [Users -> 0..(Horizon + 1)] /\ \A u \in Users : lapse'[u] <= lapse[u]
        BY <2>2, <1>0, HorizonIsNat DEF TypeOK
      <3>. QED
        BY <2>2, <3>1, <2>3, <1>0, CallsFrame DEF SameExpiry
    <2>5. c.role # None => entry \in Entry
      BY <2>1 DEF Entry
    <2>6. TypeOK'
      BY <2>1, <2>2, <2>4, <2>5, <1>0 DEF TypeOK
    <2>7. RecentOK'
      <3> SUFFICES ASSUME NEW u \in Users PROVE EntryOK(u)'
        BY <2>2, <1>0 DEF RecentOK
      <3>1. CASE u = c.user /\ c.role # None
        <4>1. cache'[u].role = c.role /\ cache'[u].left = CacheTTL
          BY <3>1, <2>1, <2>2, <1>0 DEF TypeOK
        <4>. QED
          BY <4>1, <3>1, <2>1, <2>2 DEF EntryOK, CallOK
      <3>2. CASE u = c.user /\ c.role = None
        BY <3>2, <2>2, <1>0 DEF EntryOK, TypeOK
      <3>3. CASE u # c.user
        <4>1. cache'[u] = cache[u]
          BY <3>3, <2>2, <1>0 DEF TypeOK
        <4>. QED
          BY <4>1, <2>2, <1>0 DEF RecentOK, EntryOK
      <3>. QED
        BY <3>1, <3>2, <3>3
    <2>. QED
      BY <2>2, <2>4, <2>6, <2>7, <1>0, BooksFrame DEF TeamInv
  <1>. QED
    BY <1>1, <1>2, <1>3, <1>4, <1>5 DEF Guard, StartGuarded

(***************************************************************************)
(* The steps of the handlers behind the guard.                             *)
(***************************************************************************)

\* A user's row ends, or only rows that had ended are marked: the number of
\* rows stays.
LEMMA EndedStep ==
    ASSUME TeamInv, NEW h \in Handlers, NEW u \in Users, NEW reason \in {"left", "removed"},
           Ended(u, reason), Done(h), UNCHANGED <<inv, uses, cache, lapse>>
    PROVE  TeamInv'
  <1> DEFINE rows == past[u].rows + (IF member[u] = None THEN 0 ELSE 1)
             ended == [rows |-> rows, status |-> IF rows = 0 THEN "none" ELSE reason]
  <1> USE NoneIsNothing
  <1>0. TypeOK /\ CallsOK /\ RecentOK /\ BooksOK
    BY DEF TeamInv
  <1>1. rows \in Nat /\ ended \in Past
    <2>1. past[u].rows \in Nat
      BY <1>0 DEF TypeOK, Past
    <2>2. PICK n \in Nat : n = rows
      BY <2>1
    <2>3. PICK st \in {"left", "removed", "none"} : st = IF rows = 0 THEN "none" ELSE reason
      OBVIOUS
    <2>4. [rows |-> n, status |-> st] \in Past
      BY DEF Past
    <2>. QED
      BY <2>2, <2>3, <2>4
  <1>2. member' = [member EXCEPT ![u] = None] /\ past' = [past EXCEPT ![u] = ended]
    BY DEF Ended
  <1> HIDE DEF ended, rows
  <1>3. TypeOK'
    BY <1>0, <1>1, <1>2 DEF TypeOK, Done
  <1>4. CallsOK'
    BY <1>0, EndedCalls DEF SameExpiry
  <1>5. RecentOK'
    <2>1. \A v \in Users : member'[v] = "manager" => member[v] = "manager"
      BY <1>0, <1>2 DEF TypeOK, Roles
    <2>. QED
      BY <2>1, <1>0 DEF RecentOK, EntryOK
  <1>6. MembershipsAreInvited'
    <2> SUFFICES ASSUME NEW v \in Users
                 PROVE  Cardinality(UsedBy(v)) + (IF v = Owner THEN 1 ELSE 0)
                           = past'[v].rows + (IF member'[v] = None THEN 0 ELSE 1)
      BY DEF MembershipsAreInvited, UsedBy
    <2>1. Cardinality(UsedBy(v)) + (IF v = Owner THEN 1 ELSE 0)
            = past[v].rows + (IF member[v] = None THEN 0 ELSE 1)
      BY <1>0 DEF BooksOK, MembershipsAreInvited
    <2>2. CASE v = u
      <3>1. past'[v].rows = rows /\ member'[v] = None
        BY <2>2, <1>0, <1>2 DEF TypeOK, ended
      <3>. QED
        BY <3>1, <2>1, <2>2, <1>1 DEF rows
    <2>3. CASE v # u
      <3>1. past'[v] = past[v] /\ member'[v] = member[v]
        BY <2>3, <1>0, <1>2 DEF TypeOK
      <3>. QED
        BY <3>1, <2>1
    <2>. QED
      BY <2>2, <2>3
  <1>7. BooksOK'
    BY <1>0, <1>6 DEF BooksOK, UsersOf, UsedBy, UsesWithinLimit
  <1>. QED
    BY <1>3, <1>4, <1>5, <1>7 DEF TeamInv

LEMMA ManageStep ==
    ASSUME TeamInv, NEW h \in Handlers, Manage(h)
    PROVE  TeamInv'
  <1> USE TimeIsNat, NoneIsNothing
  <1>0. TypeOK /\ CallsOK /\ RecentOK /\ BooksOK
    BY DEF TeamInv
  <1>1. CASE Leave(h)
    <2>1. calls[h].user \in Users
      BY <1>1, AtCall DEF Leave, ActsAs, Call
    <2>. QED
      BY <1>1, <2>1, EndedStep DEF Leave
  <1>2. ASSUME NEW u \in Users, Remove(h, u) PROVE TeamInv'
    BY <1>2, EndedStep DEF Remove
  <1>3. ASSUME NEW i \in Invitations, Revoke(h, i) PROVE TeamInv'
    <2> DEFINE row == [inv[i] EXCEPT !.status = "revoked"]
    <2>1. inv[i] # None /\ inv[i] \in Invitation /\ row \in Invitation /\ row # None
      BY <1>3, <1>0 DEF Revoke, TypeOK, Invitation
    <2>2. row.used = inv[i].used /\ row.maxUses = inv[i].maxUses /\ row.left = inv[i].left
      BY <2>1 DEF Invitation
    <2>3. inv' = [inv EXCEPT ![i] = row] /\ UNCHANGED <<member, past, uses, cache, lapse>> /\ Done(h)
      BY <1>3, <1>0 DEF Revoke, TypeOK
    <2> HIDE DEF row
    <2>4. \A k \in Invitations : inv'[k] = IF k = i THEN row ELSE inv[k]
      BY <2>3, <1>0 DEF TypeOK
    <2>5. TypeOK' /\ CallsOK'
      <3>1. TypeOK'
        BY <2>1, <2>3, <1>0 DEF TypeOK, Done
      <3>2. SameExpiry
        BY <2>1, <2>2, <2>4 DEF SameExpiry
      <3>. QED
        BY <3>1, <3>2, <2>3, <1>0, EndedCalls
    <2>6. UsesWithinLimit'
      BY <2>1, <2>2, <2>3, <2>4, <1>0 DEF BooksOK, UsersOf, UsesWithinLimit
    <2>7. BooksOK'
      BY <2>3, <2>6, <1>0 DEF BooksOK, UsersOf, UsedBy, MembershipsAreInvited
    <2>. QED
      BY <2>3, <2>5, <2>7, <1>0, RecentFrame DEF TeamInv
  <1>4. ASSUME NEW i \in Invitations, NEW role \in Roles, NEW maxUses \in 1..MaxUses,
               NEW life \in (-Late)..MaxLife, CreateInvite(h, i, role, maxUses, life)
        PROVE  TeamInv'
    <2> DEFINE row == [role |-> role, maxUses |-> maxUses, used |-> 0,
                       left |-> life, status |-> "active"]
    <2>1. row \in Invitation /\ row # None /\ row.used = 0 /\ row.maxUses \in Nat /\ inv[i] = None
      BY <1>4, LateIsNat DEF Invitation, CreateInvite
    <2>2. inv' = [inv EXCEPT ![i] = row] /\ UNCHANGED <<member, past, uses, cache, lapse>> /\ Done(h)
      BY <1>4 DEF CreateInvite
    <2> HIDE DEF row
    <2>3. \A k \in Invitations : inv'[k] = IF k = i THEN row ELSE inv[k]
      BY <2>2, <1>0 DEF TypeOK
    <2>4. TypeOK' /\ CallsOK'
      <3>1. TypeOK'
        BY <2>1, <2>2, <1>0 DEF TypeOK, Done
      <3>2. SameExpiry
        BY <2>1, <2>3 DEF SameExpiry
      <3>. QED
        BY <3>1, <3>2, <2>2, <1>0, EndedCalls
    <2>5. UsersOf(i) = {} /\ Cardinality({}) = 0
      BY <2>1, <1>0, FS_EmptySet DEF BooksOK, UsesWithinLimit
    <2>6. UsesWithinLimit'
      <3> SUFFICES ASSUME NEW k \in Invitations
                   PROVE  IF inv'[k] = None THEN UsersOf(k) = {}
                          ELSE /\ Cardinality(UsersOf(k)) = inv'[k].used
                               /\ inv'[k].used <= inv'[k].maxUses
        BY <2>2 DEF UsesWithinLimit, UsersOf
      <3>1. CASE k = i
        BY <3>1, <2>1, <2>3, <2>5
      <3>2. CASE k # i
        BY <3>2, <2>3, <1>0 DEF BooksOK, UsesWithinLimit
      <3>. QED
        BY <3>1, <3>2
    <2>7. BooksOK'
      BY <2>2, <2>6, <1>0 DEF BooksOK, UsersOf, UsedBy, MembershipsAreInvited
    <2>. QED
      BY <2>2, <2>4, <2>7, <1>0, RecentFrame DEF TeamInv
  <1>. QED
    BY <1>1, <1>2, <1>3, <1>4 DEF Manage

(***************************************************************************)
(* The steps of an acceptance.                                             *)
(***************************************************************************)

\* One more use: it is counted once for the invitation and once for the user.
LEMMA UseIsCounted ==
    ASSUME TypeOK, BooksOK, NEW i \in Invitations, NEW u \in Users, <<i, u>> \notin uses,
           uses' = uses \cup {<<i, u>>}
    PROVE  /\ \A k \in Invitations : IsFiniteSet(UsersOf(k)')
           /\ \A v \in Users : IsFiniteSet(UsedBy(v)')
           /\ \A k \in Invitations : k # i => UsersOf(k)' = UsersOf(k)
           /\ \A v \in Users : v # u => UsedBy(v)' = UsedBy(v)
           /\ Cardinality(UsersOf(i)') = Cardinality(UsersOf(i)) + 1
           /\ Cardinality(UsedBy(u)') = Cardinality(UsedBy(u)) + 1
  <1>1. /\ \A k \in Invitations : UsersOf(k)' = IF k = i THEN UsersOf(k) \cup {u} ELSE UsersOf(k)
        /\ \A v \in Users : UsedBy(v)' = IF v = u THEN UsedBy(v) \cup {i} ELSE UsedBy(v)
        /\ u \notin UsersOf(i) /\ i \notin UsedBy(u)
    BY DEF UsersOf, UsedBy
  <1>2. /\ IsFiniteSet(UsersOf(i) \cup {u})
        /\ Cardinality(UsersOf(i) \cup {u}) = Cardinality(UsersOf(i)) + 1
    BY <1>1, FS_AddElement DEF BooksOK
  <1>3. /\ IsFiniteSet(UsedBy(u) \cup {i})
        /\ Cardinality(UsedBy(u) \cup {i}) = Cardinality(UsedBy(u)) + 1
    BY <1>1, FS_AddElement DEF BooksOK
  <1>. QED
    BY <1>1, <1>2, <1>3 DEF BooksOK

LEMMA AcceptInvitationStep ==
    ASSUME TeamInv, NEW h \in Handlers, AcceptInvitation(h)
    PROVE  TeamInv'
  <1> USE NoneIsNothing
  <1>0. TypeOK /\ CallsOK /\ RecentOK /\ BooksOK
    BY DEF TeamInv
  <1>1. PICK i \in Invitations, u \in Users, role \in Roles :
        /\ inv[i] # None /\ Usable(i) /\ ~Conflict(i, u) /\ Done(h)
        /\ inv' = Count(i) /\ uses' = uses \cup {<<i, u>>}
        /\ member' = [member EXCEPT ![u] = role]
        /\ lapse' = [lapse EXCEPT ![u] = IF role = "manager" THEN 0 ELSE @]
        /\ UNCHANGED <<past, cache>>
    BY AtCall DEF AcceptInvitation, Accepts, Consume, CallOK, Call
  <1> DEFINE row == [inv[i] EXCEPT !.used = @ + 1]
  <1>2. /\ inv[i] # None /\ inv[i] \in Invitation /\ inv[i].used < inv[i].maxUses
        /\ inv[i].used \in Nat /\ inv[i].maxUses \in Nat
        /\ member[u] = None /\ <<i, u>> \notin uses
    BY <1>0, <1>1 DEF Usable, Unspent, Conflict, TypeOK, Invitation
  <1>3. row \in Invitation /\ row # None /\ row.used = inv[i].used + 1 /\ row.maxUses = inv[i].maxUses
        /\ row.left = inv[i].left
    <2>1. PICK n \in Nat : n = inv[i].used + 1
      BY <1>2
    <2>2. /\ [inv[i] EXCEPT !.used = n] \in Invitation /\ [inv[i] EXCEPT !.used = n].used = n
          /\ [inv[i] EXCEPT !.used = n].maxUses = inv[i].maxUses
          /\ [inv[i] EXCEPT !.used = n].left = inv[i].left
      BY <1>2 DEF Invitation
    <2>. QED
      BY <2>1, <2>2
  <1>4. /\ inv' = [inv EXCEPT ![i] = row]
        /\ \A k \in Invitations : inv'[k] = IF k = i THEN row ELSE inv[k]
    BY <1>0, <1>1 DEF Count, TypeOK
  <1> HIDE DEF row
  <1>5. /\ lapse' \in [Users -> 0..(Horizon + 1)] /\ \A v \in Users : lapse'[v] <= lapse[v]
        /\ \A v \in Users : lapse'[v] = IF v = u /\ role = "manager" THEN 0 ELSE lapse[v]
    BY <1>0, <1>1, HorizonIsNat DEF TypeOK
  <1>6. calls' \in [Handlers -> Call \cup {None}] /\ CallsOK'
    <2>1. SameExpiry
      BY <1>3, <1>4 DEF SameExpiry
    <2>. QED
      BY <2>1, <1>0, <1>1, <1>5, CallsFrame DEF Done
  <1>7. \A v \in Users : member'[v] = IF v = u THEN role ELSE member[v]
    BY <1>0, <1>1 DEF TypeOK
  <1>8. TypeOK'
    BY <1>0, <1>1, <1>3, <1>4, <1>5, <1>6 DEF TypeOK
  <1>9. RecentOK'
    <2> SUFFICES ASSUME NEW v \in Users
                 PROVE  (member'[v] = "manager" => lapse'[v] = 0) /\ EntryOK(v)'
      BY DEF RecentOK
    <2>1. member'[v] = "manager" => lapse'[v] = 0
      BY <1>0, <1>5, <1>7 DEF RecentOK
    <2>2. EntryOK(v)'
      <3> SUFFICES ASSUME cache[v] # None, cache[v].role = "manager"
                   PROVE  lapse'[v] + cache[v].left <= CacheTTL + MaxRequest
        BY <1>1 DEF EntryOK
      <3>1. lapse[v] + cache[v].left <= CacheTTL + MaxRequest
        BY <1>0 DEF RecentOK, EntryOK
      <3>2. cache[v].left \in Nat /\ lapse[v] \in Int /\ lapse'[v] \in Int /\ lapse'[v] <= lapse[v]
        BY <1>0, <1>5, HorizonIsNat DEF TypeOK, Entry
      <3>. QED
        BY <3>1, <3>2, TimeIsNat
    <2>. QED
      BY <2>1, <2>2
  <1>10. UsesWithinLimit'
    <2> SUFFICES ASSUME NEW k \in Invitations
                 PROVE  IF inv'[k] = None THEN UsersOf(k)' = {}
                        ELSE /\ Cardinality(UsersOf(k)') = inv'[k].used
                             /\ inv'[k].used <= inv'[k].maxUses
      BY DEF UsesWithinLimit
    <2>1. CASE k = i
      <3>1. Cardinality(UsersOf(i)) = inv[i].used
        BY <1>0, <1>2 DEF BooksOK, UsesWithinLimit
      <3>2. Cardinality(UsersOf(i)') = row.used
        BY <3>1, <1>0, <1>1, <1>2, <1>3, UseIsCounted
      <3>. QED
        BY <3>2, <2>1, <1>2, <1>3, <1>4
    <2>2. CASE k # i
      BY <2>2, <1>0, <1>1, <1>2, <1>4, UseIsCounted DEF BooksOK, UsesWithinLimit
    <2>. QED
      BY <2>1, <2>2
  <1>11. MembershipsAreInvited'
    <2> SUFFICES ASSUME NEW v \in Users
                 PROVE  Cardinality(UsedBy(v)') + (IF v = Owner THEN 1 ELSE 0)
                           = past[v].rows + (IF member'[v] = None THEN 0 ELSE 1)
      BY <1>1 DEF MembershipsAreInvited
    <2>1. /\ Cardinality(UsedBy(v)) + (IF v = Owner THEN 1 ELSE 0)
               = past[v].rows + (IF member[v] = None THEN 0 ELSE 1)
          /\ IsFiniteSet(UsedBy(v)) /\ past[v].rows \in Nat
      BY <1>0 DEF BooksOK, MembershipsAreInvited, TypeOK, Past
    <2>2. Cardinality(UsedBy(v)) \in Nat
      BY <2>1, FS_CardinalityType
    <2>3. CASE v = u
      <3>1. member[v] = None /\ member'[v] # None
        BY <2>3, <1>1, <1>2, <1>7
      <3>2. Cardinality(UsedBy(v)') = Cardinality(UsedBy(v)) + 1
        BY <2>3, <1>0, <1>1, <1>2, UseIsCounted
      <3>. QED
        BY <3>1, <3>2, <2>1, <2>2
    <2>4. CASE v # u
      <3>1. member'[v] = member[v] /\ UsedBy(v)' = UsedBy(v)
        BY <2>4, <1>0, <1>1, <1>2, <1>7, UseIsCounted
      <3>. QED
        BY <3>1, <2>1
    <2>. QED
      BY <2>3, <2>4
  <1>12. BooksOK'
    BY <1>0, <1>1, <1>2, <1>10, <1>11, UseIsCounted DEF BooksOK
  <1>. QED
    BY <1>6, <1>8, <1>9, <1>12 DEF TeamInv

LEMMA AcceptStep ==
    ASSUME TeamInv, NEW h \in Handlers, Accept(h)
    PROVE  TeamInv'
  <1> USE TimeIsNat, NoneIsNothing
  <1>0. TypeOK
    BY DEF TeamInv
  <1>1. ASSUME NEW u \in Users, StartAccept(h, u) PROVE TeamInv'
    <2> DEFINE c == [op |-> "accept", user |-> u, age |-> 0, step |-> "find", role |-> None, inv |-> None,
                     inTime |-> FALSE, waited |-> 0]
    <2>1. c \in Call /\ CallOK(c)
      BY DEF Call, CallOK
    <2>. QED
      BY <1>1, <2>1, OnlyCalls DEF StartAccept, Begin
  <1>2. ASSUME NEW i \in Invitations, FindInvitation(h, i) PROVE TeamInv'
    <2>1. calls[h] \in Call /\ calls[h].step = "find" /\ CallOK(calls[h])
      BY <1>2, AtCall DEF FindInvitation
    <2>2. UNCHANGED <<member, past, inv, uses, cache, lapse>>
      BY <1>2 DEF FindInvitation
    <2>3. ASSUME NEW d \in ClockErrors, Valid(i, d),
                 calls' = [calls EXCEPT ![h].step = "read", ![h].inv = i, ![h].role = inv[i].role]
          PROVE  TeamInv'
      <3>1. PICK role \in Roles : role = inv[i].role
        BY <2>3, <1>0 DEF Valid, TypeOK, Invitation
      <3> DEFINE c == [calls[h] EXCEPT !.step = "read", !.inv = i, !.role = role]
      <3>2. c \in Call
        BY <2>1 DEF Call
      <3>3. CallOK(c)
        BY <2>1, <2>3 DEF Call, CallOK, Valid
      <3>4. calls' = [calls EXCEPT ![h] = c]
        BY <1>0, <2>3, <3>1 DEF TypeOK
      <3>. QED
        BY <2>2, <3>2, <3>3, <3>4, OnlyCalls
    <2>4. CASE Done(h)
      BY <2>2, <2>4, OnlyCalls DEF Done
    <2>. QED
      BY <1>2, <2>3, <2>4 DEF FindInvitation
  <1>4. CASE ReadNow(h)
    <2>1. /\ calls[h] \in Call /\ calls[h].step = "read" /\ CallOK(calls[h])
          /\ UNCHANGED <<member, past, inv, uses, cache, lapse>>
      BY <1>4, AtCall DEF ReadNow
    <2>2. /\ calls[h].inv \in Invitations /\ calls[h].role \in Roles /\ calls[h].waited = 0
          /\ calls[h].op = "accept" /\ inv[calls[h].inv] # None
          /\ inv[calls[h].inv].left \in Int
      BY <2>1, <1>0 DEF CallOK, TypeOK, Invitation
    <2>3. PICK d \in ClockErrors, open \in BOOLEAN :
             /\ open = InTime(calls[h].inv, d)
             /\ calls' = [calls EXCEPT ![h].step = "accept", ![h].inTime = open]
      <3>1. PICK d \in ClockErrors :
               calls' = [calls EXCEPT ![h].step = "accept", ![h].inTime = InTime(calls[h].inv, d)]
        BY <1>4 DEF ReadNow
      <3>2. InTime(calls[h].inv, d) \in BOOLEAN
        BY <2>2 DEF InTime, ClockErrors
      <3>. QED
        BY <3>1, <3>2
    <2> DEFINE c == [calls[h] EXCEPT !.step = "accept", !.inTime = open]
    <2>4. c \in Call
      BY <2>1 DEF Call
    <2>5. c.op = "accept" /\ c.step = "accept" /\ c.inv = calls[h].inv /\ c.role = calls[h].role
          /\ c.waited = 0 /\ c.inTime = open
      BY <2>1, <2>2 DEF Call
    <2>6. open => inv[calls[h].inv].left > -(MaxSkew + 0)
      <3>1. d \in Int /\ -MaxSkew <= d
        BY DEF ClockErrors
      <3>2. PICK left \in Int : left = inv[calls[h].inv].left
        BY <2>2
      <3>3. open => left > d
        BY <3>2, <2>3 DEF InTime
      <3>4. open => left > -(MaxSkew + 0)
        BY <3>1, <3>3
      <3>. QED
        BY <3>2, <3>4
    <2>7. CallOK(c)
      BY <2>2, <2>5, <2>6 DEF CallOK
    <2>8. calls' = [calls EXCEPT ![h] = c]
      BY <1>0, <2>3 DEF TypeOK
    <2>. QED
      BY <2>1, <2>4, <2>7, <2>8, OnlyCalls
  <1>3. CASE AcceptRollsBack(h) \/ AcceptTooLate(h)
    BY <1>3, OnlyCalls DEF AcceptRollsBack, AcceptTooLate, Done
  <1>. QED
    BY <1>1, <1>2, <1>3, <1>4, AcceptInvitationStep DEF Accept

(***************************************************************************)
(* Time.                                                                   *)
(***************************************************************************)

\* A tick makes requests older, entries shorter, and lapses longer by one at
\* most: each bound of the invariant keeps its distance.
LEMMA TickStep == TeamInv /\ Tick => TeamInv'
  <1> SUFFICES ASSUME TeamInv, Tick PROVE TeamInv'
    OBVIOUS
  <1> USE TimeIsNat, NoneIsNothing, HorizonIsNat
  <1>0. TypeOK /\ CallsOK /\ RecentOK /\ BooksOK
    BY DEF TeamInv
  <1>1. ASSUME NEW h \in Handlers, calls[h] # None
        PROVE  /\ calls[h] \in Call /\ calls'[h] \in Call
               /\ calls'[h].op = calls[h].op /\ calls'[h].step = calls[h].step
               /\ calls'[h].user = calls[h].user /\ calls'[h].role = calls[h].role
               /\ calls'[h].inv = calls[h].inv /\ calls'[h].age = calls[h].age + 1
               /\ calls'[h].inTime = calls[h].inTime /\ calls[h].age \in 0..MaxRequest
               /\ calls'[h].waited = IF calls[h].step = "accept" THEN calls[h].waited + 1
                                     ELSE calls[h].waited
               /\ calls[h].waited \in 0..MaxWait
    <2>1. /\ calls[h] \in Call /\ calls[h].age < MaxRequest /\ calls'[h] = Older(calls[h])
          /\ calls[h].step = "accept" => calls[h].waited < MaxWait
      BY <1>1, <1>0 DEF Tick, TypeOK, At
    <2>2. PICK n \in 0..MaxRequest : n = calls[h].age + 1
      BY <2>1 DEF Call
    <2>3. PICK m \in 0..MaxWait :
             m = IF calls[h].step = "accept" THEN calls[h].waited + 1 ELSE calls[h].waited
      BY <2>1 DEF Call
    <2>4. calls'[h] = [calls[h] EXCEPT !.age = n, !.waited = m]
      BY <2>1, <2>2, <2>3 DEF Older, Call
    <2>5. [calls[h] EXCEPT !.age = n, !.waited = m] \in Call
      BY <2>1 DEF Call
    <2>. QED
      BY <2>1, <2>2, <2>3, <2>4, <2>5 DEF Call
  <1>2. calls' \in [Handlers -> Call \cup {None}]
    BY <1>1 DEF Tick
  <1>3. ASSUME NEW u \in Users
        PROVE  /\ lapse[u] \in 0..(Horizon + 1) /\ lapse'[u] \in 0..(Horizon + 1)
               /\ lapse'[u] <= lapse[u] + 1
               /\ member[u] = "manager" => lapse'[u] = 0
    BY <1>0 DEF Tick, TypeOK
  <1>4. lapse' \in [Users -> 0..(Horizon + 1)]
    BY <1>3 DEF Tick
  <1>5. ASSUME NEW u \in Users, cache'[u] # None
        PROVE  /\ cache[u] # None /\ cache'[u] \in Entry /\ cache'[u].role = cache[u].role
               /\ cache[u].left \in Nat /\ cache'[u].left = cache[u].left - 1
    <2>1. /\ cache[u] # None /\ cache[u] \in Entry /\ cache[u].left # 0
          /\ cache'[u] = [cache[u] EXCEPT !.left = @ - 1]
      BY <1>5, <1>0 DEF Tick, TypeOK
    <2>2. PICK n \in Nat : n = cache[u].left - 1
      BY <2>1 DEF Entry
    <2>3. [cache[u] EXCEPT !.left = n] \in Entry
      BY <2>1 DEF Entry
    <2>. QED
      BY <2>1, <2>2, <2>3 DEF Entry
  <1>6. cache' \in [Users -> Entry \cup {None}]
    BY <1>5 DEF Tick
  <1>7. ASSUME NEW i \in Invitations
        PROVE  /\ inv[i] = None <=> inv'[i] = None
               /\ inv[i] # None => /\ inv'[i] \in Invitation /\ inv'[i].used = inv[i].used
                                   /\ inv'[i].maxUses = inv[i].maxUses
                                   /\ inv[i].left \in Int /\ inv'[i].left = Sooner(inv[i].left)
    <2>1. CASE inv[i] = None
      BY <2>1 DEF Tick
    <2>2. CASE inv[i] # None
      <3>1. inv[i] \in Invitation /\ inv'[i] = [inv[i] EXCEPT !.left = Sooner(@)]
        BY <2>2, <1>0 DEF Tick, TypeOK
      <3>2. PICK n \in Int : n = Sooner(inv[i].left)
        BY <3>1 DEF Sooner, Invitation
      <3>3. [inv[i] EXCEPT !.left = n] \in Invitation
        BY <3>1 DEF Invitation
      <3>4. /\ inv'[i].used = inv[i].used /\ inv'[i].maxUses = inv[i].maxUses
            /\ inv[i].left \in Int /\ inv'[i].left = Sooner(inv[i].left)
        BY <3>1 DEF Invitation
      <3>. QED
        BY <2>2, <3>1, <3>2, <3>3, <3>4
    <2>. QED
      BY <2>1, <2>2
  <1>8. inv' \in [Invitations -> Invitation \cup {None}]
    BY <1>7 DEF Tick
  <1>9. TypeOK'
    BY <1>0, <1>2, <1>4, <1>6, <1>8 DEF Tick, TypeOK
  <1>10. CallsOK'
    <2> SUFFICES ASSUME NEW h \in Handlers, calls'[h] # None PROVE CallOK(calls[h])'
      BY DEF CallsOK
    <2>1. calls[h] # None /\ CallOK(calls[h])
      BY <1>0 DEF Tick, CallsOK
    <2>2. calls[h].user \in Users
      BY <2>1, <1>1 DEF Call
    <2> DEFINE c == calls[h]
    <2>3. CASE c.step = "accept" /\ c.inTime
      <3>1. /\ c.inv \in Invitations /\ inv[c.inv] # None /\ c.waited \in 0..MaxWait
            /\ inv[c.inv].left > -(MaxSkew + c.waited) /\ c.waited + 1 = calls'[h].waited
        BY <2>1, <2>3, <1>1 DEF CallOK
      <3>2. c.waited < MaxWait
        BY <2>1, <2>3 DEF Tick, At
      <3>3. inv[c.inv].left > -Late /\ inv[c.inv].left \in Int
        BY <3>1, <3>2, <1>7 DEF Late
      <3>4. inv'[c.inv].left = inv[c.inv].left - 1 /\ inv'[c.inv] # None
        BY <3>1, <3>3, <1>7 DEF Sooner
      <3>5. inv'[c.inv].left > -(MaxSkew + calls'[h].waited)
        BY <3>1, <3>3, <3>4
      <3>. QED
        BY <3>4, <3>5, <2>1, <2>2, <2>3, <1>1, <1>3 DEF CallOK
    <2>4. CASE ~(c.step = "accept" /\ c.inTime)
      <3>1. c.step \in {"read", "accept"} => c.inv \in Invitations /\ inv'[c.inv] # None
        BY <2>1, <1>7 DEF CallOK
      <3>. QED
        BY <3>1, <2>1, <2>2, <2>4, <1>1, <1>3 DEF CallOK
    <2>. QED
      BY <2>3, <2>4
  <1>11. RecentOK'
    <2> SUFFICES ASSUME NEW u \in Users
                 PROVE  (member[u] = "manager" => lapse'[u] = 0) /\ EntryOK(u)'
      BY DEF RecentOK, Tick
    <2>1. EntryOK(u)'
      <3> SUFFICES ASSUME cache'[u] # None, cache'[u].role = "manager"
                   PROVE  lapse'[u] + cache'[u].left <= CacheTTL + MaxRequest
        BY DEF EntryOK
      <3>1. lapse[u] + cache[u].left <= CacheTTL + MaxRequest
        BY <1>0, <1>5 DEF RecentOK, EntryOK
      <3>. QED
        BY <3>1, <1>3, <1>5
    <2>. QED
      BY <2>1, <1>3
  <1>12. UsesWithinLimit'
    <2> SUFFICES ASSUME NEW k \in Invitations
                 PROVE  IF inv'[k] = None THEN UsersOf(k) = {}
                        ELSE /\ Cardinality(UsersOf(k)) = inv'[k].used
                             /\ inv'[k].used <= inv'[k].maxUses
      BY DEF UsesWithinLimit, UsersOf, Tick
    <2>. QED
      BY <1>0, <1>7 DEF BooksOK, UsesWithinLimit
  <1>13. BooksOK'
    BY <1>0, <1>12 DEF BooksOK, Tick, UsersOf, UsedBy, MembershipsAreInvited
  <1>. QED
    BY <1>9, <1>10, <1>11, <1>13 DEF TeamInv

LEMMA TeamInvStep == TeamInv /\ [Next]_vars => TeamInv'
  <1> SUFFICES ASSUME TeamInv, [Next]_vars PROVE TeamInv'
    OBVIOUS
  <1>1. ASSUME NEW h \in Handlers, Fail(h) PROVE TeamInv'
    BY <1>1, OnlyCalls DEF Fail, Done
  <1>2. CASE UNCHANGED vars
    BY <1>2, RecentFrame, BooksFrame DEF vars, TeamInv, TypeOK, CallsOK, CallOK
  <1>. QED
    BY <1>1, <1>2, GuardStep, ManageStep, AcceptStep, TickStep DEF Next

THEOREM TeamInvariant == Spec => []TeamInv
  BY TeamInvInit, TeamInvStep, PTL DEF Spec

(***************************************************************************)
(* The theorems.                                                           *)
(***************************************************************************)

\* The rows, the cache and the requests stay well typed.
THEOREM TeamTypes == Spec => []TypeOK
  <1>1. TeamInv => TypeOK
    BY DEF TeamInv
  <1>. QED
    BY <1>1, TeamInvariant, PTL

\* However many requests accept an invitation together, it is used at most
\* max_uses times, and used_count says how many times.
THEOREM UsesLimited == Spec => []UsesWithinLimit
  <1>1. TeamInv => UsesWithinLimit
    BY DEF TeamInv, BooksOK
  <1>. QED
    BY <1>1, TeamInvariant, PTL

\* Each row of a member was paid for with one use of an invitation.
THEOREM MembersInvited == Spec => []MembershipsAreInvited
  <1>1. TeamInv => MembershipsAreInvited
    BY DEF TeamInv, BooksOK
  <1>. QED
    BY <1>1, TeamInvariant, PTL

\* The bound on how stale a role can be that a request acts on, for every life
\* of the cache entries.
THEOREM ManagersRecent == Spec => []OnlyRecentManagersAct
  <1>1. TeamInv => OnlyRecentManagersAct
    <2> SUFFICES ASSUME TeamInv, NEW h \in Handlers, ActsAs(h, "manage")
                 PROVE  lapse[calls[h].user] <= Horizon
      BY DEF OnlyRecentManagersAct
    <2> DEFINE c == calls[h]
    <2>1. c \in Call /\ lapse[c.user] <= CacheTTL + MaxRequest + c.age
      BY AtCall DEF ActsAs, CallOK
    <2>2. c.age \in 0..MaxRequest /\ c.user \in Users
      BY <2>1 DEF Call
    <2>3. lapse[c.user] \in Int
      BY <2>2, HorizonIsNat DEF TeamInv, TypeOK
    <2>. QED
      BY <2>1, <2>2, <2>3, TimeIsNat DEF Horizon
  <1>. QED
    BY <1>1, TeamInvariant, PTL

(***************************************************************************)
(* The refinement of InvitationBook.                                       *)
(***************************************************************************)

\* The terms of an invitation and whether it is closed, as the book sees them.
Limit == [i \in Invitations |-> IF inv[i] = None THEN None ELSE inv[i].maxUses]
Closed == {i \in Invitations : inv[i] # None /\ Over(i)}

\* A new row: the invitation gets its terms, and is closed if it expired long ago.
LEMMA OfferedOnce ==
    ASSUME TeamInv, NEW i \in Invitations, inv[i] = None,
           NEW row \in Invitation, inv' = [inv EXCEPT ![i] = row]
    PROVE  /\ Limit' = [Limit EXCEPT ![i] = row.maxUses]
           /\ Closed' \in {Closed, Closed \cup {i}}
  <1>1. row # None /\ inv \in [Invitations -> Invitation \cup {None}]
    BY NoneIsNothing DEF TeamInv, TypeOK
  <1>2. \A j \in Invitations : inv'[j] = IF j = i THEN row ELSE inv[j]
    BY <1>1
  <1>3. Limit' = [Limit EXCEPT ![i] = row.maxUses]
    BY <1>1, <1>2 DEF Limit
  <1>4. Closed' = IF row.status = "revoked" \/ row.left <= -Late THEN Closed \cup {i} ELSE Closed
    BY <1>1, <1>2 DEF Closed, Over
  <1>. QED
    BY <1>3, <1>4

\* A step that keeps the terms of every invitation and closes some, if any.
LEMMA TermsStay ==
    ASSUME TeamInv,
           \A j \in Invitations :
              /\ inv'[j] = None <=> inv[j] = None
              /\ inv[j] # None => inv'[j].maxUses = inv[j].maxUses /\ (Over(j) => Over(j)')
    PROVE  /\ Limit' = Limit /\ Closed \subseteq Closed'
           /\ Closed' \subseteq Invitations /\ \A j \in Closed' : Limit[j] # None
  <1>1. \A j \in Invitations : inv[j] # None => inv[j].maxUses # None
    BY NoneIsNothing DEF TeamInv, TypeOK, Invitation
  <1>2. Limit' = Limit
    BY DEF Limit
  <1>3. Closed \subseteq Closed'
    BY DEF Closed
  <1>4. \A j \in Closed' : Limit[j] # None
    BY <1>1 DEF Closed, Limit
  <1>. QED
    BY <1>2, <1>3, <1>4 DEF Closed

(* Requests that interleave at every query keep the book: an invitation    *)
(* that was revoked or is used up by the time of the transaction, or that  *)
(* expired longer ago than a transaction waits and a clock is behind,      *)
(* admits nobody, whatever its lookup saw; its terms never change and it   *)
(* never opens again.                                                      *)
THEOREM KeepsTheBook == Spec => ImplementsBook
  <1>1. Init => Book!Init
    BY DEF Init, Book!Init
  <1>2. TeamInv /\ [Next]_vars => [Book!Next]_(Book!vars)
    <2>. SUFFICES ASSUME TeamInv, [Next]_vars
                  PROVE  Book!Next \/ (Limit' = Limit /\ Closed' = Closed /\ uses' = uses)
      BY DEF Book!vars, Limit, Closed
    <2>1. CASE UNCHANGED <<inv, uses>>
      BY <2>1 DEF Limit, Closed, Over
    <2>2. ASSUME NEW S \in SUBSET Invitations, \A i \in S : Limit[i] # None,
                 Closed' = Closed \cup S, Limit' = Limit, uses' = uses
          PROVE  Book!Next
      BY <2>2 DEF Book!Next, Book!Close, Limit, Closed
    <2>3. ASSUME NEW h \in Handlers, NEW i \in Invitations, NEW role \in Roles,
                 NEW maxUses \in 1..MaxUses, NEW life \in (-Late)..MaxLife,
                 CreateInvite(h, i, role, maxUses, life)
          PROVE  Book!Next
      <3>1. PICK row : row = [role |-> role, maxUses |-> maxUses, used |-> 0,
                              left |-> life, status |-> "active"]
        OBVIOUS
      <3>2. row \in Invitation /\ row.maxUses = maxUses
        BY <3>1, LateIsNat, TimeIsNat DEF Invitation
      <3>3. /\ Limit' = [Limit EXCEPT ![i] = maxUses]
            /\ Closed' \in {Closed, Closed \cup {i}}
            /\ Limit[i] = None /\ uses' = uses
        BY <2>3, <3>1, <3>2, OfferedOnce DEF CreateInvite, Limit
      <3>. QED
        BY <3>3 DEF Book!Next, Book!Offer, Limit, Closed
    <2>4. ASSUME NEW h \in Handlers, NEW i \in Invitations, Revoke(h, i)
          PROVE  Book!Next
      <3>1. \A j \in Invitations :
               /\ inv'[j] = None <=> inv[j] = None
               /\ inv[j] # None => inv'[j].maxUses = inv[j].maxUses /\ (Over(j) => Over(j)')
        BY <2>4, NoneIsNothing DEF Revoke, TeamInv, TypeOK, Invitation, Over
      <3>2. uses' = uses
        BY <2>4 DEF Revoke
      <3>. QED
        BY <2>2, <3>1, <3>2, TermsStay
    <2>5. CASE Tick
      <3>1. \A j \in Invitations :
               /\ inv'[j] = None <=> inv[j] = None
               /\ inv[j] # None => inv'[j].maxUses = inv[j].maxUses /\ (Over(j) => Over(j)')
        BY <2>5, NoneIsNothing, LateIsNat DEF Tick, TeamInv, TypeOK, Invitation, Over, Sooner
      <3>2. uses' = uses
        BY <2>5 DEF Tick
      <3>. QED
        BY <2>2, <3>1, <3>2, TermsStay
    <2>6. ASSUME NEW h \in Handlers, AcceptInvitation(h)
          PROVE  Book!Next
      <3>1. PICK i \in Invitations, u \in Users : i = calls[h].inv /\ u = calls[h].user
        BY <2>6, AtCall DEF AcceptInvitation, CallOK, Call
      <3>2. /\ inv[i] # None /\ Usable(i) /\ <<i, u>> \notin uses
            /\ inv' = [inv EXCEPT ![i].used = @ + 1] /\ uses' = uses \cup {<<i, u>>}
        BY <2>6, <3>1, AtCall DEF AcceptInvitation, Accepts, CallOK, Consume, Conflict, Count
      <3>3. ~Over(i)
        <4>1. /\ calls[h] \in Call /\ inv[i].left > -(MaxSkew + calls[h].waited)
              /\ inv[i] \in Invitation
          BY <2>6, <3>1, <3>2, AtCall
             DEF AcceptInvitation, Accepts, Consume, CallOK, TeamInv, TypeOK
        <4>2. inv[i].left > -Late
          <5>1. calls[h].waited \in 0..MaxWait /\ inv[i].left \in Int
            BY <4>1 DEF Call, Invitation
          <5>. QED
            BY <4>1, <5>1, TimeIsNat DEF Late
        <4>3. inv[i].left \in Int
          BY <4>1 DEF Invitation
        <4>. QED
          BY <4>2, <4>3, <3>2, LateIsNat DEF Over, Usable
      <3>4. \A j \in Invitations :
               /\ inv'[j] = None <=> inv[j] = None
               /\ inv[j] # None => inv'[j].maxUses = inv[j].maxUses /\ (Over(j)' <=> Over(j))
        <4>1. PICK n \in Nat : n = inv[i].used
          BY <3>2 DEF TeamInv, TypeOK, Invitation
        <4>2. PICK m \in Nat : m = n + 1
          BY <4>1
        <4>3. inv' = [inv EXCEPT ![i].used = m]
          BY <3>2, <4>1, <4>2
        <4>. QED
          BY <3>2, <4>3, NoneIsNothing DEF TeamInv, TypeOK, Invitation, Over
      <3>5. Limit' = Limit /\ Closed' = Closed
        BY <3>4 DEF Limit, Closed
      <3>6. /\ Limit[i] # None /\ i \notin Closed
            /\ Cardinality(UsersOf(i)) < Limit[i]
        BY <3>2, <3>3, NoneIsNothing
           DEF Usable, Unspent, Limit, Closed, TeamInv, BooksOK, UsesWithinLimit, TypeOK, Invitation
      <3>. QED
        <4>1. Book!AdmittedBy(i) = UsersOf(i)
          BY DEF Book!AdmittedBy, UsersOf
        <4>2. Book!Admit(i, u)
          <5>1. Book!Admit(i, u) <=>
                   /\ Limit[i] # None /\ i \notin Closed
                   /\ <<i, u>> \notin uses /\ Cardinality(Book!AdmittedBy(i)) < Limit[i]
                   /\ uses' = uses \cup {<<i, u>>}
                   /\ Limit' = Limit /\ Closed' = Closed
            <6>1. \A S : Book!Cardinality(S) = Cardinality(S)
              BY DEF Book!Cardinality, Cardinality
            <6>. QED
              BY <6>1 DEF Book!Admit, Limit, Closed
          <5>. QED
            BY <3>2, <3>5, <3>6, <4>1, <5>1
        <4>. QED
          BY <4>2 DEF Book!Next
    <2>. QED
      BY <2>1, <2>3, <2>4, <2>5, <2>6
         DEF Next, vars, Guard, StartGuarded, Begin, CacheHit, CacheMiss, SelectMember, FillCache,
             Manage, Leave, Remove, Accept, StartAccept, FindInvitation, ReadNow,
             AcceptRollsBack, AcceptTooLate, Fail
  <1>. QED
    BY <1>1, <1>2, TeamInvariant, PTL DEF Spec, ImplementsBook, Book!Spec
=============================================================================
