# Tourna in TLA+

Specifications of the parts of Tourna in which several requests, workers,
browsers and stores have to agree: the session store and the browser session on
top of it, direct uploads, email verification, the access to a team, the endless
lists, signups with the ids and mails they need, and the commands that seed a
database. Each module is a translation of the code it names;
`PROJECT.json` maps every definition to the lines it stands for.

Paths below are relative to the repository. `packages/redis` is short for
`packages/redis/src`, and likewise for the other packages and applications.

## 1. The system

Tourna is a tournament platform: a web application (`apps/web`, Next.js) that
talks to an API (`apps/api`, NestJS), a worker (`apps/worker`, BullMQ), and
the packages both share. State lives in PostgreSQL, Redis and an S3 store.
API and worker processes keep none, so there may be several of each, and every
`await` is a place where another request runs.

| component | state | operations | interacts with | what is hard |
| --- | --- | --- | --- | --- |
| session store (`packages/redis`, `features/session`) | `session:<id>`, `refresh:<hash>`, the index `user_sessions:<user>` | create, rotate, revoke, list: one Lua script each | called by the auth service of the API | racing refreshes, lost replies, clocks of hosts against the clock of Redis |
| authentication API (`apps/api`, `auth`) | none of its own | login, signup, refresh, logout, access token guard | session store, `users`, email verification | a reply lost after the store has changed |
| direct uploads (`packages/storage`, `features/upload`) | upload record and expiry index in Redis, temporary and final objects in S3 | presign, finalize (API), cleanup (worker) | client PUTs to S3, the queue starts the cleanup | eight awaits, two stores, three clocks, sweeps beside requests |
| email verification (`packages/redis`, `apps/api`) | a key per token, a key per user, `users.email_verified` | create, consume | job queue (mail), the user's click | reads that are old when the write happens |
| team membership and invitations (`apps/api`, `team`, `authorization`) | `team_memberships`, `team_invitations`, `team_invitation_uses`, cached memberships in Redis | accept, invite, revoke, leave, remove, guard | PostgreSQL, cache | a cache that nothing invalidates, the last use of an invitation |
| web session (`apps/web`, `lib/api/auth`) | cookies of a browser | request with refresh, explicit refresh, logout | auth API | tabs that refresh with the same cookie |
| endless lists (`packages/db`, `pagination`; explorers and panels of `apps/web`) | rows on the screen, query, cursors | search, scroll, pages forwards and back | listings of teams, users, invitations | ties, precision of the cursor, rows that come between pages, answers that overtake each other |
| ids of the database (`generate_snowflake_id()`) | a sequence of 4096 numbers | an id per inserted row | every table | clock and sequence are read one after the other |
| accounts and profiles (`apps/api`, `auth`, `user`, `profile`) | `users` | signup, edit | ids, session store, mails | addresses and nicknames found free and inserted later |
| job queue and worker (`packages/queue`, `apps/worker`) | BullMQ queues in Redis | enqueue, process, retry, schedule | mails, cleanup | at-least-once delivery, workers that die |
| schema and seeding (`packages/db`, `migrations`; `packages/seeding`) | the tables of a tournament | get or insert each row of a fixture | PostgreSQL | no transaction, commands that die or run together, tables without a unique key |
| API response cache (`apps/api`, `cache`) | cached responses | intercept, invalidate | Redis | a fill that overtakes an invalidation |
| abilities, Redis engine, email rendering, contracts, UI | none that is shared | | | |

What makes each of them correct:

* **Sessions.** One login has at most one live session; a refresh token is
  used once; what ended stays ended; a session, its token and its index entry
  tell the same story; races and refusals cut no client off from a session that is
  alive, and a lost reply or a failing handler from one at most.
* **Uploads.** What the client was promised (finalize until `expiresAt`)
  holds whatever the cleanup does; nothing is deleted that has no copy and is
  not expired; a finalize sent after its upload was marked does nothing (one that
  overlaps the first may copy again, which the code does not prevent); what expired
  is swept.
* **Email verification.** The newest link works, a used one does not, and only
  the owner of a mailed link is verified.
* **Team access.** An invitation admits no more users than it says and nobody
  after it was revoked, nor after it expired but for the time a transaction waits and
  a clock is off; a lost role is acted on for a bounded time only.
* **Web session.** While a session is alive, the browser that opened it can
  reach it; a cookie is never replaced by an older one of its login.
* **Lists.** A list shows the rows of one search, the last one; scrolled to its
  end it has every row that was there, but for rows of one millisecond; the page
  before a page leaves nothing out between the two, and repeats of the page it was
  asked from only rows of its first millisecond.
* **Signups.** Ids are unique; an account has one address, one nickname and, when
  its signup is over, a session and a mail, but for one account per command that
  failed; each copy of a mail beyond the first has cost an attempt or a stall, and
  every mail job ends.
* **Seeding.** A command that succeeds leaves the whole fixture, once; after
  crashes and races one that runs alone succeeds.

## 2. The modules

| module | models | checked by | proved in |
| --- | --- | --- | --- |
| `Sessions` | the four scripts and the handlers that call them | `MCSessions` | `SessionsProofs` |
| `SessionLedger` | what a user of the session store sees of it | as a property of `Sessions` | `SessionsProofs` |
| `Uploads` | presign, finalize, cleanup | `MCUploads` | `UploadsProofs` |
| `UploadLedger` | what a client of the upload service sees of it | as a property of `Uploads` | `UploadsProofs` |
| `EmailVerification` | token store and service | `MCEmailVerification` | `EmailVerificationProofs` |
| `TeamAccess` | one team: members, invitations, guard and its cache | `MCTeamAccess` | `TeamAccessProofs` |
| `InvitationBook` | what the invitations of a team promise | as a property of `TeamAccess` | `TeamAccessProofs` |
| `WebSession` | cookies, tabs and the web server, over an instance of `SessionLedger` | `MCWebSession` | `WebSessionProofs` |
| `CursorPagination` | `paginateCursor` as operators on sets of rows | through `ListView` | `ListViewProofs` |
| `ListView` | the three endless lists of the web application | `MCListView` | `ListViewProofs` |
| `Snowflake` | `generate_snowflake_id()` | through `Signups` | `SignupsProofs` |
| `JobQueue` | the life of a mail job in BullMQ and the worker | through `Signups` | `SignupsProofs` |
| `Signups` | signup handlers, with `Snowflake` and an instance of `JobQueue` | `MCSignups` | `SignupsProofs` |
| `Schema` | keys, references and lookups of the tables of a fixture | through `Seeding` | `SeedingProofs` |
| `Seeding` | the seed commands | `MCSeeding` | `SeedingProofs` |

### Sessions

`session`, `refresh` and `userSessions` are the three kinds of keys, with the
moment Redis drops them in `exp`. A handler is in `calls` from the moment it
sends a command: `StartCreate`, `StartRotate`, `StartRevoke`, `StartList` read
the host's clock and mint ids; `CreateSession`, `RotateRefresh` (with
`RotateNotFound`), `RevokeSession` (with `RevokeGone`) and `GetUserSessions`
are the scripts, which Redis runs without interruption; `Reply` hands the
result over and issues the tokens; `Resend` is ioredis sending a command again
because the reply was lost; `Fail` is a handler that gives up. `Tick` passes
time and drops expired keys.

An id stands for a session and for the hash of the token minted with it. The
history variable `login` gives the first session of the chain an id belongs to.

`SessionLedger` has two variables, the live sessions and `login`, and three
actions, `Open`, `Rotate` and `End`. `Sessions` implements it with `live`
mapped to the ids that have a session key (`ImplementsLedger`).

### Uploads

Between two awaits of `createPresignedUpload`, `finalizeUpload` and
`cleanupOrphanUploads` lies one action, named after what it does: `IndexUpload`,
`StoreRecord`, `SignUrl`; `GetUpload` (or `Refused`), `HeadObject` (or
`ObjectMissing`), `CopyObject`, `DeleteTemporary`, `Unindex`, `MarkFinalized`;
`GetExpired`, `DeleteOrphan`, `RemoveUpload`. `Fail` ends a request and
`AbortSweep` a job anywhere. `PutObject` is the client, which may use its url
as often as it likes while it is valid. Each request and each sweep reads a
clock that may be off by `MaxSkew`. Objects are members of `tmp` and `final`;
their contents are left out.

`UploadLedger` is what is left when keys, sweeps, clocks and the order of awaits
are forgotten: an upload is promised, can be finalized until its object is kept or
its time is over, never again after that, is discarded only then, and is reported
finalized only when its object is kept. `Uploads` implements it (`ImplementsLedger`)
with `promised` mapped to the uploads whose url was handed out, `open` to those of
which record and index still say what the client was told, `over` to those whose
`expiresAt` may have passed on some host, `held` and `kept` to the two places of
objects, and `reported` to the records that were marked.

### EmailVerification

`tokenKey` and `userKey` are the two kinds of keys. A send is `StartSend`,
`ReadPrevious`, `StoreToken` (the MULTI transaction), `EnqueueMail`; a
verification is `StartVerify`, `ReadToken` or `InvalidToken`, `ConsumeToken`
(one DEL of both keys), `MarkVerified`. `Resend` repeats the last write,
`Fail` ends a request anywhere. `minted` records the order in which tokens
were stored and `used` the ones that were redeemed.

### TeamAccess

One team with its creator. A guarded request runs `StartGuarded`, then
`CacheHit`, or `CacheMiss`, `SelectMember`, `FillCache` (`getOrSet` of the
cache service), and then its handler: `Leave`, `Remove`, `CreateInvite` or
`Revoke`. Accepting is `StartAccept`, `FindInvitation` and the transaction:
`ReadNow` takes the time from the clock of the API host
(`team-invitation.repository.ts:113`), and the conditional UPDATE that follows may
wait for the row's lock. `AcceptInvitation`, `AcceptRollsBack` (a unique index is
violated) and `AcceptTooLate` (the invitation no longer qualifies) are its outcomes.
PostgreSQL judges status and count on the row that the transaction before it has
left, but the expiry by the time that was read before the wait (`inTime`). `lapse`
is a history: for how long a user has had no managing role. Times are kept relative,
so this model needs no last moment; `MaxRequest` bounds how long a request takes,
`MaxWait` how much of that a transaction waits, `MaxSkew` how far a clock is off.

Management routes ask for three different CASL actions that allow the same
roles, so there is one kind of guarded request for all of them, and the request
body (whom to remove, which invitation) is chosen when the handler runs,
because the guard does not look at it. `hasActiveTeamMembership` is the guard
of leaving only.

`InvitationBook` has the terms of the invitations, which of them are closed and
whom each has admitted; `Offer`, `Admit` and `Close` are all that happens to them.
`TeamAccess` implements it (`ImplementsBook`) with `closed` mapped to the
invitations that are revoked or that expired at least `Late == MaxWait + MaxSkew`
ago. Whatever a lookup has seen, the transaction that follows admits nobody through a
revoked or used up invitation, and nobody through an expired one but within `Late`
of its expiry: until then the code does admit, because its clock is behind or because
it has waited since it read it.

### WebSession

`cookies` are the access and the refresh cookie of a browser; a request in
`requests` carries the cookies it was sent with and, once it has renewed the
session, the new tokens in `auth`, which reach the browser with its response
(`Deliver`) or never (`DropResponse`). The kinds of requests are the entry points
of `apps/web`: route handlers and server components that need a session or can do
without, the explicit refresh, login and logout. The steps are the calls to the
API: `LoginSucceeds`, `RefreshSucceeds`, `RefreshRefused`, `CallSucceeds`,
`CallRejected` (the 401 that leads to one refresh and one retry), `CallFails`,
`RevokeSession`, `ApiUnreachable`. The session store is `SessionLedger`, so what
`Sessions` is proved to implement is what `WebSession` builds on.

`NoSessionStranded` says that no session is left alive and out of reach. The code
does strand sessions, in ways it accepts or cannot help; each is an event that sets
the history variable `disturbed`, and the property holds up to the first of them:
a server component that must renew the session (it cannot set cookies while it
renders, so the tokens it gets are always lost), a request that fails after it has
renewed, an explicit refresh that is refused and clears the cookies, a logout
without a valid access token, a login or a logout that overlaps other requests, and
lost messages. Racing tabs, retries and late responses are not among them: these
are what the property is about. The hazards behind those events are in the model,
but no property covers them: the code has them and no document promises otherwise,
and `PROJECT.json` says so at each.

### CursorPagination and ListView

The order of a listing (`created_at`, then `id`, both descending) is total, so a
page is a set of rows and `Paginate` selects it with quantifiers: the rows of the
query beyond the cursor, one more than `Limit` of them, and which cursors to
return. Times are in ticks of which `PerMs` make a millisecond; a cursor keeps
milliseconds. The condition of a cursor is a raw SQL OR that Kysely joins to the
conditions of the query without parentheses (`cursor-query.ts:46`), so the filters
bind to its first half only: `Selected` models what PostgreSQL evaluates, and
`ListMatchesSearch` says how little follows from it (a row of another search may
appear when its time is exactly that of a cursor).

`ListView` is a list over a table in which rows commit late (`Commit`). `LoadFirst`
and `LoadNext` send a request when the component would (`MayLoadFirst`,
`MayLoadNext`), `Serve` is the API, `Deliver` the state update, `Fail` an error. The
three components differ in what they do about answers in flight. `overlapped` is a
history: an answer that is in the list was crossed by another request that the
component neither prevents nor drops. After that the rows of two searches may be
mixed, and the properties make no claim.

### Snowflake, JobQueue and Signups

An id is a millisecond and a number of a cycling sequence, read by two statements
(`ReadClock`, `DrawNumber`), between which other connections run. `log` records
ids in the order of their numbers. `UniqueIds` needs `Timely`: a statement takes
its number before 4096 others have been taken since its millisecond began.

A job is taken, delivers its mail and completes (`Take`, `Deliver`, `Complete`), or
fails and is retried after a delay (`Fails`, `Backoff`), or its worker dies and the
job goes back to the queue (`Stalls`). `made` and `stalls` are what BullMQ counts,
`sent` counts mails that left.

A signup is `FindEmail`, `FindNickname` (repeated over the candidates),
`InsertReadsClock`, `InsertTakesNumber`, `Insert` or its refusal by a unique index,
`CreateSession`, `QueueMail` or `MailNotQueued`. Everything between is open to
other signups, and `Fail` ends a handler anywhere.

### Schema and Seeding

`Schema` lists, for each table a fixture fills, the unique keys and references that
the migrations declare and the columns by which `getOrInsert...` looks for a row.
`Scenario` is the fixture as a sequence of rows, translated from `dev.ts`. A command
does `Find` and, when there is nothing, `Insert` for one row after the other; `Die`
ends it anywhere, and may leave the INSERT it had sent on its way (step "adrift"),
which the database carries out, refuses or loses later (`Land`); `Start` begins
again, with another command at once and with the same one after that. Commands that
run, and INSERTs adrift, are what a command can race with. The id of a row is what it is in
the fixture (`name`) and how many such rows came before it (`copy`), so that two
insertions of one row are told apart; the code never looks into an id.

`FixtureFitsSchema` says what a fixture owes to the schema. `RowsAreOrdered`: names
differ, and a row points to rows before it, of the tables its references want.
`KeysTellRows`: neither a unique key nor the columns of a lookup take one row for
another. `LookupSeesKeys`: a lookup holds a whole unique key, if there is one, and
what it looks up by reference is in every key. TLC evaluates it for the fixture of
the run. It does not hold of every size one could ask for: with one user and one
team the owner of the team is its player, too, and has two rows that one lookup
cannot tell apart.

The fixture is not edited while it is seeded: nobody can log in as a fixture user
(the seeded password hash has not the form `verifyPassword` reads), and people who
register with the addresses or nicknames of a fixture before it is seeded are left
out. Two things met on the way are not properties of states: a seeded roster
(`users.slice(index, index + 2)`) names users who are not members of the team,
while `packages/db/docs/tournament-domain-schema-v1.md:695` calls a roster the users of a team who
take part; and seeding twice in parallel makes the tournament point to one of two
scoring profiles.

## 3. The runs

A run checks deadlock unless its cfg says otherwise. These do: the uploads and
email runs, whose clocks stop at `MaxClock` in a service without requests, and
`web_session`, the lists, `signups` and `seeding`, where sessions, rows, signups
and starts run out. Such a system is idle, not stuck.

| run | bounds | shows |
| --- | --- | --- |
| `sessions` | 2 users, 3 ids, 2 handlers, TTL 2, skew 1, clock 5, 1 lost reply, see below | one session per login, key, token and index in step, at most one stranded session per fault, finality, refinement of `SessionLedger` |
| `upload_races` | 1 upload, 2 requests, 2 workers, TTL 3, skew 1 | the promise of `expiresAt`, tracked records, no finalize after the mark, no early deletion, refinement of `UploadLedger` |
| `upload_sweeps` | 2 uploads, sweeps of 1 id | expired ids leave the index (liveness) |
| `upload_orphans` | 1 upload | **violated**: a temporary object that the cleanup has forgotten |
| `email_links` | 2 users, 3 tokens, 2 handlers, TTL 1 | newest link works, used link stays dead, verified by the own mail |
| `email_replace` | 1 user, 3 tokens | **violated**: two live tokens of one user |
| `team_access` | 2 users, 2 invitations for up to 2 uses, 2 handlers, TTL 1, requests of 1 tick of which all may be waiting, skew 1, see below | uses within the limit, every membership paid for by a use, bounded use of a lost role, refinement of `InvitationBook` |
| `web_session` | 2 tabs, 3 sessions or renewals, 1 lost message | no session stranded by races, retries and late responses; cookies never go back |
| `lists` | 3 rows (one commits late), 3 times of which two share a millisecond, 2 queries, 2 requests in flight, pages of 1 row, 1 failure | a list answers its search, misses rows of no other millisecond; the page before a page misses none and repeats one millisecond at most |
| `list_complete` | as `lists` | **violated**: a row that no page contains |
| `signups` | 2 handlers, 2 addresses with one nickname, 3 signups, 2 numbers, 2 milliseconds, 2 attempts, 1 stall, 1 failure | unique ids, complete accounts but for one per failure, counted resends, jobs that end (liveness) |
| `seeding` | 2 commands, 3 starts, the fixture of the end-to-end tests (4 users, 2 teams, 1 tag: 32 rows) | success means the exact fixture, refusals need a race (with a command or a late INSERT) |

**Why these bounds are enough to be interesting.** Two handlers are enough for
every race between two requests, and each property is about a pair of them
(a reader and the writer it missed). Three ids allow a login, a rotation and a
second rotation that races the first. A TTL of 2 with a clock of 3 to 5 lets a
session expire while a command about it is in flight. The uploads need a TTL
larger than `MaxDelay + 2 * MaxSkew`, as their assumption `UploadTimes` says:
the code's 15 minutes are far more than a presign takes and clocks differ.
Two tabs and three ids let one tab renew what the other still carries, twice.
Pages of one row make every row a boundary. A sequence of two numbers wraps at
every second id, and one candidate nickname makes every collision reach the random
suffix. The seeded fixture is the real one, not a smaller one.

Two runs join two kinds of instances that are too large to be multiplied, with a
state constraint that says so. `ManyOrLong` of `MCSessions` keeps states in which
either several users and all ids meet while clocks agree, up to time 3, or one user
has up to two ids and lives on to time 5 with clocks that differ. `SharedOrReused`
of `MCTeamAccess` keeps states in which either two users share one invitation
of one use, or the owner alone leaves and comes back, with one invitation of more
uses (the only way to meet the primary key of `team_invitation_uses`) or with two
that expire together. Two guarded requests race only when two users share the team
and no invitation that was made can admit any more.
States outside are not explored further, so the runs say nothing about them.

Bounds that are not in the code, all of them constants: `MaxClock`, `MaxMs`,
`MaxFaults`, `MaxDelay`, `MaxSkew`, `MaxRequest`, `MaxWait`, `MaxUses`, `MaxLife`
(longest life asked for an invitation), `MaxId`, `MaxSignups`, `MaxStarts`, `Troubled` (the
addresses whose mails meet errors and dying workers), `Late` (the row that commits
late), `Slots` (requests in flight), and the sets of ids, tokens, uploads,
invitations, rows, times, handlers, tabs, commands and cleaners. `MaxDelay` and `MaxRequest` are real assumptions on the deployment and
not only bounds on the search: the code sets no limit for how long a handler may
be suspended between reading a clock or a row and writing Redis. With a handler
that sleeps longer than that, the index of sessions may miss a session
(`IndexComplete`) and a stale role may be cached later (`OnlyRecentManagersAct`).
So are `MaxWait` and `MaxSkew` of `TeamAccess`: an invitation lets users in for as
long after its expiry as a transaction waits for its row and a clock is behind.
`Timely` of `Snowflake` is another: without it ids can repeat, and so they can when
the clock of PostgreSQL is set back, which the model excludes.

Model values are symmetric where the specification treats them alike; the
owner of the team is not in the symmetry set. No run of a liveness property
uses symmetry.

**Fairness.** Two specifications assume any. `FairSpec` of `Uploads`: time passes,
the scheduler starts a cleanup again and again (`packages/queue/schedulers.ts`,
every ten minutes), and a command that a sweep reaches over and over succeeds
sooner or later (strong fairness, because the job may abort before it and is
run again). `Spec` of `Signups`: the worker takes waiting jobs, works on them and
takes them up again after their delay (weak fairness of `MailWork`; BullMQ's worker
runs as long as the process). Failures and stalls are never fair, and neither are
clients, API requests and commands: they may never return.

### What the violated runs say

* `upload_orphans`: the record with the temporary key lives exactly
  `uploadTtlSeconds`, and the cleanup only looks at uploads older than that. It
  finds no record, removes the index entry and leaves the object in `tmp/`,
  which `docs/storage.md:43` says it deletes.
* `email_replace`: `create` reads the current token and replaces it in a later
  transaction; two of them in parallel leave two live tokens, against
  `packages/redis/README.md:491`. `email_links` shows that nothing worse follows
  from it: the newest link still works.
* `list_complete`: a cursor keeps milliseconds of a `created_at` with microseconds
  (`cursor-row.ts:26`), so the rest of a millisecond is skipped at the end of a page,
  against `cursor-pagination.spec.ts:93` and `packages/db/README.md:45`. `lists` shows
  that nothing else is lost.

Two more divergences need no run. The same cut of the cursor is in the way of going
back: `cursor-pagination.spec.ts:111` expects the page before a page, and finds it with
fixtures of whole milliseconds. With microseconds, that page may hold again the first
row of the asking page and others of its millisecond; with pages of one row it may be
one of them and nothing else, for ever. `PreviousPageIsNearest` says what is true instead:
repeated rows are of that millisecond only, and nothing is left out. The cause is the
one of `list_complete`.

And `get-user-sessions.lua:43` encodes an empty Lua table, which is the JSON object
`{}`, when all sessions in an index have expired but their entries have not been
removed. Line 7 of the script promises an array and the caller validates one, so this
listing throws (`ParseError` in `GetUserSessions`). It removes the entries first, so
the next one returns `[]`.

## 4. What is proved

Every invariant and action property of every passing run, and the three refinements,
are theorems: the runs show them on the small instances of section 3, the proofs for
every value of the constants that the assumptions allow. Sets of users, ids, rows,
requests, tabs, workers and commands are arbitrary, and so are the bounds that keep
the runs finite (`MaxClock`, `MaxMs`, `MaxFaults`, `MaxId`, `MaxSignups`,
`MaxStarts`, ...), so the theorems do not depend on where a run stops.

Each proof module goes the same way. None of the properties is inductive alone, so a
stronger invariant is stated, the initial states satisfy it, one lemma per action
shows that the action keeps it, and a step lemma gathers them. Properties and
refinements follow from it. The strengthened invariants were checked by TLC on the
instances of the runs before they were proved.

### `SessionsProofs`

| theorem | statement |
| --- | --- |
| `Invariance` | `Spec => []IInv` |
| `TypeCorrect` | `Spec => []TypeOK` |
| `Pairing` | `Spec => []SessionTokenPaired` |
| `SingleSession` | `Spec => []OneLivePerLogin` |
| `Listing` | `Spec => []IndexComplete` |
| `Ghosts` | `Spec => []GhostsAreExpired` |
| `Device` | `Spec => []DeviceFollowsLogin` |
| `StrandedCounted` | `Spec => []FaultsStrandOneEach` |
| `Finality` | `Spec => EndIsFinal` |
| `Refinement` | `Spec => ImplementsLedger` |

`OneLivePerLogin` needs that a token always leads to the session that was minted
with it (`KeysAgree`), because a rotation deletes the session its token names. A
create or rotate that is sent again needs to know what its first execution has left
(`CallsOK`): a resent create finds its session still there, since a session lives
longer than a command is under way (`MaxDelay < TTL`) and nobody has been told its
id; a resent rotate finds its token used up. `OnlyBornIds` says that ids are fresh
until their script runs. `GhostsAreExpired` and `IndexComplete` need that the score
of an entry is the expiry of its session and at most `MaxSkew` later than the moment
Redis drops the key (`ScoresAgree`). `StrandedOK` counts the sessions that are live and
that nobody has been told of nor will be: a script creates no session but the one it
reports (`StrandedFrame`), and a fault adds the session of one call at most
(`OneStranded`), also when that call is sent again. `IInv` is the conjunction.

### `UploadsProofs`

| theorem | statement |
| --- | --- |
| `UploadInvariant` | `Spec => []UploadInv` |
| `UploadTypes` | `Spec => []TypeOK` |
| `PromiseKept` | `Spec => []FinalizableUntilExpiry` |
| `PendingIsIndexed` | `Spec => []PendingIsTracked` |
| `LateFinalizeRefused` | `Spec => []LateFinalizeIsRefused` |
| `NothingDeletedEarly` | `Spec => DeletedWhenCopiedOrExpired` |
| `KeepsTheLedger` | `Spec => ImplementsLedger` |

The promise can be broken from two sides. A sweep may remove an upload whose time is
not over: it acts on a list that it read long ago, so `SweepsOK` says that what a
sweep holds is over for good, and that no presign is still at work on it. A presign
may hand out a promise that a sweep has already undone: `PresignOK` says that the
upload belongs to that request alone, that the request is at most `MaxDelay` old, and
what it has written so far. With clocks that differ by at most `MaxSkew`, an entry a
sweep finds expired was indexed at least `TTL - 2 * MaxSkew` ago, which is more than
`MaxDelay`: this is where the assumption on the times is used. `UploadsOK` relates
the two keys and the two objects of an upload, `FinalizeOK` says that a finalize past
the copy has its object in the final place, and that one which began after the mark
stands before its first read. For the refinement, each action is shown to be a step
of the ledger or to leave it alone; a presign that signs is `Promise`, a mark is
`Report`, and the removals of a sweep, the end of a record and the passage of time
are `Withdraw`.

### `EmailVerificationProofs`

| theorem | statement |
| --- | --- |
| `MailInvariant` | `Spec => []MailInv` |
| `MailTypes` | `Spec => []TypeOK` |
| `UserKeyLives` | `Spec => []UserKeyNamesLiveToken` |
| `NewestWorks` | `Spec => []NewestLinkWorks` |
| `VerifiedMailed` | `Spec => []VerifiedByMail` |
| `UsedStaysDead` | `Spec => UsedLinkStaysDead` |

A request that stores a token deletes the one it has read before, which may be out of
date, and it may do so twice. The newest link survives because what a request will
delete is always an older token of the same user (`SendOK`), where older means a lower
rank in the order of storing (`RanksOK`: every new token ranks above all others); and
because a token is known to one request only until it is mailed (`CallsOK`), so
nobody can use it or store it again. `KeysOK` says that a token key tells the owner
and the expiry the token was minted with, `MailsOK` that what is used was mailed and
what was mailed was stored.

### `TeamAccessProofs`

| theorem | statement |
| --- | --- |
| `TeamInvariant` | `Spec => []TeamInv` |
| `TeamTypes` | `Spec => []TypeOK` |
| `UsesLimited` | `Spec => []UsesWithinLimit` |
| `MembersInvited` | `Spec => []MembershipsAreInvited` |
| `ManagersRecent` | `Spec => []OnlyRecentManagersAct` |
| `KeepsTheBook` | `Spec => ImplementsBook` |

The age of a role is followed along its way: a request that has read it from the
table is as old as the role may be out of date (`CallOK`), a cached role is at most
the life of an entry and one request old (`EntryOK`), a request that found it there
adds its own age. That gives the bound `Horizon`, the life of a cache entry and two
requests, and it is exact: the run reaches it. The expiry of an invitation is
followed through the wait in the same way: one that was in time when the transaction
read the clock has expired at most `MaxSkew`, and the time waited since, ago
(`CallOK`), so `KeepsTheBook` finds it not yet closed. `BooksOK` counts: the uses of an
invitation are finite and as many as `used_count`, and the memberships a user has and
has had are as many as the uses that paid for them. The theorems on cardinalities of
`FiniteSetTheorems` carry it through the transaction, which inserts a use and a
membership together or neither.

### `WebSessionProofs`

| theorem | statement |
| --- | --- |
| `WebInvariant` | `Spec => []WebInv` |
| `WebTypes` | `Spec => []TypeOK` |
| `NoneStranded` | `Spec => []NoSessionStranded` |
| `CookiesAdvance` | `Spec => CookiesNeverGoBack` |
| `KeepsToTheLedger` | `Spec => Store!Spec` |

Ids are minted in order, and the store keeps alive at most the last session of a
login (`LedgerOK`). A session that a request has renewed is in that request and
nowhere else until its response arrives (`HeldOnce`), and the token it came with is
used up (`RequestOK`); so a response that arrives late carries a newer session than
the cookies it replaces. `Calm`, which holds up to the first event that disturbs the
browser, says that the one session alive is in the cookies or on its way to them.
`KeepsToTheLedger` is the other half of the composition: `SessionsProofs` shows that
the store behaves as `SessionLedger`, this theorem that the browsers and the web
server open, renew and end sessions in no other way.

### `ListViewProofs`

| theorem | statement |
| --- | --- |
| `ListInvariant` | `Spec => []ListInv` |
| `ListTypes` | `Spec => []TypeOK` |
| `OneSearchIsShown` | `Spec => []ListMatchesSearch` |
| `WalkMissesNoMs` | `Spec => []ListedOrSameMs` |
| `PrevInvariant` | `Spec => []PrevOK` |
| `PreviousIsNearest` | `Spec => []PreviousPageIsNearest` |

It begins with what `Paginate` does to any finite table and any page size: the order
of the rows is total, a page is full or ends the table, nothing between a cursor and
the end of its page is skipped but rows of the cursor's millisecond (`ForwardPage`), a
page read backwards holds the rows nearest above the cut cursor, as many as a page
takes (`TopIsFull`, `BackwardSelection`, `BackwardPage`), and going on from it leads
back to the row it was asked from (`BackAndForth`). `ListInv` then follows the answers: `AnswersOK` says which table
an answer was computed from (rows that have committed since the list began only add to
it), `FirstsOK` that a first page nobody has crossed is for the last search and that
all others in flight will be dropped, `NextsOK` that a next page nobody has crossed
goes on from a cursor of the list it will join, and `ViewOK` that between the rows of
the list and its cursor nothing is missing (`Covers`). `PrevOK` adds that the
other cursor of the list is that of a row of the table.

### `SignupsProofs`

| theorem | statement |
| --- | --- |
| `DefaultIsUnique` | `IdSpec => []UniqueIds` |
| `SignupsTakeIds` | `Spec => IdSpec` |
| `SignupIdsAreUnique` | `Spec => []UniqueIds` |
| `SignupTypes` | `Spec => []TypeOK` |
| `ResendsCounted` | `Spec => []ResendsAreCounted` |
| `SignupsComplete` | `Spec => []AccountsAreComplete` |

Two ids can only be equal when their numbers are, so a whole cycle of the sequence
lies between them. `LogOK` says that each of the last `Cycle` ids has the number the
sequence had so many steps back, and that an id is not older than its millisecond;
with `Timely` the second id then has a later millisecond. It is proved of `Snowflake`
alone; `SignupsTakeIds` shows that signups only do what `Snowflake` allows, and hands
the result over. The mails are followed by `JobOK` (mails sent are at most the
attempts made, the stalls and the attempt at work), the accounts by `CallsOK` (what a
handler has in hand at each step, and that its account exists once it is inserted) and
by `HalfMadeOK`, which counts the accounts without session or mail that no handler has
in hand: only a failing command adds one.

### `SeedingProofs`

| theorem | statement |
| --- | --- |
| `SeedInvariant` | `Spec => []SeedInv` |
| `SeedTypes` | `Spec => []TypeOK` |
| `SuccessExact` | `Spec => []SuccessIsExact` |
| `RefusedIfRaced` | `Spec => []RefusedOnlyIfRaced` |

Every row is a copy of one item of the fixture and points to copies of the items it
refers to (`RowsOK`); ids are unique (`IdsOK`); rows that a lookup cannot tell apart
come from commands that ran together, an INSERT adrift counting as one that runs (`KeysOK`); what a command has got serves the
items it has passed, and what a command that runs alone did not find is still not
there when it inserts (`RunsOK`). The proof never looks into a particular fixture: it
needs the three parts of `FixtureFitsSchema` only.

### Assumptions

* `TimeAssumption` (`Sessions`): `MaxDelay < TTL`; a session lives for days, a command
  is answered within seconds.
* `UploadTimes` (`Uploads`): `MaxDelay + 2 * MaxSkew < TTL`; an upload has 15 minutes.
* `Timely` (`Snowflake`), a guard and not an assumption on constants: see section 3.
* `MaxRequest`, `MaxWait` and `MaxSkew` (`TeamAccess`) bound how long a request takes,
  how long it waits for a row, and how far a clock is off, see section 3.
* `ListAssumption`: the table has finitely many rows.
* `FixtureFitsSchema` (`Seeding`): see section 2.
* `OwnerIsUser`: the creator of the team is a user. `PaginationAssumption`: a page
  has at least one row and a millisecond at least one tick. The `None...` assumptions:
  `None` is not one of the values it stands in for. The others say that numbers are
  natural numbers.

TLC evaluates all of them on the instances of the runs.

### Only model-checked

The liveness properties `ExpiredIsSwept` (`upload_sweeps`) and `MailSettles`
(`signups`), since liveness under fairness is beyond the prover. The properties of the
three violated runs are false and have no theorem.

## 5. What is not modelled

* Passwords, JWTs, request validation, message formats, key building and codecs:
  representation of data. The JWT guard accepts an access token after its session
  has ended; nothing in the store could tell.
* Update and listing of teams, profiles, users: reads and writes of single rows.
* `createDirectInvitation`, `deleteForUser` and `getSession`: they have no caller.
* The abilities of the table `memberships`: no application writes it.
* Contents of objects, and two uploads whose final key is the same.
* Reports and ratings, whose processors only log and whose jobs nothing enqueues;
  the registration of the cleanup's schedule and the removal of old jobs.
* The characters of nicknames (a local part with a leading underscore makes one that
  `users_nickname_shape_check` refuses), and the slugs of teams, which are chosen by
  the same check-and-insert as nicknames.
* In the lists: what is drawn, in which order, and the mark that
  `TeamInvitationPanel` puts on a revoked invitation.
* The tables for lineups, results, awards and statistics, which nothing writes; the
  shape checks of columns; migrations as programs.
* The API response cache: one route (`GET users/:id`) is cached, for a minute, and no
  route invalidates it, so there is no race to model yet.

## 6. Plan

1. *Done.* `Sessions`, `SessionLedger`, `SessionsProofs`.
2. *Done.* `Uploads`, `EmailVerification`, `TeamAccess`.
3. *Done.* `WebSession` over `SessionLedger`; `CursorPagination` and `ListView`;
   `Snowflake`, `JobQueue`, `Signups`; `Schema`, `Seeding`.
4. *Done.* Abstract specifications: `UploadLedger` implemented by `Uploads`,
   `InvitationBook` by `TeamAccess`.
5. *Done.* Proofs of every invariant, action property and refinement that a run
   checks, in one module per component.
6. An abstract specification of email verification (which link of a user works, and
   what it takes to be verified), to be proved like the others, with the exception
   that `email_replace` shows written into it.
7. `ApiCache`, once a route invalidates what it caches; lineups, results and awards,
   once an application writes them.
