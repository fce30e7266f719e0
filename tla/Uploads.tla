------------------------------ MODULE Uploads ------------------------------
(***************************************************************************)
(* Direct uploads of packages/storage: the API signs a PUT url and tracks  *)
(* the upload in Redis (a record with a TTL and an expiry index), the      *)
(* client writes a temporary object, a finalize request copies it to its   *)
(* final key, and a maintenance job of the worker sweeps what expired.     *)
(*                                                                         *)
(* Every await of createPresignedUpload, finalizeUpload and                *)
(* cleanupOrphanUploads is a point where the others run, where a process   *)
(* may die and where S3 or Redis may fail.                                 *)
(***************************************************************************)
EXTENDS Integers, FiniteSets

CONSTANTS
    Uploads,    \* upload ids
    Handlers,   \* API requests that may be in progress together
    Cleaners,   \* workers that may run the cleanup job together
    None,       \* an absent key, no work in progress
    TTL,        \* uploadTtlSeconds, in ticks
    FinalTTL,   \* finalizedUploadTtlSeconds
    Limit,      \* expired uploads a sweep looks at
    MaxDelay,   \* a presign request reaches its end within MaxDelay ticks
    MaxSkew,    \* largest difference between the clock of a host and Redis'
    MaxClock    \* bound: the clock stops here

ASSUME UploadTimes ==
    /\ TTL \in Nat /\ FinalTTL \in Nat /\ MaxClock \in Nat
    /\ MaxDelay \in Nat /\ MaxSkew \in Nat /\ MaxDelay + 2 * MaxSkew < TTL
    /\ Limit \in Nat \ {0}

VARIABLES
    clock,      \* the clock of Redis and S3
    record,     \* storage:v1:upload:<id> -> status, or None
    expiry,     \* storage:v1:upload_expiry: the score of an id, or None
    url,        \* the signed url the client got, or None
    tmp,        \* ids with an object under tmp/
    final,      \* ids whose object has been copied to its final key
    finalized,  \* history: ids whose record has been marked finalized
    calls,      \* what an API request is doing, or None
    sweep       \* what a cleanup job is doing, or None

vars == <<clock, record, expiry, url, tmp, final, finalized, calls, sweep>>

Record == [status : {"pending", "finalized"}, exp : Nat]
Url    == [expiresAt : Int, until : Int]
Step   == {"index", "record", "sign", "get", "head", "copy", "delete", "unindex", "mark"}
Call   == [id : Uploads, step : Step, at : Nat, offset : Int, late : BOOLEAN]
Sweep  == [todo : SUBSET [id : Uploads, score : Int], id : Uploads \cup {None},
           step : {"next", "delete", "remove"}]

ASSUME NoneIsNothing ==
    None \notin Int \cup Uploads \cup Record \cup Url \cup Call \cup Sweep

TypeOK ==
    /\ clock \in Nat
    /\ record \in [Uploads -> Record \cup {None}]
    /\ expiry \in [Uploads -> Int \cup {None}]
    /\ url \in [Uploads -> Url \cup {None}]
    /\ tmp \subseteq Uploads /\ final \subseteq Uploads /\ finalized \subseteq Uploads
    /\ calls \in [Handlers -> Call \cup {None}]
    /\ sweep \in [Cleaners -> Sweep \cup {None}]

Init ==
    /\ clock = 0
    /\ record = [u \in Uploads |-> None]
    /\ expiry = [u \in Uploads |-> None]
    /\ url = [u \in Uploads |-> None]
    /\ tmp = {} /\ final = {} /\ finalized = {}
    /\ calls = [h \in Handlers |-> None]
    /\ sweep = [c \in Cleaners |-> None]

\* How far the clock of a host may be off.
Skews == (-MaxSkew)..MaxSkew

At(h, step) == calls[h] # None /\ calls[h].step = step
GoTo(h, step) == calls' = [calls EXCEPT ![h].step = step]
Done(h) == calls' = [calls EXCEPT ![h] = None]

-----------------------------------------------------------------------------
(* createPresignedUpload *)

\* randomUUID() never returns an id that is in use.
Fresh(u) ==
    /\ record[u] = None /\ expiry[u] = None /\ url[u] = None
    /\ \A h \in Handlers : calls[h] # None => calls[h].id # u
    /\ \A c \in Cleaners : sweep[c] # None =>
          u \notin {sweep[c].id} \cup {e.id : e \in sweep[c].todo}

\* What the host promises the client: Date.now() plus the upload TTL.
ExpiresAt(call) == call.at + call.offset + TTL

StartPresign(h, u) ==
    /\ calls[h] = None
    /\ Fresh(u)
    /\ \E d \in Skews :
          calls' = [calls EXCEPT ![h] =
              [id |-> u, step |-> "index", at |-> clock, offset |-> d, late |-> FALSE]]
    /\ UNCHANGED <<clock, record, expiry, url, tmp, final, finalized, sweep>>

IndexUpload(h) ==
    /\ At(h, "index")
    /\ expiry' = [expiry EXCEPT ![calls[h].id] = ExpiresAt(calls[h])]
    /\ GoTo(h, "record")
    /\ UNCHANGED <<clock, record, url, tmp, final, finalized, sweep>>

\* setUpload without its EX.
StoreForever(h) ==
    /\ At(h, "record")
    /\ record' = [record EXCEPT ![calls[h].id] = [status |-> "pending", exp |-> None]]
    /\ GoTo(h, "sign")
    /\ UNCHANGED <<clock, expiry, url, tmp, final, finalized, sweep>>
StoreRecord(h) ==
    /\ At(h, "record")
    /\ record' = [record EXCEPT ![calls[h].id] = [status |-> "pending", exp |-> clock + TTL]]
    /\ GoTo(h, "sign")
    /\ UNCHANGED <<clock, expiry, url, tmp, final, finalized, sweep>>

SignUrl(h) ==
    /\ At(h, "sign")
    /\ url' = [url EXCEPT ![calls[h].id] =
          [expiresAt |-> ExpiresAt(calls[h]), until |-> clock + calls[h].offset + TTL]]
    /\ Done(h)
    /\ UNCHANGED <<clock, record, expiry, tmp, final, finalized, sweep>>

\* The client writes to the url, perhaps again after it was finalized.
PutObject(u) ==
    /\ url[u] # None /\ clock <= url[u].until
    /\ u \notin tmp
    /\ tmp' = tmp \cup {u}
    /\ UNCHANGED <<clock, record, expiry, url, final, finalized, calls, sweep>>

-----------------------------------------------------------------------------
(* finalizeUpload: get, HEAD, COPY, DELETE, ZREM, SET. *)

StartFinalize(h, u) ==
    /\ calls[h] = None
    /\ url[u] # None
    /\ calls' = [calls EXCEPT ![h] =
          [id |-> u, step |-> "get", at |-> clock, offset |-> 0, late |-> u \in finalized]]
    /\ UNCHANGED <<clock, record, expiry, url, tmp, final, finalized, sweep>>

Pending(u) == record[u] # None /\ record[u].status = "pending"

\* UploadNotFoundError or UploadAlreadyFinalizedError.
Refused(h) ==
    /\ At(h, "get")
    /\ ~Pending(calls[h].id)
    /\ Done(h)
    /\ UNCHANGED <<clock, record, expiry, url, tmp, final, finalized, sweep>>

GetUpload(h) ==
    /\ At(h, "get")
    /\ Pending(calls[h].id)
    /\ GoTo(h, "head")
    /\ UNCHANGED <<clock, record, expiry, url, tmp, final, finalized, sweep>>

HeadObject(h) ==
    /\ At(h, "head")
    /\ calls[h].id \in tmp
    /\ GoTo(h, "copy")
    /\ UNCHANGED <<clock, record, expiry, url, tmp, final, finalized, sweep>>

\* UploadedObjectMissingError of the HEAD, or S3's NoSuchKey of the COPY.
ObjectMissing(h) ==
    /\ At(h, "head") \/ At(h, "copy")
    /\ calls[h].id \notin tmp
    /\ Done(h)
    /\ UNCHANGED <<clock, record, expiry, url, tmp, final, finalized, sweep>>

\* The DELETE is sent without waiting for the COPY, which then finds nothing.
CopyNotAwaited(h) ==
    /\ At(h, "copy")
    /\ GoTo(h, "delete")
    /\ UNCHANGED <<clock, record, expiry, url, tmp, final, finalized, sweep>>
CopyObject(h) ==
    /\ At(h, "copy")
    /\ calls[h].id \in tmp
    /\ final' = final \cup {calls[h].id}
    /\ GoTo(h, "delete")
    /\ UNCHANGED <<clock, record, expiry, url, tmp, finalized, sweep>>

DeleteTemporary(h) ==
    /\ At(h, "delete")
    /\ tmp' = tmp \ {calls[h].id}
    /\ GoTo(h, "unindex")
    /\ UNCHANGED <<clock, record, expiry, url, final, finalized, sweep>>

Unindex(h) ==
    /\ At(h, "unindex")
    /\ expiry' = [expiry EXCEPT ![calls[h].id] = None]
    /\ GoTo(h, "mark")
    /\ UNCHANGED <<clock, record, url, tmp, final, finalized, sweep>>

\* tracker.finalize writes back the record it was given.
MarkPending(h) ==
    /\ At(h, "mark")
    /\ record' = [record EXCEPT ![calls[h].id] = [status |-> "pending", exp |-> clock + FinalTTL]]
    /\ finalized' = finalized \cup {calls[h].id}
    /\ Done(h)
    /\ UNCHANGED <<clock, expiry, url, tmp, final, sweep>>
MarkFinalized(h) ==
    /\ At(h, "mark")
    /\ record' = [record EXCEPT ![calls[h].id] =
          [status |-> "finalized", exp |-> clock + FinalTTL]]
    /\ finalized' = finalized \cup {calls[h].id}
    /\ Done(h)
    /\ UNCHANGED <<clock, expiry, url, tmp, final, sweep>>

\* A request ends half way: S3 or Redis fails, or the API process dies.
Fail(h) ==
    /\ calls[h] # None
    /\ Done(h)
    /\ UNCHANGED <<clock, record, expiry, url, tmp, final, finalized, sweep>>

-----------------------------------------------------------------------------
(* cleanupOrphanUploads *)

\* zrangebyscore, and what it would be without its upper bound.
AllIds(now) == {u \in Uploads : expiry[u] # None}
ExpiredIds(now) == {u \in Uploads : expiry[u] # None /\ 0 <= expiry[u] /\ expiry[u] <= now}

\* The first Limit of the ids, in the order of their scores.
Oldest(ids) ==
    {S \in SUBSET ids :
        /\ Cardinality(S) = IF Cardinality(ids) < Limit THEN Cardinality(ids) ELSE Limit
        /\ \A u \in S, v \in ids \ S : expiry[u] <= expiry[v]}

\* A sweep that finds nothing changes nothing.
StartSweep(c) ==
    /\ sweep[c] = None
    /\ \E d \in Skews : \E S \in Oldest(ExpiredIds(clock + d)) :
          /\ S # {}
          /\ sweep' = [sweep EXCEPT ![c] =
                [todo |-> {[id |-> u, score |-> expiry[u]] : u \in S},
                 id |-> None, step |-> "next"]]
    /\ UNCHANGED <<clock, record, expiry, url, tmp, final, finalized, calls>>

Sweeping(c, step) == sweep[c] # None /\ sweep[c].step = step

\* The next id: it is deleted when its record is still there and pending.
GetExpired(c) ==
    /\ Sweeping(c, "next")
    /\ \E e \in sweep[c].todo :
          /\ \A f \in sweep[c].todo : e.score <= f.score
          /\ sweep' = [sweep EXCEPT ![c] =
                [todo |-> @.todo \ {e}, id |-> e.id,
                 step |-> IF Pending(e.id) THEN "delete" ELSE "remove"]]
    /\ UNCHANGED <<clock, record, expiry, url, tmp, final, finalized, calls>>

DeleteOrphan(c) ==
    /\ Sweeping(c, "delete")
    /\ tmp' = tmp \ {sweep[c].id}
    /\ sweep' = [sweep EXCEPT ![c].step = "remove"]
    /\ UNCHANGED <<clock, record, expiry, url, final, finalized, calls>>

\* tracker.remove with one of its two commands.
RemovesIndexOnly(c) ==
    /\ Sweeping(c, "remove")
    /\ expiry' = [expiry EXCEPT ![sweep[c].id] = None]
    /\ sweep' = [sweep EXCEPT ![c] =
          IF @.todo = {} THEN None ELSE [@ EXCEPT !.id = None, !.step = "next"]]
    /\ UNCHANGED <<clock, record, url, tmp, final, finalized, calls>>
RemovesRecordOnly(c) ==
    /\ Sweeping(c, "remove")
    /\ record' = [record EXCEPT ![sweep[c].id] = None]
    /\ sweep' = [sweep EXCEPT ![c] =
          IF @.todo = {} THEN None ELSE [@ EXCEPT !.id = None, !.step = "next"]]
    /\ UNCHANGED <<clock, expiry, url, tmp, final, finalized, calls>>

\* tracker.remove, then the next id or the end of the job.
RemoveUpload(c) ==
    /\ Sweeping(c, "remove")
    /\ record' = [record EXCEPT ![sweep[c].id] = None]
    /\ expiry' = [expiry EXCEPT ![sweep[c].id] = None]
    /\ sweep' = [sweep EXCEPT ![c] =
          IF @.todo = {} THEN None ELSE [@ EXCEPT !.id = None, !.step = "next"]]
    /\ UNCHANGED <<clock, url, tmp, final, finalized, calls>>

\* The job fails or the worker dies; the queue runs the job again.
AbortSweep(c) ==
    /\ sweep[c] # None
    /\ sweep' = [sweep EXCEPT ![c] = None]
    /\ UNCHANGED <<clock, record, expiry, url, tmp, final, finalized, calls>>

-----------------------------------------------------------------------------
\* Time passes and Redis drops the records whose TTL has passed.
Drop(r, now) == IF r # None /\ r.exp < now THEN None ELSE r

Presigning(h) == calls[h] # None /\ calls[h].step \in {"index", "record", "sign"}

Tick ==
    /\ clock < MaxClock
    /\ \A h \in Handlers : Presigning(h) => clock < calls[h].at + MaxDelay
    /\ clock' = clock + 1
    /\ record' = [u \in Uploads |-> Drop(record[u], clock + 1)]
    /\ UNCHANGED <<expiry, url, tmp, final, finalized, calls, sweep>>

Request(h) ==
    \/ \E u \in Uploads : StartPresign(h, u) \/ StartFinalize(h, u)
    \/ IndexUpload(h) \/ StoreRecord(h) \/ SignUrl(h)
    \/ Refused(h) \/ GetUpload(h) \/ HeadObject(h) \/ ObjectMissing(h)
    \/ CopyObject(h) \/ DeleteTemporary(h) \/ Unindex(h) \/ MarkFinalized(h)
    \/ Fail(h)

Clean(c) == GetExpired(c) \/ DeleteOrphan(c) \/ RemoveUpload(c)

Next ==
    \/ \E h \in Handlers : Request(h)
    \/ \E u \in Uploads : PutObject(u)
    \/ \E c \in Cleaners : StartSweep(c) \/ Clean(c) \/ AbortSweep(c)
    \/ Tick

Spec == Init /\ [][Next]_vars

(***************************************************************************)
(* The scheduler of the queue starts a cleanup every ten minutes, and one  *)
(* that fails is tried again: a sweep that is begun over and over gets its *)
(* next command through sooner or later.  Clients owe us nothing.          *)
(***************************************************************************)
FairSpec ==
    /\ Spec
    /\ WF_vars(Tick)
    /\ \A c \in Cleaners :
          WF_vars(StartSweep(c)) /\ SF_vars(GetExpired(c))
          /\ SF_vars(DeleteOrphan(c)) /\ SF_vars(RemoveUpload(c))

-----------------------------------------------------------------------------
(* What the upload service promises. *)

\* Until the expiresAt of the presign response an upload that has not been
\* copied yet can be finalized: its record is pending and the index has the
\* expiry the client was told.  No sweep, of however many workers with clocks
\* off by MaxSkew, takes it away early.
FinalizableUntilExpiry ==
    \A u \in Uploads :
        url[u] # None /\ u \notin final /\ clock + MaxSkew < url[u].expiresAt =>
            Pending(u) /\ expiry[u] = url[u].expiresAt

\* A pending record the sweep cannot find belongs to a finalize that has
\* already copied the object (tracker.create writes the index first,
\* tracker.remove takes both away together).
PendingIsTracked ==
    \A u \in Uploads : Pending(u) => expiry[u] # None \/ u \in final

\* A finalize that the client sends after its upload has been marked finalized
\* gets no further than its first read, whether the record is still there or has
\* expired meanwhile, and whatever others are doing: it neither copies again what
\* the client may have put at the still valid url, nor deletes or marks anything.
\* (One that was under way at the mark may have read the pending record, and
\* then it does.)
LateFinalizeIsRefused ==
    \A h \in Handlers : calls[h] # None /\ calls[h].late => calls[h].step = "get"

\* An object is deleted from tmp/ only when it has a copy at its final key or
\* when the time the client was given is over.
DeletedWhenCopiedOrExpired ==
    [][\A u \in tmp \ tmp' : u \in final \/ clock + MaxSkew >= url[u].expiresAt]_vars

\* The client can finalize u: both keys say what it was told.
Finalizable(u) == url[u] # None /\ Pending(u) /\ expiry[u] = url[u].expiresAt

TimeIsOver(u) == url[u] # None /\ clock + MaxSkew >= url[u].expiresAt

Ledger == INSTANCE UploadLedger WITH
    promised <- {u \in Uploads : url[u] # None},
    open     <- {u \in Uploads : Finalizable(u)},
    over     <- {u \in Uploads : TimeIsOver(u)},
    held     <- tmp,
    kept     <- final,
    reported <- finalized

\* Seen from the client, requests and sweeps cut into single commands and dying
\* anywhere keep the ledger: an upload stops to be finalizable only when it is
\* copied or its time is over, and for good; it is marked finalized only when
\* its object is at its final key.
ImplementsLedger == Ledger!Spec

\* Every id whose time is over leaves the index, although a sweep looks at no
\* more than Limit ids and may fail at any point.
ExpiredIsSwept ==
    \A u \in Uploads :
        (expiry[u] # None /\ expiry[u] + MaxSkew <= clock) ~> (expiry[u] = None)

\* docs/storage.md:43 "deletes expired tmp/ objects that were never finalized":
\* a temporary object that has no final copy is one the cleanup can still find.
OrphanIsTracked ==
    \A u \in tmp : u \notin final => expiry[u] # None
=============================================================================
