---------------------------- MODULE UploadsProofs ----------------------------
(***************************************************************************)
(* Proofs about Uploads, for any number of uploads, requests and workers   *)
(* and any times with MaxDelay + 2 * MaxSkew < TTL.                        *)
(*                                                                         *)
(* The invariant follows an upload through its life: while its request     *)
(* presigns it nobody else touches it; until its time is over or its       *)
(* object is copied (Over) its record and its index entry stand; and what  *)
(* a sweep holds is Over.                                                  *)
(***************************************************************************)
EXTENDS Uploads, TLAPS

\* The client may no longer count on finalizing u.
Over(u) == url[u] = None \/ u \in final \/ clock + MaxSkew >= url[u].expiresAt

UploadOK(u) ==
    /\ url[u] = None => u \notin tmp /\ u \notin final /\ u \notin finalized
    /\ ~Over(u) => /\ Pending(u) /\ expiry[u] = url[u].expiresAt
                   /\ record[u].exp + MaxSkew >= url[u].expiresAt
    /\ Pending(u) => expiry[u] # None \/ u \in final
    /\ u \in finalized => u \in final /\ ~Pending(u)

UploadsOK == \A u \in Uploads : UploadOK(u)

Presigns(c) == c.step \in {"index", "record", "sign"}

\* A presign request is young, and has the upload for itself.
PresignOK(c) ==
    /\ c.at <= clock /\ clock <= c.at + MaxDelay
    /\ c.offset \in Skews /\ ~c.late
    /\ url[c.id] = None
    /\ c.step = "index" => record[c.id] = None /\ expiry[c.id] = None
    /\ c.step = "record" => record[c.id] = None /\ expiry[c.id] = ExpiresAt(c)
    /\ c.step = "sign" => /\ expiry[c.id] = ExpiresAt(c)
                          /\ Pending(c.id) /\ record[c.id].exp >= c.at + TTL

\* A finalize request deletes, unindexes and marks only what is copied.
FinalizeOK(c) ==
    /\ url[c.id] # None
    /\ c.step \in {"delete", "unindex", "mark"} => c.id \in final
    /\ c.late => c.step = "get" /\ c.id \in finalized

CallOK(c) == IF Presigns(c) THEN PresignOK(c) ELSE FinalizeOK(c)

CallsOK ==
    /\ \A h \in Handlers : calls[h] # None => CallOK(calls[h])
    /\ \A g, h \in Handlers :
          g # h /\ calls[g] # None /\ calls[h] # None /\ Presigns(calls[g]) =>
             calls[g].id # calls[h].id

\* u is in a sweep's list, or the one it works on.
InSweep(u) ==
    \E c \in Cleaners :
        sweep[c] # None /\ (sweep[c].id = u \/ \E e \in sweep[c].todo : e.id = u)

\* Sweeps hold only uploads that are Over and that no request presigns.
SweepsOK ==
    \A u \in Uploads : InSweep(u) =>
        Over(u) /\ \A h \in Handlers : calls[h] # None /\ Presigns(calls[h]) => calls[h].id # u

UploadInv == TypeOK /\ UploadsOK /\ CallsOK /\ SweepsOK

LEMMA UploadInvInit == Init => UploadInv
  <1> SUFFICES ASSUME Init PROVE UploadInv
    OBVIOUS
  <1>1. TypeOK
    BY DEF Init, TypeOK
  <1>2. UploadsOK
    BY DEF Init, UploadsOK, UploadOK, Over, Pending
  <1>3. CallsOK /\ SweepsOK
    BY DEF Init, CallsOK, SweepsOK, InSweep
  <1>. QED
    BY <1>1, <1>2, <1>3 DEF UploadInv

(***************************************************************************)
(* Frames.                                                                 *)
(***************************************************************************)

\* The request of a handler at a step.
LEMMA AtCall ==
    ASSUME UploadInv, NEW h \in Handlers, NEW step, At(h, step)
    PROVE  /\ calls[h] # None /\ calls[h] \in Call /\ calls[h].step = step /\ CallOK(calls[h])
           /\ calls[h].id \in Uploads
           /\ \A g \in Handlers :
                 g # h /\ calls[g] # None /\ (Presigns(calls[g]) \/ Presigns(calls[h])) =>
                    calls[g].id # calls[h].id
  BY DEF UploadInv, TypeOK, CallsOK, At, Call

\* No other request works on the upload of c where one of the two presigns it.
Alone(h, c) ==
    \A g \in Handlers :
        g # h /\ calls[g] # None /\ (Presigns(calls[g]) \/ Presigns(c)) => calls[g].id # c.id

\* One request moves on; what it writes is of no upload another one presigns.
LEMMA CallsFrame ==
    ASSUME UploadInv, NEW h \in Handlers, NEW c \in Call \cup {None},
           calls' = [calls EXCEPT ![h] = c], clock' = clock,
           final \subseteq final', finalized \subseteq finalized',
           \A v \in Uploads : url[v] # None => url'[v] # None,
           \A g \in Handlers \ {h} : calls[g] # None /\ Presigns(calls[g]) =>
              /\ url'[calls[g].id] = url[calls[g].id]
              /\ expiry'[calls[g].id] = expiry[calls[g].id]
              /\ record'[calls[g].id] = record[calls[g].id],
           c # None => CallOK(c)' /\ Alone(h, c)
    PROVE  calls' \in [Handlers -> Call \cup {None}] /\ CallsOK'
  <1>1. /\ calls' \in [Handlers -> Call \cup {None}]
        /\ \A g \in Handlers : calls'[g] = IF g = h THEN c ELSE calls[g]
    BY DEF UploadInv, TypeOK
  <1>2. ASSUME NEW g \in Handlers, calls'[g] # None PROVE CallOK(calls[g])'
    <2>1. CASE g = h
      BY <2>1, <1>1, <1>2
    <2>2. CASE g # h
      <3>1. PICK d \in Call : d = calls[g] /\ d = calls'[g] /\ CallOK(d) /\ d.id \in Uploads
        BY <2>2, <1>1, <1>2 DEF UploadInv, TypeOK, CallsOK, Call
      <3>2. CASE Presigns(d)
        <4>1. url'[d.id] = url[d.id] /\ expiry'[d.id] = expiry[d.id] /\ record'[d.id] = record[d.id]
          BY <2>2, <3>1, <3>2, <1>2, <1>1
        <4>2. PresignOK(d)
          BY <3>1, <3>2 DEF CallOK
        <4>3. PresignOK(d)'
          BY <4>1, <4>2 DEF PresignOK, Pending, ExpiresAt
        <4>. QED
          BY <3>1, <3>2, <4>3 DEF CallOK, Presigns
      <3>3. CASE ~Presigns(d)
        <4>1. FinalizeOK(d)
          BY <3>1, <3>3 DEF CallOK
        <4>2. FinalizeOK(d)'
          BY <3>1, <4>1 DEF FinalizeOK
        <4>. QED
          BY <3>1, <3>3, <4>2 DEF CallOK, Presigns
      <3>. QED
        BY <3>2, <3>3
    <2>. QED
      BY <2>1, <2>2
  <1>3. ASSUME NEW f \in Handlers, NEW g \in Handlers, f # g, calls'[f] # None, calls'[g] # None,
               Presigns(calls'[f])
        PROVE  calls'[f].id # calls'[g].id
    <2>1. CASE f = h
      <3>1. calls'[f] = c /\ calls'[g] = calls[g] /\ g # h
        BY <2>1, <1>1, <1>3
      <3>. QED
        BY <3>1, <1>3 DEF Alone
    <2>2. CASE g = h
      <3>1. calls'[g] = c /\ calls'[f] = calls[f] /\ f # h
        BY <2>2, <1>1, <1>3
      <3>. QED
        BY <3>1, <1>3 DEF Alone
    <2>3. CASE f # h /\ g # h
      BY <2>3, <1>1, <1>3 DEF UploadInv, CallsOK
    <2>. QED
      BY <2>1, <2>2, <2>3
  <1>. QED
    BY <1>1, <1>2, <1>3 DEF CallsOK, Presigns

\* An upload that no write touches stays as it is.
LEMMA UploadFrame ==
    ASSUME NEW u \in Uploads, UploadOK(u), clock' = clock,
           url'[u] = url[u], record'[u] = record[u], expiry'[u] = expiry[u],
           u \in tmp' => u \in tmp, u \in final' <=> u \in final, u \in finalized' <=> u \in finalized
    PROVE  UploadOK(u)'
  BY DEF UploadOK, Over, Pending

\* Sweeps hold the same, and a request that begins to presign has an upload no
\* sweep holds.
LEMMA SweepsFrame ==
    ASSUME UploadInv, sweep' = sweep, clock' = clock, final \subseteq final',
           \A u \in Uploads : InSweep(u) => url'[u] = url[u],
           \A g \in Handlers : calls'[g] # None /\ Presigns(calls'[g]) =>
              \/ calls[g] # None /\ Presigns(calls[g]) /\ calls[g].id = calls'[g].id
              \/ ~InSweep(calls'[g].id)
    PROVE  SweepsOK'
  <1> SUFFICES ASSUME NEW u \in Uploads, InSweep(u)
               PROVE  /\ Over(u)'
                      /\ \A h \in Handlers : calls'[h] # None /\ Presigns(calls'[h]) => calls'[h].id # u
    BY DEF SweepsOK, InSweep, Presigns
  <1>. QED
    BY DEF UploadInv, SweepsOK, Over

(***************************************************************************)
(* Steps of a request that write nothing.                                  *)
(***************************************************************************)

LEMMA OnlyCalls ==
    ASSUME UploadInv, NEW h \in Handlers, NEW c \in Call \cup {None},
           calls' = [calls EXCEPT ![h] = c],
           UNCHANGED <<clock, record, expiry, url, tmp, final, finalized, sweep>>,
           c # None => CallOK(c)' /\ Alone(h, c) /\ (Presigns(c) => ~InSweep(c.id))
    PROVE  UploadInv'
  <1>1. calls' \in [Handlers -> Call \cup {None}] /\ CallsOK'
    BY CallsFrame
  <1>2. TypeOK'
    BY <1>1 DEF UploadInv, TypeOK
  <1>3. UploadsOK'
    BY UploadFrame DEF UploadInv, UploadsOK
  <1>4. ASSUME NEW g \in Handlers, calls'[g] # None, Presigns(calls'[g])
        PROVE  \/ calls[g] # None /\ Presigns(calls[g]) /\ calls[g].id = calls'[g].id
               \/ ~InSweep(calls'[g].id)
    <2>1. calls'[g] = IF g = h THEN c ELSE calls[g]
      BY DEF UploadInv, TypeOK
    <2>. QED
      BY <2>1, <1>4
  <1>5. SweepsOK'
    BY <1>4, SweepsFrame
  <1>. QED
    BY <1>1, <1>2, <1>3, <1>5 DEF UploadInv

LEMMA DoneKeeps ==
    ASSUME UploadInv, NEW h \in Handlers, calls[h] # None, Done(h),
           UNCHANGED <<clock, record, expiry, url, tmp, final, finalized, sweep>>
    PROVE  UploadInv'
  <1>1. PICK c \in Call \cup {None} : c = None
    OBVIOUS
  <1>2. calls' = [calls EXCEPT ![h] = c]
    BY <1>1 DEF Done
  <1>. QED
    BY <1>1, <1>2, OnlyCalls

\* A finalize request that goes on.
LEMMA FinalizeGoesOn ==
    ASSUME UploadInv, NEW h \in Handlers, NEW step, NEW next \in Step, At(h, step),
           step \in {"get", "head", "copy"}, next \in {"get", "head", "copy"},
           GoTo(h, next), ~calls[h].late,
           UNCHANGED <<clock, record, expiry, url, tmp, final, finalized, sweep>>
    PROVE  UploadInv'
  <1>1. PICK d \in Call : d = calls[h] /\ d.step = step /\ CallOK(d) /\ d.id \in Uploads
    BY AtCall
  <1>2. PICK c : c = [d EXCEPT !.step = next]
    OBVIOUS
  <1>3. c \in Call /\ c.id = d.id /\ c.step = next /\ c.late = d.late
    BY <1>2 DEF Call
  <1>4. calls' = [calls EXCEPT ![h] = c]
    BY <1>1, <1>2 DEF GoTo
  <1>5. ~Presigns(c) /\ ~Presigns(d)
    BY <1>1, <1>3 DEF Presigns
  <1>6. FinalizeOK(d)
    BY <1>1, <1>5 DEF CallOK
  <1>7. FinalizeOK(c)'
    BY <1>1, <1>3, <1>6 DEF FinalizeOK
  <1>8. CallOK(c)'
    BY <1>5, <1>7 DEF CallOK, Presigns
  <1>9. Alone(h, c)
    BY <1>1, <1>3, <1>5 DEF UploadInv, CallsOK, At, Alone
  <1>. QED
    BY <1>3, <1>4, <1>5, <1>8, <1>9, OnlyCalls

LEMMA StepRefused ==
    ASSUME UploadInv, NEW h \in Handlers, Refused(h) \/ ObjectMissing(h) \/ Fail(h)
    PROVE  UploadInv'
  <1>1. /\ calls[h] # None /\ Done(h)
        /\ UNCHANGED <<clock, record, expiry, url, tmp, final, finalized, sweep>>
    BY DEF Refused, ObjectMissing, Fail, At
  <1>. QED
    BY <1>1, DoneKeeps

\* The read of a finalize request: it goes on only with a pending record, so not
\* after the upload has been marked finalized.
LEMMA StepGetUpload ==
    ASSUME UploadInv, NEW h \in Handlers, GetUpload(h)
    PROVE  UploadInv'
  <1>1. PICK d \in Call : d = calls[h] /\ d.step = "get" /\ CallOK(d) /\ d.id \in Uploads
    BY AtCall DEF GetUpload
  <1>2. FinalizeOK(d) /\ UploadOK(d.id)
    BY <1>1 DEF CallOK, Presigns, UploadInv, UploadsOK
  <1>3. ~calls[h].late
    BY <1>1, <1>2 DEF GetUpload, FinalizeOK, UploadOK
  <1>. QED
    BY <1>3, FinalizeGoesOn DEF GetUpload, Step

LEMMA StepHeadObject ==
    ASSUME UploadInv, NEW h \in Handlers, HeadObject(h)
    PROVE  UploadInv'
  <1>1. PICK d \in Call : d = calls[h] /\ d.step = "head" /\ CallOK(d) /\ d.id \in Uploads
    BY AtCall DEF HeadObject
  <1>2. ~calls[h].late
    BY <1>1 DEF CallOK, Presigns, FinalizeOK
  <1>. QED
    BY <1>2, FinalizeGoesOn DEF HeadObject, Step

LEMMA StepStartFinalize ==
    ASSUME UploadInv, NEW h \in Handlers, NEW u \in Uploads, StartFinalize(h, u)
    PROVE  UploadInv'
  <1>1. PICK c : c = [id |-> u, step |-> "get", at |-> clock, offset |-> 0, late |-> u \in finalized]
    OBVIOUS
  <1>2. /\ c \in Call /\ c.id = u /\ c.step = "get" /\ (c.late <=> u \in finalized)
    <2>1. PICK l \in BOOLEAN : l <=> u \in finalized
      <3>1. CASE u \in finalized
        BY <3>1
      <3>2. CASE u \notin finalized
        BY <3>2
      <3>. QED
        BY <3>1, <3>2
    <2>2. c = [id |-> u, step |-> "get", at |-> clock, offset |-> 0, late |-> l]
      BY <1>1, <2>1
    <2>3. c \in Call /\ c.id = u /\ c.step = "get" /\ c.late = l
      BY <2>2 DEF Call, Step, UploadInv, TypeOK
    <2>. QED
      BY <2>1, <2>3
  <1>3. calls' = [calls EXCEPT ![h] = c]
    BY <1>1 DEF StartFinalize
  <1>4. UNCHANGED <<clock, record, expiry, url, tmp, final, finalized, sweep>> /\ url[u] # None
    BY DEF StartFinalize
  <1>5. ~Presigns(c)
    BY <1>2 DEF Presigns
  <1>6. CallOK(c)'
    BY <1>2, <1>4, <1>5 DEF CallOK, Presigns, FinalizeOK
  <1>7. ASSUME NEW g \in Handlers, calls[g] # None, Presigns(calls[g]) PROVE calls[g].id # u
    BY <1>7, <1>4 DEF UploadInv, CallsOK, CallOK, PresignOK
  <1>8. Alone(h, c)
    BY <1>2, <1>5, <1>7 DEF Alone
  <1>. QED
    BY <1>2, <1>3, <1>4, <1>5, <1>6, <1>8, OnlyCalls

LEMMA StepStartPresign ==
    ASSUME UploadInv, NEW h \in Handlers, NEW u \in Uploads, StartPresign(h, u)
    PROVE  UploadInv'
  <1>1. PICK d \in Skews :
          calls' = [calls EXCEPT ![h] =
              [id |-> u, step |-> "index", at |-> clock, offset |-> d, late |-> FALSE]]
    BY DEF StartPresign
  <1>2. PICK c : c = [id |-> u, step |-> "index", at |-> clock, offset |-> d, late |-> FALSE]
    OBVIOUS
  <1>3. /\ c \in Call /\ c.id = u /\ c.step = "index" /\ c.at = clock /\ c.offset = d /\ ~c.late
    BY <1>2, UploadTimes DEF Call, Step, UploadInv, TypeOK, Skews
  <1>4. /\ UNCHANGED <<clock, record, expiry, url, tmp, final, finalized, sweep>>
        /\ Fresh(u) /\ clock \in Nat
    BY DEF StartPresign, UploadInv, TypeOK
  <1>5. CallOK(c)'
    BY <1>3, <1>4, UploadTimes DEF CallOK, Presigns, PresignOK, Fresh, Skews
  <1>6. ~InSweep(u)
    BY <1>4 DEF InSweep, Fresh
  <1>7. \A g \in Handlers : g # h /\ calls[g] # None => calls[g].id # u
    BY <1>4 DEF Fresh
  <1>8. Alone(h, c)
    BY <1>3, <1>7 DEF Alone
  <1>9. calls' = [calls EXCEPT ![h] = c]
    BY <1>1, <1>2
  <1>. QED
    BY <1>3, <1>4, <1>5, <1>6, <1>8, <1>9, OnlyCalls

(***************************************************************************)
(* Steps of a request that write.                                          *)
(***************************************************************************)

\* A step leaves every upload but u alone.
Elsewhere(u) ==
    \A v \in Uploads \ {u} :
        /\ url'[v] = url[v] /\ record'[v] = record[v] /\ expiry'[v] = expiry[v]
        /\ (v \in tmp' => v \in tmp) /\ (v \in final' <=> v \in final)
        /\ (v \in finalized' <=> v \in finalized)

StoresTyped ==
    /\ record \in [Uploads -> Record \cup {None}]
    /\ expiry \in [Uploads -> Int \cup {None}]
    /\ url \in [Uploads -> Url \cup {None}]
    /\ tmp \subseteq Uploads /\ final \subseteq Uploads /\ finalized \subseteq Uploads

\* Request d of h writes to its own upload and goes on as c.
LEMMA RequestWrites ==
    ASSUME UploadInv, NEW h \in Handlers, NEW d \in Call, d = calls[h],
           NEW c \in Call \cup {None}, calls' = [calls EXCEPT ![h] = c],
           UNCHANGED <<clock, sweep>>, StoresTyped', Elsewhere(d.id),
           final \subseteq final', finalized \subseteq finalized',
           url' = url \/ (Presigns(d) /\ url[d.id] = None),
           UploadOK(d.id)',
           c # None => CallOK(c)' /\ c.id = d.id /\ (Presigns(c) => Presigns(d))
    PROVE  UploadInv'
  <1> USE NoneIsNothing
  <1>1. d # None /\ d.id \in Uploads
    BY DEF Call
  <1>2. Alone(h, d)
    BY <1>1 DEF UploadInv, CallsOK, Alone
  <1>3. \A g \in Handlers \ {h} : calls[g] # None /\ Presigns(calls[g]) =>
              /\ url'[calls[g].id] = url[calls[g].id]
              /\ expiry'[calls[g].id] = expiry[calls[g].id]
              /\ record'[calls[g].id] = record[calls[g].id]
    <2> SUFFICES ASSUME NEW g \in Handlers \ {h}, calls[g] # None, Presigns(calls[g])
                 PROVE  /\ url'[calls[g].id] = url[calls[g].id]
                        /\ expiry'[calls[g].id] = expiry[calls[g].id]
                        /\ record'[calls[g].id] = record[calls[g].id]
      OBVIOUS
    <2>1. PICK v \in Uploads : v = calls[g].id
      BY DEF UploadInv, TypeOK, Call
    <2>2. v \in Uploads \ {d.id}
      BY <2>1, <1>2 DEF Alone
    <2>. QED
      BY <2>1, <2>2 DEF Elsewhere
  <1>4. \A v \in Uploads : url[v] # None => url'[v] # None
    BY <1>1 DEF Elsewhere
  <1>5. c # None => CallOK(c)' /\ Alone(h, c)
    BY <1>2 DEF Alone
  <1>6. calls' \in [Handlers -> Call \cup {None}] /\ CallsOK'
    BY <1>3, <1>4, <1>5, CallsFrame
  <1>7. TypeOK'
    BY <1>6 DEF UploadInv, TypeOK, StoresTyped
  <1>8. ASSUME NEW v \in Uploads PROVE UploadOK(v)'
    <2>1. CASE v = d.id
      BY <2>1
    <2>2. CASE v # d.id
      BY <2>2, UploadFrame DEF Elsewhere, UploadInv, UploadsOK
    <2>. QED
      BY <2>1, <2>2
  <1>9. \A v \in Uploads : InSweep(v) => url'[v] = url[v]
    BY <1>1 DEF UploadInv, SweepsOK, Elsewhere
  <1>10. ASSUME NEW g \in Handlers, calls'[g] # None, Presigns(calls'[g])
         PROVE  calls[g] # None /\ Presigns(calls[g]) /\ calls[g].id = calls'[g].id
    <2>1. calls'[g] = IF g = h THEN c ELSE calls[g]
      BY DEF UploadInv, TypeOK
    <2>. QED
      BY <2>1, <1>10, <1>1
  <1>11. SweepsOK'
    BY <1>9, <1>10, SweepsFrame
  <1>. QED
    BY <1>6, <1>7, <1>8, <1>11 DEF UploadInv, UploadsOK

\* The request of a handler at a step, and the same request at the next one.
LEMMA NextStep ==
    ASSUME UploadInv, NEW h \in Handlers, NEW step, NEW next \in Step, At(h, step), GoTo(h, next)
    PROVE  \E d, c \in Call :
              /\ d = calls[h] /\ d.step = step /\ CallOK(d) /\ d.id \in Uploads /\ UploadOK(d.id)
              /\ calls' = [calls EXCEPT ![h] = c]
              /\ c.id = d.id /\ c.step = next /\ c.at = d.at /\ c.offset = d.offset /\ c.late = d.late
  <1>1. PICK d \in Call : d = calls[h] /\ d.step = step /\ CallOK(d) /\ d.id \in Uploads
    BY AtCall
  <1>2. PICK c : c = [d EXCEPT !.step = next]
    OBVIOUS
  <1>3. /\ c \in Call /\ c.id = d.id /\ c.step = next /\ c.at = d.at /\ c.offset = d.offset
        /\ c.late = d.late
    BY <1>2 DEF Call
  <1>4. calls' = [calls EXCEPT ![h] = c]
    BY <1>1, <1>2 DEF GoTo
  <1>5. UploadOK(d.id)
    BY <1>1 DEF UploadInv, UploadsOK
  <1>. QED
    BY <1>1, <1>3, <1>4, <1>5

LEMMA StepIndexUpload ==
    ASSUME UploadInv, NEW h \in Handlers, IndexUpload(h)
    PROVE  UploadInv'
  <1>1. PICK d, c \in Call :
           /\ d = calls[h] /\ d.step = "index" /\ CallOK(d) /\ d.id \in Uploads /\ UploadOK(d.id)
           /\ calls' = [calls EXCEPT ![h] = c]
           /\ c.id = d.id /\ c.step = "record" /\ c.at = d.at /\ c.offset = d.offset /\ c.late = d.late
    BY NextStep DEF IndexUpload, Step
  <1>2. PICK u \in Uploads : u = d.id
    BY <1>1
  <1>3. PICK e \in Int : e = ExpiresAt(d)
    BY UploadTimes DEF ExpiresAt, Call
  <1>4. /\ expiry' = [expiry EXCEPT ![u] = e]
        /\ UNCHANGED <<clock, record, url, tmp, final, finalized, sweep>>
    BY <1>1, <1>2, <1>3 DEF IndexUpload
  <1>5. Presigns(d) /\ Presigns(c) /\ PresignOK(d)
    BY <1>1 DEF Presigns, CallOK
  <1>6. expiry \in [Uploads -> Int \cup {None}] /\ StoresTyped'
    BY <1>4 DEF StoresTyped, UploadInv, TypeOK
  <1>7. expiry'[u] = e /\ Elsewhere(u)
    BY <1>4, <1>6 DEF Elsewhere
  <1>8. UploadOK(u)'
    BY <1>1, <1>2, <1>4, <1>5 DEF UploadOK, PresignOK, Over, Pending
  <1>9. e = ExpiresAt(c)
    BY <1>1, <1>3 DEF ExpiresAt
  <1>10. PresignOK(c)'
    BY <1>1, <1>2, <1>4, <1>5, <1>7, <1>9 DEF PresignOK, ExpiresAt
  <1>11. CallOK(c)'
    BY <1>5, <1>10 DEF CallOK, Presigns
  <1>12. url[d.id] = None /\ Elsewhere(d.id) /\ UploadOK(d.id)'
    BY <1>2, <1>5, <1>7, <1>8 DEF PresignOK
  <1>13. final \subseteq final' /\ finalized \subseteq finalized' /\ UNCHANGED <<clock, sweep>>
    BY <1>4
  <1>. QED
    BY <1>1, <1>5, <1>6, <1>11, <1>12, <1>13, RequestWrites

\* The record is written with the host's TTL on Redis' clock: it outlives the
\* expiresAt the client will be told, by a clock off by at most MaxSkew.
LEMMA StepStoreRecord ==
    ASSUME UploadInv, NEW h \in Handlers, StoreRecord(h)
    PROVE  UploadInv'
  <1>1. PICK d, c \in Call :
           /\ d = calls[h] /\ d.step = "record" /\ CallOK(d) /\ d.id \in Uploads /\ UploadOK(d.id)
           /\ calls' = [calls EXCEPT ![h] = c]
           /\ c.id = d.id /\ c.step = "sign" /\ c.at = d.at /\ c.offset = d.offset /\ c.late = d.late
    BY NextStep DEF StoreRecord, Step
  <1>2. PICK u \in Uploads : u = d.id
    BY <1>1
  <1>3. PICK t \in Nat : t = clock + TTL
    BY UploadTimes DEF UploadInv, TypeOK
  <1>4. PICK r : r = [status |-> "pending", exp |-> t]
    OBVIOUS
  <1>5. r \in Record /\ r.status = "pending" /\ r.exp = t
    BY <1>4 DEF Record
  <1>6. /\ record' = [record EXCEPT ![u] = r]
        /\ UNCHANGED <<clock, expiry, url, tmp, final, finalized, sweep>>
    BY <1>1, <1>2, <1>3, <1>4 DEF StoreRecord
  <1>7. Presigns(d) /\ Presigns(c) /\ PresignOK(d)
    BY <1>1 DEF Presigns, CallOK
  <1>8. record \in [Uploads -> Record \cup {None}] /\ StoresTyped'
    BY <1>5, <1>6 DEF StoresTyped, UploadInv, TypeOK
  <1>9. record'[u] = r /\ Elsewhere(u)
    BY <1>6, <1>8 DEF Elsewhere
  <1>10. expiry[u] = ExpiresAt(d) /\ ExpiresAt(d) \in Int /\ ExpiresAt(d) = ExpiresAt(c)
    BY <1>1, <1>2, <1>7, UploadTimes DEF PresignOK, ExpiresAt, Call
  <1>11. UploadOK(u)'
    <2>1. url[u] = None /\ u \notin tmp /\ u \notin final /\ u \notin finalized
      BY <1>1, <1>2, <1>7 DEF UploadOK, PresignOK
    <2>2. url'[u] = None /\ u \notin tmp' /\ u \notin final' /\ u \notin finalized'
      BY <2>1, <1>6
    <2>3. expiry'[u] # None
      BY <1>6, <1>10, NoneIsNothing
    <2>. QED
      BY <2>2, <2>3 DEF UploadOK, Over
  <1>12. Pending(u)'
    BY <1>5, <1>9, NoneIsNothing DEF Pending
  <1>13. record'[u].exp >= c.at + TTL
    BY <1>1, <1>3, <1>5, <1>7, <1>9, UploadTimes DEF PresignOK, UploadInv, TypeOK, Call
  <1>14. PresignOK(c)'
    BY <1>1, <1>2, <1>6, <1>7, <1>10, <1>12, <1>13 DEF PresignOK, ExpiresAt
  <1>15. CallOK(c)'
    BY <1>7, <1>14 DEF CallOK, Presigns
  <1>16. url[d.id] = None /\ Elsewhere(d.id) /\ UploadOK(d.id)'
    BY <1>2, <1>7, <1>9, <1>11 DEF PresignOK
  <1>17. final \subseteq final' /\ finalized \subseteq finalized' /\ UNCHANGED <<clock, sweep>>
    BY <1>6
  <1>. QED
    BY <1>1, <1>7, <1>8, <1>15, <1>16, <1>17, RequestWrites

\* The client is told of an upload whose record and index entry stand.
LEMMA StepSignUrl ==
    ASSUME UploadInv, NEW h \in Handlers, SignUrl(h)
    PROVE  UploadInv'
  <1>1. PICK d \in Call :
           d = calls[h] /\ d.step = "sign" /\ CallOK(d) /\ d.id \in Uploads
    BY AtCall DEF SignUrl
  <1>2. PICK u \in Uploads : u = d.id
    BY <1>1
  <1>3. PICK e \in Int, n \in Int : e = ExpiresAt(d) /\ n = clock + d.offset + TTL
    BY UploadTimes DEF ExpiresAt, Call, UploadInv, TypeOK
  <1>4. PICK r : r = [expiresAt |-> e, until |-> n]
    OBVIOUS
  <1>5. r \in Url /\ r.expiresAt = e
    BY <1>4 DEF Url
  <1>6. PICK c \in Call \cup {None} : c = None
    OBVIOUS
  <1>7. /\ url' = [url EXCEPT ![u] = r] /\ calls' = [calls EXCEPT ![h] = c]
        /\ UNCHANGED <<clock, record, expiry, tmp, final, finalized, sweep>>
    BY <1>1, <1>2, <1>3, <1>4, <1>6 DEF SignUrl, Done
  <1>8. Presigns(d) /\ PresignOK(d) /\ UploadOK(u)
    BY <1>1 DEF Presigns, CallOK, UploadInv, UploadsOK
  <1>9. url \in [Uploads -> Url \cup {None}] /\ StoresTyped'
    BY <1>5, <1>7 DEF StoresTyped, UploadInv, TypeOK
  <1>10. url'[u] = r /\ Elsewhere(u)
    BY <1>7, <1>9 DEF Elsewhere
  <1>11. /\ expiry[u] = e /\ Pending(u) /\ record[u].exp >= d.at + TTL
         /\ u \notin finalized
    BY <1>1, <1>2, <1>3, <1>8 DEF PresignOK, UploadOK
  <1>12. record[u].exp + MaxSkew >= e
    <2>1. record[u].exp \in Nat
      BY <1>11 DEF UploadInv, TypeOK, Record, Pending
    <2>2. d.at \in Nat /\ d.offset \in Int /\ d.offset <= MaxSkew
      BY <1>8, UploadTimes DEF PresignOK, Skews, Call
    <2>. QED
      BY <2>1, <2>2, <1>3, <1>11, UploadTimes DEF ExpiresAt
  <1>13. Pending(u)' /\ expiry'[u] = e /\ record'[u].exp + MaxSkew >= e /\ u \notin finalized'
    BY <1>7, <1>11, <1>12 DEF Pending
  <1>14. url'[u] # None /\ url'[u].expiresAt = e /\ expiry'[u] # None
    BY <1>5, <1>10, <1>13, NoneIsNothing
  <1>15. UploadOK(u)'
    BY <1>13, <1>14 DEF UploadOK
  <1>16. url[d.id] = None /\ Elsewhere(d.id) /\ UploadOK(d.id)'
    BY <1>2, <1>8, <1>10, <1>15 DEF PresignOK
  <1>17. final \subseteq final' /\ finalized \subseteq finalized' /\ UNCHANGED <<clock, sweep>>
    BY <1>7
  <1>. QED
    BY <1>1, <1>6, <1>7, <1>8, <1>9, <1>16, <1>17, RequestWrites

\* The COPY makes the upload Over: the client has its final object.
LEMMA StepCopyObject ==
    ASSUME UploadInv, NEW h \in Handlers, CopyObject(h)
    PROVE  UploadInv'
  <1>1. PICK d, c \in Call :
           /\ d = calls[h] /\ d.step = "copy" /\ CallOK(d) /\ d.id \in Uploads /\ UploadOK(d.id)
           /\ calls' = [calls EXCEPT ![h] = c]
           /\ c.id = d.id /\ c.step = "delete" /\ c.at = d.at /\ c.offset = d.offset /\ c.late = d.late
    BY NextStep DEF CopyObject, Step
  <1>2. PICK u \in Uploads : u = d.id
    BY <1>1
  <1>3. /\ final' = final \cup {u}
        /\ UNCHANGED <<clock, record, expiry, url, tmp, finalized, sweep>>
    BY <1>1, <1>2 DEF CopyObject
  <1>4. ~Presigns(d) /\ ~Presigns(c) /\ FinalizeOK(d)
    BY <1>1 DEF Presigns, CallOK
  <1>5. StoresTyped' /\ Elsewhere(u)
    BY <1>3 DEF StoresTyped, UploadInv, TypeOK, Elsewhere
  <1>6. UploadOK(u)'
    BY <1>1, <1>2, <1>3, <1>4 DEF UploadOK, FinalizeOK, Over, Pending
  <1>7. FinalizeOK(c)'
    BY <1>1, <1>2, <1>3, <1>4 DEF FinalizeOK
  <1>8. CallOK(c)'
    BY <1>4, <1>7 DEF CallOK, Presigns
  <1>9. Elsewhere(d.id) /\ UploadOK(d.id)'
    BY <1>2, <1>5, <1>6
  <1>10. final \subseteq final' /\ finalized \subseteq finalized' /\ UNCHANGED <<clock, sweep>>
    BY <1>3
  <1>. QED
    BY <1>1, <1>3, <1>4, <1>5, <1>8, <1>9, <1>10, RequestWrites

\* From the COPY on a request touches only what is copied.
LEMMA StepDeleteTemporary ==
    ASSUME UploadInv, NEW h \in Handlers, DeleteTemporary(h)
    PROVE  UploadInv'
  <1>1. PICK d, c \in Call :
           /\ d = calls[h] /\ d.step = "delete" /\ CallOK(d) /\ d.id \in Uploads /\ UploadOK(d.id)
           /\ calls' = [calls EXCEPT ![h] = c]
           /\ c.id = d.id /\ c.step = "unindex" /\ c.at = d.at /\ c.offset = d.offset /\ c.late = d.late
    BY NextStep DEF DeleteTemporary, Step
  <1>2. PICK u \in Uploads : u = d.id
    BY <1>1
  <1>3. /\ tmp' = tmp \ {u}
        /\ UNCHANGED <<clock, record, expiry, url, final, finalized, sweep>>
    BY <1>1, <1>2 DEF DeleteTemporary
  <1>4. ~Presigns(d) /\ ~Presigns(c) /\ FinalizeOK(d)
    BY <1>1 DEF Presigns, CallOK
  <1>5. StoresTyped' /\ Elsewhere(u)
    BY <1>3 DEF StoresTyped, UploadInv, TypeOK, Elsewhere
  <1>6. UploadOK(u)'
    BY <1>1, <1>2, <1>3, UploadFrame
  <1>7. FinalizeOK(c)'
    BY <1>1, <1>2, <1>3, <1>4 DEF FinalizeOK
  <1>8. CallOK(c)'
    BY <1>4, <1>7 DEF CallOK, Presigns
  <1>9. Elsewhere(d.id) /\ UploadOK(d.id)'
    BY <1>2, <1>5, <1>6
  <1>10. final \subseteq final' /\ finalized \subseteq finalized' /\ UNCHANGED <<clock, sweep>>
    BY <1>3
  <1>. QED
    BY <1>1, <1>3, <1>4, <1>5, <1>8, <1>9, <1>10, RequestWrites

LEMMA StepUnindex ==
    ASSUME UploadInv, NEW h \in Handlers, Unindex(h)
    PROVE  UploadInv'
  <1>1. PICK d, c \in Call :
           /\ d = calls[h] /\ d.step = "unindex" /\ CallOK(d) /\ d.id \in Uploads /\ UploadOK(d.id)
           /\ calls' = [calls EXCEPT ![h] = c]
           /\ c.id = d.id /\ c.step = "mark" /\ c.at = d.at /\ c.offset = d.offset /\ c.late = d.late
    BY NextStep DEF Unindex, Step
  <1>2. PICK u \in Uploads : u = d.id
    BY <1>1
  <1>3. /\ expiry' = [expiry EXCEPT ![u] = None]
        /\ UNCHANGED <<clock, record, url, tmp, final, finalized, sweep>>
    BY <1>1, <1>2 DEF Unindex
  <1>4. ~Presigns(d) /\ ~Presigns(c) /\ FinalizeOK(d) /\ u \in final
    BY <1>1, <1>2 DEF Presigns, CallOK, FinalizeOK
  <1>5. StoresTyped' /\ Elsewhere(u)
    BY <1>3 DEF StoresTyped, UploadInv, TypeOK, Elsewhere
  <1>6. UploadOK(u)'
    BY <1>1, <1>2, <1>3, <1>4 DEF UploadOK, FinalizeOK, Over, Pending
  <1>7. FinalizeOK(c)'
    BY <1>1, <1>2, <1>3, <1>4 DEF FinalizeOK
  <1>8. CallOK(c)'
    BY <1>4, <1>7 DEF CallOK, Presigns
  <1>9. Elsewhere(d.id) /\ UploadOK(d.id)'
    BY <1>2, <1>5, <1>6
  <1>10. final \subseteq final' /\ finalized \subseteq finalized' /\ UNCHANGED <<clock, sweep>>
    BY <1>3
  <1>. QED
    BY <1>1, <1>3, <1>4, <1>5, <1>8, <1>9, <1>10, RequestWrites

LEMMA StepMarkFinalized ==
    ASSUME UploadInv, NEW h \in Handlers, MarkFinalized(h)
    PROVE  UploadInv'
  <1>1. PICK d \in Call :
           d = calls[h] /\ d.step = "mark" /\ CallOK(d) /\ d.id \in Uploads
    BY AtCall DEF MarkFinalized
  <1>2. PICK u \in Uploads : u = d.id
    BY <1>1
  <1>3. PICK t \in Nat : t = clock + FinalTTL
    BY UploadTimes DEF UploadInv, TypeOK
  <1>4. PICK r : r = [status |-> "finalized", exp |-> t]
    OBVIOUS
  <1>5. r \in Record /\ r.status = "finalized"
    BY <1>4 DEF Record
  <1>6. PICK c \in Call \cup {None} : c = None
    OBVIOUS
  <1>7. /\ record' = [record EXCEPT ![u] = r] /\ finalized' = finalized \cup {u}
        /\ calls' = [calls EXCEPT ![h] = c]
        /\ UNCHANGED <<clock, expiry, url, tmp, final, sweep>>
    BY <1>1, <1>2, <1>3, <1>4, <1>6 DEF MarkFinalized, Done
  <1>8. ~Presigns(d) /\ FinalizeOK(d) /\ UploadOK(u) /\ u \in final /\ url[u] # None
    BY <1>1, <1>2 DEF Presigns, CallOK, UploadInv, UploadsOK, FinalizeOK
  <1>9. record \in [Uploads -> Record \cup {None}] /\ StoresTyped'
    BY <1>5, <1>7 DEF StoresTyped, UploadInv, TypeOK
  <1>10. record'[u] = r /\ Elsewhere(u)
    BY <1>7, <1>9 DEF Elsewhere
  <1>11. UploadOK(u)'
    BY <1>5, <1>7, <1>8, <1>10 DEF UploadOK, Over, Pending
  <1>12. Elsewhere(d.id) /\ UploadOK(d.id)'
    BY <1>2, <1>10, <1>11
  <1>13. final \subseteq final' /\ finalized \subseteq finalized' /\ UNCHANGED <<clock, sweep>>
    BY <1>7
  <1>. QED
    BY <1>1, <1>6, <1>7, <1>9, <1>12, <1>13, RequestWrites

LEMMA RequestKeepsInv ==
    ASSUME UploadInv, NEW h \in Handlers, Request(h)
    PROVE  UploadInv'
  BY StepStartPresign, StepStartFinalize, StepIndexUpload, StepStoreRecord, StepSignUrl,
     StepRefused, StepGetUpload, StepHeadObject, StepCopyObject, StepDeleteTemporary,
     StepUnindex, StepMarkFinalized DEF Request

(***************************************************************************)
(* Steps of the client, of the sweeps and of the clock.                    *)
(***************************************************************************)

\* Nobody but its own request touches an upload that is presigned.
LEMMA CallsStay ==
    ASSUME UploadInv, UNCHANGED <<clock, calls, url, final, finalized>>,
           \A h \in Handlers : calls[h] # None /\ Presigns(calls[h]) =>
              record'[calls[h].id] = record[calls[h].id] /\ expiry'[calls[h].id] = expiry[calls[h].id]
    PROVE  CallsOK'
  <1>1. ASSUME NEW h \in Handlers, calls[h] # None PROVE CallOK(calls[h])'
    <2>1. PICK d \in Call : d = calls[h] /\ d = calls'[h] /\ CallOK(d)
      BY <1>1 DEF UploadInv, TypeOK, CallsOK
    <2>2. CASE Presigns(d)
      <3>1. PresignOK(d) /\ record'[d.id] = record[d.id] /\ expiry'[d.id] = expiry[d.id]
        BY <1>1, <2>1, <2>2 DEF CallOK
      <3>2. PresignOK(d)'
        BY <3>1 DEF PresignOK, Pending, ExpiresAt
      <3>. QED
        BY <2>1, <2>2, <3>2 DEF CallOK, Presigns
    <2>3. CASE ~Presigns(d)
      <3>1. FinalizeOK(d)'
        BY <2>1, <2>3 DEF CallOK, FinalizeOK
      <3>. QED
        BY <2>1, <2>3, <3>1 DEF CallOK, Presigns
    <2>. QED
      BY <2>2, <2>3
  <1>. QED
    BY <1>1 DEF UploadInv, CallsOK, Presigns

\* A sweep takes no new id.
LEMMA SweepsStay ==
    ASSUME UploadInv, UNCHANGED <<clock, calls, url, final>>,
           \A u \in Uploads : InSweep(u)' => InSweep(u)
    PROVE  SweepsOK'
  BY DEF UploadInv, SweepsOK, Over, Presigns

LEMMA StepPutObject ==
    ASSUME UploadInv, NEW u \in Uploads, PutObject(u)
    PROVE  UploadInv'
  <1>1. /\ url[u] # None /\ tmp' = tmp \cup {u}
        /\ UNCHANGED <<clock, record, expiry, url, final, finalized, calls, sweep>>
    BY DEF PutObject
  <1>2. TypeOK'
    BY <1>1 DEF UploadInv, TypeOK
  <1>3. ASSUME NEW v \in Uploads PROVE UploadOK(v)'
    BY <1>1 DEF UploadInv, UploadsOK, UploadOK, Over, Pending
  <1>4. CallsOK'
    BY <1>1, CallsStay
  <1>5. SweepsOK'
    BY <1>1, SweepsStay DEF InSweep
  <1>. QED
    BY <1>2, <1>3, <1>4, <1>5 DEF UploadInv, UploadsOK

\* What a sweep finds in the index is Over, and no request presigns it: such a
\* request is at most MaxDelay old, and both clocks together are off by less
\* than the rest of the TTL.
LEMMA ExpiredIsOver ==
    ASSUME UploadInv, NEW d \in Skews, NEW u \in ExpiredIds(clock + d)
    PROVE  /\ u \in Uploads /\ expiry[u] \in Int /\ Over(u)
           /\ \A h \in Handlers : calls[h] # None /\ Presigns(calls[h]) => calls[h].id # u
  <1> USE NoneIsNothing
  <1>1. /\ u \in Uploads /\ expiry[u] \in Int /\ expiry[u] <= clock + d
        /\ clock \in Nat /\ d \in Int /\ d <= MaxSkew /\ MaxSkew \in Nat
    BY UploadTimes DEF ExpiredIds, UploadInv, TypeOK, Skews
  <1>2. Over(u)
    <2> SUFFICES ASSUME ~Over(u) PROVE FALSE
      OBVIOUS
    <2>1. expiry[u] = url[u].expiresAt
      BY <1>1 DEF UploadInv, UploadsOK, UploadOK
    <2>. QED
      BY <1>1, <2>1 DEF Over
  <1>3. ASSUME NEW h \in Handlers, calls[h] # None, Presigns(calls[h]), calls[h].id = u
        PROVE  FALSE
    <2>1. PICK c \in Call : c = calls[h] /\ PresignOK(c) /\ Presigns(c) /\ c.id = u
      BY <1>3 DEF UploadInv, TypeOK, CallsOK, CallOK
    <2>2. expiry[u] = c.at + c.offset + TTL
      BY <1>1, <2>1 DEF PresignOK, Presigns, ExpiresAt
    <2>3. /\ c.at \in Nat /\ c.offset \in Int /\ -MaxSkew <= c.offset
          /\ clock <= c.at + MaxDelay
      BY <2>1, UploadTimes DEF PresignOK, Call, Skews
    <2>. QED
      BY <1>1, <2>2, <2>3, UploadTimes
  <1>. QED
    BY <1>1, <1>2, <1>3

LEMMA StepStartSweep ==
    ASSUME UploadInv, NEW c \in Cleaners, StartSweep(c)
    PROVE  UploadInv'
  <1>1. PICK d \in Skews : \E S \in Oldest(ExpiredIds(clock + d)) :
          /\ S # {}
          /\ sweep' = [sweep EXCEPT ![c] =
                [todo |-> {[id |-> u, score |-> expiry[u]] : u \in S},
                 id |-> None, step |-> "next"]]
    BY DEF StartSweep
  <1>2. PICK S \in SUBSET ExpiredIds(clock + d) :
          sweep' = [sweep EXCEPT ![c] =
                [todo |-> {[id |-> u, score |-> expiry[u]] : u \in S},
                 id |-> None, step |-> "next"]]
    BY <1>1 DEF Oldest
  <1>3. PICK T : T = {[id |-> u, score |-> expiry[u]] : u \in S}
    OBVIOUS
  <1>4. T \in SUBSET [id : Uploads, score : Int] /\ \A e \in T : e.id \in S
    BY <1>2, <1>3, ExpiredIsOver
  <1>5. PICK s : s = [todo |-> T, id |-> None, step |-> "next"]
    OBVIOUS
  <1>6. s \in Sweep /\ s.todo = T /\ s.id = None
    BY <1>4, <1>5 DEF Sweep
  <1>7. /\ sweep' = [sweep EXCEPT ![c] = s]
        /\ UNCHANGED <<clock, record, expiry, url, tmp, final, finalized, calls>>
    BY <1>2, <1>3, <1>5 DEF StartSweep
  <1>8. \A b \in Cleaners : sweep'[b] = IF b = c THEN s ELSE sweep[b]
    BY <1>7 DEF UploadInv, TypeOK
  <1>9. TypeOK'
    BY <1>6, <1>7 DEF UploadInv, TypeOK
  <1>10. UploadsOK'
    BY <1>7, UploadFrame DEF UploadInv, UploadsOK
  <1>11. CallsOK'
    BY <1>7, CallsStay
  <1>12. ASSUME NEW u \in Uploads, InSweep(u)'
         PROVE  Over(u) /\ \A h \in Handlers : calls[h] # None /\ Presigns(calls[h]) => calls[h].id # u
    <2>1. PICK b \in Cleaners :
            sweep'[b] # None /\ (sweep'[b].id = u \/ \E e \in sweep'[b].todo : e.id = u)
      BY <1>12 DEF InSweep
    <2>2. CASE b = c
      <3>1. u # None
        BY NoneIsNothing
      <3>2. u \in S
        BY <2>1, <2>2, <1>4, <1>6, <1>8, <3>1
      <3>. QED
        BY <3>2, ExpiredIsOver
    <2>3. CASE b # c
      <3>1. InSweep(u)
        BY <2>1, <2>3, <1>8 DEF InSweep
      <3>. QED
        BY <3>1 DEF UploadInv, SweepsOK
    <2>. QED
      BY <2>2, <2>3
  <1>13. SweepsOK'
    BY <1>7, <1>12 DEF SweepsOK, Over, Presigns
  <1>. QED
    BY <1>9, <1>10, <1>11, <1>13 DEF UploadInv

\* A sweep that goes on holds no more than before.
Shrinks(c, s) ==
    s # None => /\ s.id # None => s.id = sweep[c].id \/ \E e \in sweep[c].todo : e.id = s.id
                /\ s.todo \subseteq sweep[c].todo

LEMMA SweepShrinks ==
    ASSUME UploadInv, NEW c \in Cleaners, sweep[c] # None, NEW s \in Sweep \cup {None},
           sweep' = [sweep EXCEPT ![c] = s], Shrinks(c, s)
    PROVE  /\ sweep' \in [Cleaners -> Sweep \cup {None}]
           /\ \A u \in Uploads : InSweep(u)' => InSweep(u)
  <1>1. /\ sweep' \in [Cleaners -> Sweep \cup {None}]
        /\ \A b \in Cleaners : sweep'[b] = IF b = c THEN s ELSE sweep[b]
    BY DEF UploadInv, TypeOK
  <1>2. ASSUME NEW u \in Uploads, InSweep(u)' PROVE InSweep(u)
    <2>1. PICK b \in Cleaners :
            sweep'[b] # None /\ (sweep'[b].id = u \/ \E e \in sweep'[b].todo : e.id = u)
      BY <1>2 DEF InSweep
    <2>2. CASE b = c
      <3>1. sweep'[b] = s /\ s # None /\ u # None
        BY <1>1, <2>1, <2>2, NoneIsNothing
      <3>2. sweep[c].id = u \/ \E e \in sweep[c].todo : e.id = u
        BY <2>1, <3>1 DEF Shrinks
      <3>. QED
        BY <3>2 DEF InSweep
    <2>3. CASE b # c
      BY <2>1, <2>3, <1>1 DEF InSweep
    <2>. QED
      BY <2>2, <2>3
  <1>. QED
    BY <1>1, <1>2

\* What a sweep works on.
LEMMA SweptId ==
    ASSUME UploadInv, NEW c \in Cleaners, sweep[c] # None, NEW u \in Uploads, sweep[c].id = u
    PROVE  /\ InSweep(u) /\ Over(u)
           /\ \A h \in Handlers : calls[h] # None /\ Presigns(calls[h]) => calls[h].id # u
  BY DEF UploadInv, SweepsOK, InSweep

LEMMA StepGetExpired ==
    ASSUME UploadInv, NEW c \in Cleaners, GetExpired(c)
    PROVE  UploadInv'
  <1>1. PICK e \in sweep[c].todo :
          sweep' = [sweep EXCEPT ![c] =
                [todo |-> @.todo \ {e}, id |-> e.id,
                 step |-> IF Pending(e.id) THEN "delete" ELSE "remove"]]
    BY DEF GetExpired
  <1>2. /\ sweep[c] # None /\ sweep[c] \in Sweep
        /\ UNCHANGED <<clock, record, expiry, url, tmp, final, finalized, calls>>
    BY DEF GetExpired, Sweeping, UploadInv, TypeOK
  <1>3. PICK st \in {"delete", "remove"} : st = IF Pending(e.id) THEN "delete" ELSE "remove"
    OBVIOUS
  <1>4. PICK s : s = [todo |-> sweep[c].todo \ {e}, id |-> e.id, step |-> st]
    OBVIOUS
  <1>5. s \in Sweep /\ s.todo = sweep[c].todo \ {e} /\ s.id = e.id
    BY <1>2, <1>4 DEF Sweep
  <1>6. sweep' = [sweep EXCEPT ![c] = s]
    BY <1>1, <1>3, <1>4 DEF UploadInv, TypeOK
  <1>7. Shrinks(c, s)
    BY <1>5 DEF Shrinks
  <1>8. /\ sweep' \in [Cleaners -> Sweep \cup {None}]
        /\ \A u \in Uploads : InSweep(u)' => InSweep(u)
    BY <1>2, <1>5, <1>6, <1>7, SweepShrinks
  <1>9. TypeOK' /\ UploadsOK'
    BY <1>2, <1>8, UploadFrame DEF UploadInv, TypeOK, UploadsOK
  <1>10. CallsOK' /\ SweepsOK'
    BY <1>2, <1>8, CallsStay, SweepsStay
  <1>. QED
    BY <1>9, <1>10 DEF UploadInv

LEMMA StepDeleteOrphan ==
    ASSUME UploadInv, NEW c \in Cleaners, DeleteOrphan(c)
    PROVE  UploadInv'
  <1>1. /\ sweep[c] # None /\ sweep[c] \in Sweep /\ tmp' = tmp \ {sweep[c].id}
        /\ UNCHANGED <<clock, record, expiry, url, final, finalized, calls>>
    BY DEF DeleteOrphan, Sweeping, UploadInv, TypeOK
  <1>2. PICK s : s = [sweep[c] EXCEPT !.step = "remove"]
    OBVIOUS
  <1>3. s \in Sweep /\ s.todo = sweep[c].todo /\ s.id = sweep[c].id
    BY <1>1, <1>2 DEF Sweep
  <1>4. sweep' = [sweep EXCEPT ![c] = s]
    BY <1>2 DEF DeleteOrphan
  <1>5. Shrinks(c, s)
    BY <1>3 DEF Shrinks
  <1>6. /\ sweep' \in [Cleaners -> Sweep \cup {None}]
        /\ \A u \in Uploads : InSweep(u)' => InSweep(u)
    BY <1>1, <1>3, <1>4, <1>5, SweepShrinks
  <1>7. TypeOK' /\ UploadsOK'
    BY <1>1, <1>6, UploadFrame DEF UploadInv, TypeOK, UploadsOK
  <1>8. CallsOK' /\ SweepsOK'
    BY <1>1, <1>6, CallsStay, SweepsStay
  <1>. QED
    BY <1>7, <1>8 DEF UploadInv

\* The record and the index entry of a swept upload go: it is Over, and so they
\* are owed to nobody.
LEMMA StepRemoveUpload ==
    ASSUME UploadInv, NEW c \in Cleaners, RemoveUpload(c)
    PROVE  UploadInv'
  <1>1. PICK x \in Uploads \cup {None} : x = sweep[c].id
    BY DEF RemoveUpload, Sweeping, UploadInv, TypeOK, Sweep
  <1>2. /\ sweep[c] # None /\ sweep[c] \in Sweep
        /\ record' = [record EXCEPT ![x] = None] /\ expiry' = [expiry EXCEPT ![x] = None]
        /\ UNCHANGED <<clock, url, tmp, final, finalized, calls>>
    BY <1>1 DEF RemoveUpload, Sweeping, UploadInv, TypeOK
  <1>3. PICK s : s = IF sweep[c].todo = {} THEN None
                     ELSE [sweep[c] EXCEPT !.id = None, !.step = "next"]
    OBVIOUS
  <1>4. s \in Sweep \cup {None} /\ (s # None => s.todo = sweep[c].todo /\ s.id = None)
    BY <1>2, <1>3 DEF Sweep
  <1>5. sweep' = [sweep EXCEPT ![c] = s]
    BY <1>3 DEF RemoveUpload, UploadInv, TypeOK
  <1>6. Shrinks(c, s)
    BY <1>4 DEF Shrinks
  <1>7. /\ sweep' \in [Cleaners -> Sweep \cup {None}]
        /\ \A u \in Uploads : InSweep(u)' => InSweep(u)
    BY <1>2, <1>4, <1>5, <1>6, SweepShrinks
  <1>8. TypeOK'
    BY <1>2, <1>7 DEF UploadInv, TypeOK
  <1>9. /\ \A u \in Uploads : record'[u] = IF u = x THEN None ELSE record[u]
        /\ \A u \in Uploads : expiry'[u] = IF u = x THEN None ELSE expiry[u]
    BY <1>2 DEF UploadInv, TypeOK
  <1>10. ASSUME NEW u \in Uploads PROVE UploadOK(u)'
    <2>1. CASE u = x
      <3>1. Over(u) /\ UploadOK(u)
        BY <1>1, <1>2, <2>1, SweptId DEF UploadInv, UploadsOK
      <3>2. Over(u)' /\ ~Pending(u)'
        BY <1>2, <1>9, <2>1, <3>1 DEF Over, Pending
      <3>. QED
        BY <1>2, <3>1, <3>2 DEF UploadOK
    <2>2. CASE u # x
      BY <1>2, <1>9, <2>2, UploadFrame DEF UploadInv, UploadsOK
    <2>. QED
      BY <2>1, <2>2
  <1>11. ASSUME NEW h \in Handlers, calls[h] # None, Presigns(calls[h])
         PROVE  record'[calls[h].id] = record[calls[h].id] /\ expiry'[calls[h].id] = expiry[calls[h].id]
    <2>1. PICK u \in Uploads : u = calls[h].id
      BY <1>11 DEF UploadInv, TypeOK, Call
    <2>2. u # x
      BY <1>1, <1>2, <1>11, <2>1, SweptId
    <2>. QED
      BY <1>9, <2>1, <2>2
  <1>12. CallsOK'
    BY <1>2, <1>11, CallsStay
  <1>13. SweepsOK'
    BY <1>2, <1>7, SweepsStay
  <1>. QED
    BY <1>8, <1>10, <1>12, <1>13 DEF UploadInv, UploadsOK

LEMMA StepAbortSweep ==
    ASSUME UploadInv, NEW c \in Cleaners, AbortSweep(c)
    PROVE  UploadInv'
  <1>1. PICK s \in Sweep \cup {None} : s = None
    OBVIOUS
  <1>2. /\ sweep[c] # None /\ sweep' = [sweep EXCEPT ![c] = s] /\ Shrinks(c, s)
        /\ UNCHANGED <<clock, record, expiry, url, tmp, final, finalized, calls>>
    BY <1>1 DEF AbortSweep, Shrinks
  <1>3. /\ sweep' \in [Cleaners -> Sweep \cup {None}]
        /\ \A u \in Uploads : InSweep(u)' => InSweep(u)
    BY <1>2, SweepShrinks
  <1>4. TypeOK' /\ UploadsOK'
    BY <1>2, <1>3, UploadFrame DEF UploadInv, TypeOK, UploadsOK
  <1>5. CallsOK' /\ SweepsOK'
    BY <1>2, <1>3, CallsStay, SweepsStay
  <1>. QED
    BY <1>4, <1>5 DEF UploadInv

\* Redis drops a record only when the time the client was given is over, and
\* never while its request still presigns it.
LEMMA StepTick ==
    ASSUME UploadInv, Tick
    PROVE  UploadInv'
  <1> USE NoneIsNothing
  <1>1. PICK now \in Nat : now = clock /\ clock' = now + 1 /\ now + 1 \in Nat
    BY DEF Tick, UploadInv, TypeOK
  <1>2. /\ UNCHANGED <<expiry, url, tmp, final, finalized, calls, sweep>>
        /\ \A u \in Uploads : record'[u] = Drop(record[u], now + 1)
        /\ record' \in [Uploads -> Record \cup {None}]
    BY <1>1 DEF Tick, UploadInv, TypeOK, Drop
  <1>3. TypeOK'
    BY <1>1, <1>2 DEF UploadInv, TypeOK
  <1>4. ASSUME NEW u \in Uploads PROVE Over(u) => Over(u)'
    <2>1. url[u] # None => url[u].expiresAt \in Int
      BY DEF UploadInv, TypeOK, Url
    <2>. QED
      BY <1>1, <1>2, <2>1, UploadTimes DEF Over
  <1>5. ASSUME NEW u \in Uploads PROVE UploadOK(u)'
    <2>1. UploadOK(u) /\ record[u] \in Record \cup {None}
      BY DEF UploadInv, UploadsOK, TypeOK
    <2>2. Pending(u)' => Pending(u)
      BY <1>2 DEF Pending, Drop
    <2>3. ASSUME ~Over(u)'
          PROVE  /\ Pending(u)' /\ expiry'[u] = url'[u].expiresAt
                 /\ record'[u].exp + MaxSkew >= url'[u].expiresAt
      <3>1. ~Over(u)
        BY <1>4, <2>3
      <3>2. /\ Pending(u) /\ expiry[u] = url[u].expiresAt
            /\ record[u].exp + MaxSkew >= url[u].expiresAt
        BY <2>1, <3>1 DEF UploadOK
      <3>3. record[u].exp \in Nat /\ url[u].expiresAt \in Int
        BY <2>1, <3>1, <3>2 DEF Pending, Record, Over, UploadInv, TypeOK, Url
      <3>4. now + 1 + MaxSkew < url[u].expiresAt
        BY <1>1, <1>2, <2>3, <3>3, UploadTimes DEF Over
      <3>5. ~(record[u].exp < now + 1)
        BY <3>2, <3>3, <3>4, UploadTimes
      <3>6. record'[u] = record[u]
        BY <1>2, <3>5 DEF Drop
      <3>. QED
        BY <1>2, <3>2, <3>6 DEF Pending
    <2>. QED
      BY <1>2, <2>1, <2>2, <2>3 DEF UploadOK
  <1>6. ASSUME NEW h \in Handlers, calls[h] # None PROVE CallOK(calls[h])'
    <2>1. PICK d \in Call : d = calls[h] /\ d = calls'[h] /\ CallOK(d) /\ d.id \in Uploads
      BY <1>2, <1>6 DEF UploadInv, TypeOK, CallsOK, Call
    <2>2. CASE Presigns(d)
      <3>1. PresignOK(d)
        BY <2>1, <2>2 DEF CallOK
      <3>2. now < d.at + MaxDelay /\ d.at \in Nat
        BY <1>1, <1>6, <2>1, <2>2 DEF Tick, Presigning, Presigns, Call
      <3>3. d.at <= clock' /\ clock' <= d.at + MaxDelay
        BY <1>1, <3>1, <3>2, UploadTimes DEF PresignOK
      <3>4. d.step \in {"index", "record"} => record'[d.id] = None
        BY <1>2, <2>1, <3>1 DEF PresignOK, Drop
      <3>5. ASSUME d.step = "sign" PROVE Pending(d.id)' /\ record'[d.id].exp >= d.at + TTL
        <4>1. Pending(d.id) /\ record[d.id].exp >= d.at + TTL /\ record[d.id].exp \in Nat
          BY <2>1, <3>1, <3>5 DEF PresignOK, Pending, UploadInv, TypeOK, Record
        <4>2. ~(record[d.id].exp < now + 1)
          BY <3>2, <4>1, UploadTimes
        <4>3. record'[d.id] = record[d.id]
          BY <1>2, <2>1, <4>2 DEF Drop
        <4>. QED
          BY <4>1, <4>3 DEF Pending
      <3>6. PresignOK(d)'
        BY <1>2, <3>1, <3>3, <3>4, <3>5 DEF PresignOK, ExpiresAt
      <3>. QED
        BY <2>1, <2>2, <3>6 DEF CallOK, Presigns
    <2>3. CASE ~Presigns(d)
      <3>1. FinalizeOK(d)'
        BY <1>2, <2>1, <2>3 DEF CallOK, FinalizeOK
      <3>. QED
        BY <2>1, <2>3, <3>1 DEF CallOK, Presigns
    <2>. QED
      BY <2>2, <2>3
  <1>7. CallsOK'
    BY <1>2, <1>6 DEF UploadInv, CallsOK, Presigns
  <1>8. SweepsOK'
    BY <1>2, <1>4 DEF UploadInv, SweepsOK, InSweep, Presigns
  <1>. QED
    BY <1>3, <1>5, <1>7, <1>8 DEF UploadInv, UploadsOK

(***************************************************************************)
(* The theorems.                                                           *)
(***************************************************************************)

LEMMA NextKeepsInv == UploadInv /\ [Next]_vars => UploadInv'
  <1> SUFFICES ASSUME UploadInv, [Next]_vars PROVE UploadInv'
    OBVIOUS
  <1>1. CASE \E h \in Handlers : Request(h)
    BY <1>1, RequestKeepsInv
  <1>2. CASE \E u \in Uploads : PutObject(u)
    BY <1>2, StepPutObject
  <1>3. CASE \E c \in Cleaners : StartSweep(c) \/ Clean(c) \/ AbortSweep(c)
    BY <1>3, StepStartSweep, StepGetExpired, StepDeleteOrphan, StepRemoveUpload, StepAbortSweep
       DEF Clean
  <1>4. CASE Tick
    BY <1>4, StepTick
  <1>5. CASE UNCHANGED vars
    BY <1>5 DEF vars, UploadInv, TypeOK, UploadsOK, UploadOK, Over, Pending, CallsOK, CallOK,
         Presigns, PresignOK, FinalizeOK, ExpiresAt, SweepsOK, InSweep
  <1>. QED
    BY <1>1, <1>2, <1>3, <1>4, <1>5 DEF Next

\* The invariant the rest follows from.
THEOREM UploadInvariant == Spec => []UploadInv
  BY UploadInvInit, NextKeepsInv, PTL DEF Spec

\* Records, index, urls and objects keep their types, whatever the ids, the
\* requests and the workers.
THEOREM UploadTypes == Spec => []TypeOK
  <1>1. UploadInv => TypeOK
    BY DEF UploadInv
  <1>. QED
    BY <1>1, UploadInvariant, PTL

\* createPresignedUpload's promise: until the expiresAt it answered, an upload
\* that is not copied yet has its pending record and its index entry, whatever
\* any number of sweeps do with clocks off by MaxSkew.
THEOREM PromiseKept == Spec => []FinalizableUntilExpiry
  <1>1. UploadInv => FinalizableUntilExpiry
    <2> SUFFICES ASSUME UploadInv, NEW u \in Uploads,
                        url[u] # None, u \notin final, clock + MaxSkew < url[u].expiresAt
                 PROVE  Pending(u) /\ expiry[u] = url[u].expiresAt
      BY DEF FinalizableUntilExpiry
    <2>1. url[u].expiresAt \in Int /\ clock \in Nat
      BY DEF UploadInv, TypeOK, Url
    <2>2. ~Over(u)
      BY <2>1, UploadTimes DEF Over
    <2>. QED
      BY <2>2 DEF UploadInv, UploadsOK, UploadOK
  <1>. QED
    BY <1>1, UploadInvariant, PTL

\* A pending record that is not in the index has a copied object: the order of
\* the writes of tracker.create and finalizeUpload, with every process dying
\* anywhere, never leaves another one.
THEOREM PendingIsIndexed == Spec => []PendingIsTracked
  <1>1. UploadInv => PendingIsTracked
    BY DEF UploadInv, UploadsOK, UploadOK, PendingIsTracked
  <1>. QED
    BY <1>1, UploadInvariant, PTL

\* No finalize that is sent after its upload was marked gets past its first
\* read: not even when the record has expired, or others are half way.
THEOREM LateFinalizeRefused == Spec => []LateFinalizeIsRefused
  <1>1. UploadInv => LateFinalizeIsRefused
    <2> SUFFICES ASSUME UploadInv, NEW h \in Handlers, calls[h] # None, calls[h].late
                 PROVE  calls[h].step = "get"
      BY DEF LateFinalizeIsRefused
    <2>1. CallOK(calls[h])
      BY DEF UploadInv, CallsOK
    <2>. QED
      BY <2>1 DEF CallOK, PresignOK, FinalizeOK
  <1>. QED
    BY <1>1, UploadInvariant, PTL

\* The object a request deletes has been copied, and the one a sweep deletes is
\* Over.
LEMMA DeleteStep ==
    ASSUME UploadInv, [Next]_vars, NEW u \in tmp \ tmp'
    PROVE  u \in final \/ clock + MaxSkew >= url[u].expiresAt
  <1>0. u \in Uploads /\ url[u] # None
    BY DEF UploadInv, TypeOK, UploadsOK, UploadOK
  <1>1. CASE \E h \in Handlers : DeleteTemporary(h)
    <2>1. PICK h \in Handlers : DeleteTemporary(h)
      BY <1>1
    <2>2. PICK d \in Call : d = calls[h] /\ d.step = "delete" /\ CallOK(d)
      BY <2>1, AtCall DEF DeleteTemporary
    <2>3. d.id \in final
      BY <2>2 DEF CallOK, Presigns, FinalizeOK
    <2>. QED
      BY <2>1, <2>2, <2>3 DEF DeleteTemporary
  <1>2. CASE \E c \in Cleaners : DeleteOrphan(c)
    <2>1. PICK c \in Cleaners : DeleteOrphan(c)
      BY <1>2
    <2>2. Over(u)
      BY <1>0, <2>1, SweptId DEF DeleteOrphan, Sweeping
    <2>. QED
      BY <1>0, <2>2 DEF Over
  <1>3. CASE /\ \A h \in Handlers : ~DeleteTemporary(h)
             /\ \A c \in Cleaners : ~DeleteOrphan(c)
    <2>1. ASSUME NEW h \in Handlers, Request(h) PROVE tmp' = tmp
      BY <1>3, <2>1 DEF Request, StartPresign, StartFinalize, IndexUpload, StoreRecord, SignUrl,
           Refused, GetUpload, HeadObject, ObjectMissing, CopyObject, Unindex, MarkFinalized, Fail
    <2>2. ASSUME NEW c \in Cleaners, StartSweep(c) \/ Clean(c) \/ AbortSweep(c) PROVE tmp' = tmp
      BY <1>3, <2>2 DEF Clean, StartSweep, GetExpired, RemoveUpload, AbortSweep
    <2>. QED
      BY <2>1, <2>2 DEF Next, PutObject, Tick, vars
  <1>. QED
    BY <1>1, <1>2, <1>3

\* An object leaves tmp/ only once it is at its final key or the client's time is
\* over: neither a finalize nor a sweep, however they interleave and whoever dies
\* between their commands, deletes it earlier.
THEOREM NothingDeletedEarly == Spec => DeletedWhenCopiedOrExpired
  <1>1. UploadInv /\ [Next]_vars =>
          [\A u \in tmp \ tmp' : u \in final \/ clock + MaxSkew >= url[u].expiresAt]_vars
    BY DeleteStep
  <1>. QED
    BY <1>1, UploadInvariant, PTL DEF Spec, DeletedWhenCopiedOrExpired

(***************************************************************************)
(* The refinement of UploadLedger.                                         *)
(***************************************************************************)

Promised   == {u \in Uploads : url[u] # None}
OpenOnes   == {u \in Uploads : Finalizable(u)}
OverOnes   == {u \in Uploads : TimeIsOver(u)}

\* A step that gives no url and makes nothing finalizable withdraws uploads, if
\* it does anything: by the invariant after it they are copied or over.
LEMMA OnlyWithdraws ==
    ASSUME UploadInv, UploadInv', UNCHANGED <<url, tmp, final, finalized>>,
           clock' = clock \/ clock' = clock + 1,
           \A u \in Uploads : Finalizable(u)' => Finalizable(u)
    PROVE  Ledger!Next
  <1> DEFINE S == OpenOnes \ OpenOnes'
  <1>1. Promised' = Promised /\ OverOnes' \subseteq Promised
    BY DEF Promised, OverOnes, TimeIsOver
  <1>2. ASSUME NEW u \in Uploads, TimeIsOver(u) PROVE TimeIsOver(u)'
    <2>1. url[u] # None /\ url[u].expiresAt \in Int /\ clock \in Nat
      BY <1>2 DEF TimeIsOver, UploadInv, TypeOK, Url
    <2>. QED
      BY <1>2, <2>1, UploadTimes DEF TimeIsOver
  <1>3. OverOnes' = OverOnes \cup OverOnes'
    BY <1>2 DEF OverOnes
  <1>4. ASSUME NEW u \in S PROVE u \in final \cup OverOnes'
    <2>1. u \in Uploads /\ Finalizable(u) /\ ~Finalizable(u)'
      BY DEF OpenOnes
    <2>2. url'[u] # None
      BY <2>1 DEF Finalizable
    <2>3. (Finalizable(u) \/ u \in final \/ TimeIsOver(u))'
      <3>1. UploadOK(u)'
        BY <2>1 DEF UploadInv, UploadsOK
      <3>. QED
        BY <2>2, <3>1 DEF UploadOK, Over, Finalizable, TimeIsOver
    <2>. QED
      BY <2>1, <2>3 DEF OverOnes
  <1>5. OpenOnes' = OpenOnes \ S
    BY DEF OpenOnes
  <1>6. Ledger!Withdraw(OverOnes', S)
    BY <1>1, <1>3, <1>4, <1>5 DEF Ledger!Withdraw, Promised, OpenOnes, OverOnes
  <1>7. S \in SUBSET Uploads /\ OverOnes' \in SUBSET Promised
    BY <1>1 DEF OpenOnes
  <1>. QED
    BY <1>6, <1>7 DEF Ledger!Next, Promised

\* Steps of which clients see nothing but what OnlyWithdraws says: of requests
\* that write no object and mark nothing, ...
LEMMA QuietRequests ==
    ASSUME UploadInv, NEW h \in Handlers, Request(h),
           ~SignUrl(h), ~CopyObject(h), ~DeleteTemporary(h), ~MarkFinalized(h)
    PROVE  /\ UNCHANGED <<url, tmp, final, finalized>> /\ clock' = clock
           /\ \A u \in Uploads : Finalizable(u)' => Finalizable(u)
  <1>1. CASE IndexUpload(h) \/ StoreRecord(h)
    <2>1. PICK d \in Call : d = calls[h] /\ Presigns(d) /\ CallOK(d) /\ d.id \in Uploads
      BY <1>1, AtCall DEF IndexUpload, StoreRecord, Presigns
    <2>2. url[d.id] = None
      BY <2>1 DEF CallOK, PresignOK
    <2>3. UNCHANGED <<clock, url, tmp, final, finalized>>
      BY <1>1 DEF IndexUpload, StoreRecord
    <2>4. ASSUME NEW u \in Uploads, u # d.id PROVE expiry'[u] = expiry[u] /\ record'[u] = record[u]
      BY <1>1, <2>1, <2>4 DEF IndexUpload, StoreRecord, UploadInv, TypeOK
    <2>5. ASSUME NEW u \in Uploads, Finalizable(u)' PROVE Finalizable(u)
      <3>1. u # d.id
        BY <2>2, <2>3, <2>5 DEF Finalizable
      <3>. QED
        BY <2>3, <2>4, <2>5, <3>1 DEF Finalizable, Pending
    <2>. QED
      BY <2>3, <2>5
  <1>2. CASE Unindex(h)
    <2>1. PICK x : x = calls[h].id
      OBVIOUS
    <2>2. UNCHANGED <<clock, record, url, tmp, final, finalized>> /\ expiry' = [expiry EXCEPT ![x] = None]
      BY <1>2, <2>1 DEF Unindex
    <2>3. ASSUME NEW u \in Uploads, Finalizable(u)' PROVE Finalizable(u)
      <3>1. url[u].expiresAt # None
        BY <2>2, <2>3, NoneIsNothing DEF Finalizable, UploadInv, TypeOK, Url
      <3>2. u # x
        BY <2>2, <2>3, <3>1 DEF Finalizable, UploadInv, TypeOK
      <3>. QED
        BY <2>2, <2>3, <3>2 DEF Finalizable, Pending, UploadInv, TypeOK
    <2>. QED
      BY <2>2, <2>3
  <1>3. CASE /\ ~IndexUpload(h) /\ ~StoreRecord(h) /\ ~Unindex(h)
    <2>1. UNCHANGED <<clock, record, expiry, url, tmp, final, finalized>>
      BY <1>3 DEF Request, StartPresign, StartFinalize, Refused, GetUpload, HeadObject, ObjectMissing,
         Fail
    <2>. QED
      BY <2>1 DEF Finalizable, Pending
  <1>. QED
    BY <1>1, <1>2, <1>3

\* ... of sweeps that delete no object, ...
LEMMA QuietSweeps ==
    ASSUME UploadInv, NEW c \in Cleaners, StartSweep(c) \/ Clean(c) \/ AbortSweep(c), ~DeleteOrphan(c)
    PROVE  /\ UNCHANGED <<url, tmp, final, finalized>> /\ clock' = clock
           /\ \A u \in Uploads : Finalizable(u)' => Finalizable(u)
  <1>1. CASE RemoveUpload(c)
    <2>1. PICK x : x = sweep[c].id
      OBVIOUS
    <2>2. /\ UNCHANGED <<clock, url, tmp, final, finalized>>
          /\ record' = [record EXCEPT ![x] = None] /\ expiry' = [expiry EXCEPT ![x] = None]
      BY <1>1, <2>1 DEF RemoveUpload
    <2>3. ASSUME NEW u \in Uploads, Finalizable(u)' PROVE Finalizable(u)
      <3>1. u # x
        BY <2>2, <2>3 DEF Finalizable, Pending, UploadInv, TypeOK
      <3>. QED
        BY <2>2, <2>3, <3>1 DEF Finalizable, Pending, UploadInv, TypeOK
    <2>. QED
      BY <2>2, <2>3
  <1>2. CASE ~RemoveUpload(c)
    <2>1. UNCHANGED <<clock, record, expiry, url, tmp, final, finalized>>
      BY <1>2 DEF Clean, StartSweep, GetExpired, AbortSweep
    <2>. QED
      BY <2>1 DEF Finalizable, Pending
  <1>. QED
    BY <1>1, <1>2

\* ... and of time.
LEMMA QuietTick ==
    ASSUME UploadInv, Tick
    PROVE  /\ UNCHANGED <<url, tmp, final, finalized>> /\ clock' = clock + 1
           /\ \A u \in Uploads : Finalizable(u)' => Finalizable(u)
  BY DEF Tick, Drop, Finalizable, Pending

\* The response of a presign request: the upload is finalizable, and its time is
\* not over, however long the request took and whatever the clocks say.
LEMMA SignPromises ==
    ASSUME UploadInv, NEW h \in Handlers, SignUrl(h)
    PROVE  \E u \in Uploads : Ledger!Promise(u)
  <1>1. PICK d \in Call :
           d = calls[h] /\ d.step = "sign" /\ CallOK(d) /\ d.id \in Uploads
    BY AtCall DEF SignUrl
  <1>2. PICK u \in Uploads : u = d.id
    BY <1>1
  <1>3. PICK e \in Int, n \in Int : e = ExpiresAt(d) /\ n = clock + d.offset + TTL
    BY UploadTimes DEF ExpiresAt, Call, UploadInv, TypeOK
  <1>4. PICK r : r = [expiresAt |-> e, until |-> n]
    OBVIOUS
  <1>5. r \in Url /\ r.expiresAt = e
    BY <1>4 DEF Url
  <1>6. /\ url' = [url EXCEPT ![u] = r]
        /\ UNCHANGED <<clock, record, expiry, tmp, final, finalized>>
    BY <1>1, <1>2, <1>3, <1>4 DEF SignUrl
  <1>7. PresignOK(d)
    BY <1>1 DEF Presigns, CallOK
  <1>8. url[u] = None /\ Pending(u) /\ expiry[u] = e
    BY <1>1, <1>2, <1>3, <1>7 DEF PresignOK
  <1>9. /\ url'[u] = r /\ r # None
        /\ \A v \in Uploads \ {u} : url'[v] = url[v]
    BY <1>5, <1>6, NoneIsNothing DEF UploadInv, TypeOK
  <1>10. clock + MaxSkew < e
    <2>1. d.at \in Nat /\ clock \in Nat /\ clock <= d.at + MaxDelay /\ d.offset \in Int
          /\ d.offset >= -MaxSkew
      BY <1>7, UploadTimes DEF PresignOK, Skews, Call, UploadInv, TypeOK
    <2>. QED
      BY <2>1, <1>3, UploadTimes DEF ExpiresAt
  <1>11. Promised' = Promised \cup {u} /\ u \notin Promised
    BY <1>8, <1>9 DEF Promised
  <1>12. OpenOnes' = OpenOnes \cup {u}
    <2>1. Finalizable(u)'
      BY <1>5, <1>6, <1>8, <1>9 DEF Finalizable, Pending
    <2>2. \A v \in Uploads \ {u} : Finalizable(v)' <=> Finalizable(v)
      BY <1>6, <1>9 DEF Finalizable, Pending
    <2>. QED
      BY <2>1, <2>2 DEF OpenOnes
  <1>13. OverOnes' = OverOnes
    <2>1. ~TimeIsOver(u)' /\ ~TimeIsOver(u)
      <3>1. ~TimeIsOver(u)
        BY <1>8 DEF TimeIsOver
      <3>2. ~(clock + MaxSkew >= e)
        BY <1>10, UploadTimes DEF UploadInv, TypeOK
      <3>3. ~TimeIsOver(u)'
        BY <3>2, <1>5, <1>6, <1>9 DEF TimeIsOver
      <3>. QED
        BY <3>1, <3>3
    <2>2. \A v \in Uploads \ {u} : TimeIsOver(v)' <=> TimeIsOver(v)
      BY <1>6, <1>9 DEF TimeIsOver
    <2>. QED
      BY <2>1, <2>2 DEF OverOnes
  <1>. QED
    BY <1>6, <1>11, <1>12, <1>13 DEF Ledger!Promise, Promised, OpenOnes, OverOnes

\* The commands on objects and the mark: only these change what a client sees
\* of the store.
LEMMA ObjectSteps ==
    ASSUME UploadInv, NEW h \in Handlers, CopyObject(h) \/ DeleteTemporary(h) \/ MarkFinalized(h)
    PROVE  \E u \in Uploads : Ledger!Keep(u) \/ Ledger!Discard(u) \/ Ledger!Report(u)
  <1>1. PICK d \in Call : d = calls[h] /\ d.step \in {"copy", "delete", "mark"} /\ CallOK(d)
                          /\ d.id \in Uploads
    BY AtCall DEF CopyObject, DeleteTemporary, MarkFinalized
  <1>2. d.step \in {"delete", "mark"} => d.id \in final
    BY <1>1 DEF CallOK, Presigns, FinalizeOK
  <1>3. UNCHANGED <<clock, url>>
    BY DEF CopyObject, DeleteTemporary, MarkFinalized
  <1>4. Promised' = Promised /\ OverOnes' = OverOnes
    BY <1>3 DEF Promised, OverOnes, TimeIsOver
  <1>5. CASE CopyObject(h) \/ DeleteTemporary(h)
    <2>1. UNCHANGED <<record, expiry>>
      BY <1>5 DEF CopyObject, DeleteTemporary
    <2>2. OpenOnes' = OpenOnes
      BY <1>3, <2>1 DEF OpenOnes, Finalizable, Pending
    <2>3. CASE CopyObject(h)
      BY <1>1, <1>4, <2>2, <2>3 DEF CopyObject, Ledger!Keep, Promised, OpenOnes, OverOnes
    <2>4. CASE DeleteTemporary(h)
      <3>1. d.id \in final
        BY <1>1, <1>2, <2>4 DEF DeleteTemporary, At
      <3>. QED
        BY <1>1, <1>4, <2>2, <2>4, <3>1
           DEF DeleteTemporary, Ledger!Discard, Promised, OpenOnes, OverOnes
    <2>. QED
      BY <1>5, <2>3, <2>4
  <1>6. CASE MarkFinalized(h)
    <2>1. PICK r : r = [status |-> "finalized", exp |-> clock + FinalTTL]
      OBVIOUS
    <2>2. /\ record' = [record EXCEPT ![d.id] = r] /\ finalized' = finalized \cup {d.id}
          /\ UNCHANGED <<expiry, tmp, final>>
      BY <1>1, <1>6, <2>1 DEF MarkFinalized
    <2>3. ~Finalizable(d.id)'
      BY <1>1, <2>1, <2>2 DEF Finalizable, Pending, UploadInv, TypeOK
    <2>4. \A v \in Uploads \ {d.id} : Finalizable(v)' <=> Finalizable(v)
      BY <1>3, <2>2 DEF Finalizable, Pending, UploadInv, TypeOK
    <2>5. OpenOnes' = OpenOnes \ {d.id}
      BY <2>3, <2>4 DEF OpenOnes
    <2>6. d.id \in final
      BY <1>1, <1>2, <1>6 DEF MarkFinalized, At
    <2>. QED
      BY <1>1, <1>4, <2>2, <2>5, <2>6 DEF Ledger!Report, Promised, OpenOnes, OverOnes
  <1>. QED
    BY <1>5, <1>6

\* The object a sweep deletes is owed to nobody.
LEMMA SweepDiscards ==
    ASSUME UploadInv, NEW c \in Cleaners, DeleteOrphan(c)
    PROVE  (\E u \in Uploads : Ledger!Discard(u)) \/ UNCHANGED Ledger!vars
  <1>1. PICK x : x = sweep[c].id
    OBVIOUS
  <1>2. tmp' = tmp \ {x} /\ UNCHANGED <<clock, record, expiry, url, final, finalized>>
    BY <1>1 DEF DeleteOrphan
  <1>3. Promised' = Promised /\ OpenOnes' = OpenOnes /\ OverOnes' = OverOnes
    BY <1>2 DEF Promised, OpenOnes, OverOnes, Finalizable, TimeIsOver, Pending
  <1>4. CASE x \in tmp
    <2>1. x \in Uploads /\ url[x] # None
      BY <1>4 DEF UploadInv, TypeOK, UploadsOK, UploadOK
    <2>2. Over(x)
      BY <1>1, <2>1, SweptId DEF DeleteOrphan, Sweeping
    <2>3. x \in final \cup OverOnes
      BY <2>1, <2>2 DEF Over, OverOnes, TimeIsOver
    <2>. QED
      BY <1>2, <1>3, <2>1, <2>3 DEF Ledger!Discard, Promised, OpenOnes, OverOnes
  <1>5. CASE x \notin tmp
    <2>1. tmp' = tmp
      BY <1>2, <1>5
    <2>. QED
      BY <1>2, <1>3, <2>1 DEF Ledger!vars, Promised, OpenOnes, OverOnes
  <1>. QED
    BY <1>4, <1>5

\* Presign requests, finalize requests and sweeps, cut into single commands of
\* Redis and S3, with clocks that differ and every process dying anywhere, are a
\* behaviour of UploadLedger: what the client was promised holds until its object
\* is copied or its time is over, what ends has ended for good, and what is
\* reported finalized is kept.
THEOREM KeepsTheLedger == Spec => ImplementsLedger
  <1>1. Init => Ledger!Init
    BY DEF Init, Ledger!Init, Finalizable, TimeIsOver
  <1>2. UploadInv /\ UploadInv' /\ [Next]_vars => [Ledger!Next]_(Ledger!vars)
    <2> SUFFICES ASSUME UploadInv, UploadInv', [Next]_vars
                 PROVE  Ledger!Next \/ UNCHANGED Ledger!vars
      OBVIOUS
    <2>1. ASSUME NEW h \in Handlers, Request(h) PROVE Ledger!Next
      <3>1. CASE SignUrl(h)
        BY <3>1, SignPromises DEF Ledger!Next
      <3>2. CASE CopyObject(h) \/ DeleteTemporary(h) \/ MarkFinalized(h)
        BY <3>2, ObjectSteps DEF Ledger!Next
      <3>3. CASE ~SignUrl(h) /\ ~CopyObject(h) /\ ~DeleteTemporary(h) /\ ~MarkFinalized(h)
        BY <2>1, <3>3, QuietRequests, OnlyWithdraws
      <3>. QED
        BY <3>1, <3>2, <3>3
    <2>2. ASSUME NEW u \in Uploads, PutObject(u) PROVE Ledger!Next
      <3>1. UNCHANGED <<clock, record, expiry, url, final, finalized>> /\ tmp' = tmp \cup {u}
            /\ url[u] # None
        BY <2>2 DEF PutObject
      <3>2. Promised' = Promised /\ OpenOnes' = OpenOnes /\ OverOnes' = OverOnes /\ u \in Promised
        BY <3>1 DEF Promised, OpenOnes, OverOnes, Finalizable, TimeIsOver, Pending
      <3>. QED
        BY <3>1, <3>2 DEF Ledger!Next, Ledger!Put, Promised, OpenOnes, OverOnes
    <2>3. ASSUME NEW c \in Cleaners, StartSweep(c) \/ Clean(c) \/ AbortSweep(c)
          PROVE  Ledger!Next \/ UNCHANGED Ledger!vars
      <3>1. CASE DeleteOrphan(c)
        BY <3>1, SweepDiscards DEF Ledger!Next
      <3>2. CASE ~DeleteOrphan(c)
        BY <2>3, <3>2, QuietSweeps, OnlyWithdraws
      <3>. QED
        BY <3>1, <3>2
    <2>4. CASE Tick
      BY <2>4, QuietTick, OnlyWithdraws
    <2>5. CASE UNCHANGED vars
      BY <2>5 DEF vars, Ledger!vars, Finalizable, TimeIsOver, Pending
    <2>. QED
      BY <2>1, <2>2, <2>3, <2>4, <2>5 DEF Next
  <1>. QED
    BY <1>1, <1>2, UploadInvariant, PTL DEF Spec, ImplementsLedger, Ledger!Spec
=============================================================================
