-------------------------- MODULE WebSessionProofs --------------------------
(***************************************************************************)
(* Proofs about WebSession, for any number of requests of a browser, of    *)
(* sessions and of lost messages.                                          *)
(*                                                                         *)
(* The invariant rests on who holds a session: a renewed session is in one *)
(* response only and in no cookie and no request before that response has  *)
(* arrived, so nobody can renew it further; and the store keeps alive only *)
(* the last session of a login.  While nothing disturbs the browser it has *)
(* at most one live session, and a login or a logout has the browser for   *)
(* itself.                                                                 *)
(***************************************************************************)
EXTENDS WebSession, FiniteSetTheorems, TLAPS

\* Ids are minted one after the other.
MintedInOrder == \E n \in 0..MaxId : Minted = 1..n

\* No session of the login of i is newer than i.
Last(i) == \A j \in Minted : login[j] = login[i] => j <= i

LedgerOK ==
    /\ live \subseteq Minted
    /\ \A i \in Minted : login[i] \in Minted /\ login[i] <= i
    /\ \A i \in live : Last(i)

StepsOK(r) ==
    /\ r.kind = "login" => r.step \in {"login", "done"} /\ r.refresh = None
    /\ r.kind = "logout" => r.step \in {"revoke", "done"} /\ r.auth = None
    /\ r.step = "login" => r.kind = "login" /\ r.auth = None
    /\ r.step = "revoke" => r.kind = "logout"
    /\ r.step = "done" /\ r.auth # None => r.answer = "data"

\* A session that a request has renewed is the last of its login, and the refresh
\* token it came with is used up.
RequestOK(r) ==
    /\ StepsOK(r)
    /\ r.refresh \in Minted \cup {None} /\ r.auth \in Minted \cup {None}
    /\ r.auth # None => r.refresh \notin live /\ Last(r.auth)

RequestsOK == \A t \in Tabs : Busy(t) => RequestOK(requests[t])

\* A session that is on its way to the browser is nowhere else.
HeldOnce ==
    /\ cookies.refresh \in Minted \cup {None}
    /\ cookies.access # None => cookies.access = cookies.refresh
    /\ \A t \in Tabs : Busy(t) /\ requests[t].auth # None =>
          /\ requests[t].auth # cookies.refresh
          /\ requests[t].auth # requests[t].refresh
          /\ \A s \in Tabs \ {t} : Busy(s) =>
                requests[t].auth # requests[s].auth /\ requests[t].auth # requests[s].refresh

CalmRequest(t) ==
    /\ requests[t].auth # None => live \subseteq {requests[t].auth}
    /\ requests[t].kind \in {"login", "logout"} => \A s \in Tabs \ {t} : ~Busy(s)
    /\ requests[t].step = "login" => live = {} /\ cookies.refresh = None
    /\ requests[t].step = "revoke" => requests[t].access = cookies.refresh
    /\ requests[t].step = "done" /\ requests[t].kind = "logout" => live = {}

\* What holds while nothing has disturbed the browser.
Calm ==
    /\ \A i \in live : i = cookies.refresh \/ OnItsWay(i)
    /\ \A t \in Tabs : Busy(t) => CalmRequest(t)

WebInv ==
    /\ TypeOK /\ MintedInOrder /\ LedgerOK /\ RequestsOK /\ HeldOnce
    /\ ~disturbed => Calm

LEMMA WebInvInit == Init => WebInv
  <1> SUFFICES ASSUME Init PROVE WebInv
    OBVIOUS
  <1> USE WebAssumption
  <1>1. /\ live = {} /\ login = [i \in Ids |-> None] /\ cookies = NoCookies
        /\ requests = [t \in Tabs |-> None] /\ expired = {} /\ faults = 0 /\ disturbed = FALSE
    BY DEF Init, Store!Init
  <1>2. TypeOK
    <2>1. cookies \in [access : IdOrNone, refresh : IdOrNone]
      BY <1>1 DEF NoCookies, IdOrNone
    <2>2. login \in [Ids -> IdOrNone] /\ requests \in [Tabs -> Request \cup {None}]
      BY <1>1 DEF IdOrNone
    <2>3. faults \in 0..MaxFaults
      BY <1>1
    <2>4. live \in SUBSET Ids /\ expired \in SUBSET Ids
      BY <1>1
    <2>5. disturbed \in BOOLEAN
      BY <1>1
    <2>. QED
      BY <2>1, <2>2, <2>3, <2>4, <2>5 DEF TypeOK
  <1>3. Minted = {} /\ 1..0 = {}
    BY <1>1 DEF Minted
  <1>4. MintedInOrder
    BY <1>3 DEF MintedInOrder
  <1>5. LedgerOK /\ RequestsOK /\ HeldOnce
    BY <1>1, <1>3 DEF LedgerOK, RequestsOK, HeldOnce, Busy, NoCookies
  <1>6. Calm
    BY <1>1 DEF Calm, Busy
  <1>. QED
    BY <1>2, <1>4, <1>5, <1>6 DEF WebInv

(***************************************************************************)
(* The store.                                                              *)
(***************************************************************************)

\* The next id is the one after all that are minted.
LEMMA FreshId ==
    ASSUME WebInv, NEW i \in Ids, Fresh(i)
    PROVE  /\ i \notin Minted /\ login[i] = None
           /\ \A j \in Minted : j \in Nat /\ j < i
           /\ i - 1 \in 0..MaxId /\ Minted = 1..(i - 1) /\ i \in Nat
  <1> USE WebAssumption
  <1>1. PICK n \in 0..MaxId : Minted = 1..n
    BY DEF WebInv, MintedInOrder
  <1>2. Cardinality(1..n) = n
    <2>1. Cardinality(1..n) = IF 1 > n THEN 0 ELSE n - 1 + 1
      BY FS_Interval
    <2>. QED
      BY <2>1
  <1>3. i = n + 1
    BY <1>1, <1>2 DEF Fresh
  <1>. QED
    BY <1>1, <1>3 DEF Minted, Ids

StoreTyped == live \in SUBSET Ids /\ login \in [Ids -> IdOrNone]

\* A login opens a login of its own.
LEMMA OpenStep ==
    ASSUME WebInv, NEW i \in Ids, Fresh(i), Store!Open(i)
    PROVE  /\ StoreTyped' /\ MintedInOrder' /\ LedgerOK' /\ Last(i)'
           /\ Minted' = Minted \cup {i} /\ live' = live \cup {i}
           /\ \A a \in Minted : Last(a) => Last(a)'
  <1> USE WebAssumption
  <1>1. /\ i \notin Minted /\ i \in Nat /\ \A j \in Minted : j \in Nat /\ j < i
        /\ Minted = 1..(i - 1) /\ i - 1 \in 0..MaxId
    BY FreshId
  <1>2. /\ live' = live \cup {i} /\ login' = [login EXCEPT ![i] = i]
        /\ login \in [Ids -> IdOrNone] /\ live \in SUBSET Ids
    BY DEF Store!Open, WebInv, TypeOK
  <1>3. /\ StoreTyped' /\ \A j \in Ids : login'[j] = IF j = i THEN i ELSE login[j]
    BY <1>2 DEF StoreTyped, IdOrNone
  <1>4. Minted' = Minted \cup {i}
    BY <1>3 DEF Minted, Ids
  <1>5. MintedInOrder'
    <2>1. i \in 0..MaxId /\ Minted' = 1..i
      BY <1>1, <1>4 DEF Ids
    <2>. QED
      BY <2>1 DEF MintedInOrder
  <1>6. /\ \A j \in Minted : j \in Ids /\ j # i /\ login'[j] = login[j] /\ login[j] \in Minted
                             /\ login[j] <= j
        /\ login'[i] = i
    BY <1>1, <1>3 DEF Minted, WebInv, LedgerOK
  <1>7. ASSUME NEW a \in Minted, Last(a) PROVE Last(a)'
    <2> SUFFICES ASSUME NEW j \in Minted', login'[j] = login'[a] PROVE j <= a
      BY DEF Last
    <2>1. login'[a] # i
      BY <1>1, <1>6
    <2>2. j \in Minted
      BY <1>4, <1>6, <2>1
    <2>. QED
      BY <1>6, <1>7, <2>2 DEF Last
  <1>8. Last(i)'
    <2> SUFFICES ASSUME NEW j \in Minted', login'[j] = login'[i] PROVE j <= i
      BY DEF Last
    <2>. QED
      BY <1>1, <1>4
  <1>9. LedgerOK'
    <2>1. live' \subseteq Minted' /\ \A j \in live' : Last(j)'
      BY <1>2, <1>4, <1>7, <1>8 DEF WebInv, LedgerOK
    <2>2. ASSUME NEW j \in Minted' PROVE login'[j] \in Minted' /\ login'[j] <= j
      BY <1>1, <1>4, <1>6
    <2>. QED
      BY <2>1, <2>2 DEF LedgerOK
  <1>. QED
    BY <1>2, <1>3, <1>4, <1>5, <1>7, <1>8, <1>9

\* A rotation outdates the session it replaces, and no other.
LEMMA RotateStep ==
    ASSUME WebInv, NEW i \in Ids, Fresh(i), NEW x \in live, Store!Rotate(x, i)
    PROVE  /\ StoreTyped' /\ MintedInOrder' /\ LedgerOK' /\ Last(i)'
           /\ Minted' = Minted \cup {i} /\ live' = (live \ {x}) \cup {i}
           /\ \A a \in Minted : Last(a) /\ a # x => Last(a)'
  <1> USE WebAssumption
  <1>1. /\ i \notin Minted /\ i \in Nat /\ \A j \in Minted : j \in Nat /\ j < i
        /\ Minted = 1..(i - 1) /\ i - 1 \in 0..MaxId
    BY FreshId
  <1>2. /\ live' = (live \ {x}) \cup {i} /\ login' = [login EXCEPT ![i] = login[x]]
        /\ login \in [Ids -> IdOrNone] /\ live \in SUBSET Ids
        /\ x \in Minted /\ x \in Ids /\ login[x] \in Minted /\ Last(x) /\ login[x] <= x
    BY DEF Store!Rotate, WebInv, TypeOK, LedgerOK
  <1>3. /\ StoreTyped' /\ \A j \in Ids : login'[j] = IF j = i THEN login[x] ELSE login[j]
    BY <1>2 DEF StoreTyped, IdOrNone
  <1>4. Minted' = Minted \cup {i}
    BY <1>2, <1>3 DEF Minted, Ids
  <1>5. MintedInOrder'
    <2>1. i \in 0..MaxId /\ Minted' = 1..i
      BY <1>1, <1>4 DEF Ids
    <2>. QED
      BY <2>1 DEF MintedInOrder
  <1>6. /\ \A j \in Minted : j \in Ids /\ j # i /\ login'[j] = login[j] /\ login[j] \in Minted
                             /\ login[j] <= j
        /\ login'[i] = login[x]
    BY <1>1, <1>3 DEF Minted, WebInv, LedgerOK
  <1>7. ASSUME NEW a \in Minted, Last(a), a # x PROVE Last(a)'
    <2> SUFFICES ASSUME NEW j \in Minted', login'[j] = login'[a] PROVE j <= a
      BY DEF Last
    <2>1. login[a] # login[x]
      <3>1. login[a] = login[x] => a <= x /\ x <= a
        BY <1>2, <1>7 DEF Last
      <3>. QED
        BY <1>1, <1>2, <1>7, <3>1
    <2>2. j \in Minted
      BY <1>4, <1>6, <2>1
    <2>. QED
      BY <1>6, <1>7, <2>2 DEF Last
  <1>8. Last(i)'
    <2> SUFFICES ASSUME NEW j \in Minted', login'[j] = login'[i] PROVE j <= i
      BY DEF Last
    <2>. QED
      BY <1>1, <1>4
  <1>9. LedgerOK'
    <2>1. live' \subseteq Minted' /\ \A j \in live' : Last(j)'
      BY <1>2, <1>4, <1>7, <1>8 DEF WebInv, LedgerOK
    <2>2. ASSUME NEW j \in Minted' PROVE login'[j] \in Minted' /\ login'[j] <= j
      BY <1>1, <1>2, <1>4, <1>6
    <2>. QED
      BY <2>1, <2>2 DEF LedgerOK
  <1>. QED
    BY <1>2, <1>3, <1>4, <1>5, <1>7, <1>8, <1>9

LEMMA EndStep ==
    ASSUME WebInv, NEW S, Store!End(S)
    PROVE  /\ StoreTyped' /\ MintedInOrder' /\ LedgerOK' /\ Minted' = Minted
           /\ live' \subseteq live /\ live' = live \ S /\ \A a \in Minted : Last(a) => Last(a)'
  BY DEF Store!End, WebInv, TypeOK, StoreTyped, MintedInOrder, LedgerOK, Minted, Last

LEMMA StoreStays ==
    ASSUME WebInv, UNCHANGED <<live, login>>
    PROVE  /\ StoreTyped' /\ MintedInOrder' /\ LedgerOK' /\ Minted' = Minted
           /\ \A a \in Minted : Last(a) => Last(a)'
  BY DEF WebInv, TypeOK, StoreTyped, MintedInOrder, LedgerOK, Minted, Last

(***************************************************************************)
(* Frames.                                                                 *)
(***************************************************************************)

\* The store moves on and outdates no session but x.
StoreMoves(x) ==
    /\ StoreTyped' /\ MintedInOrder' /\ LedgerOK' /\ Minted \subseteq Minted'
    /\ live' \subseteq live \cup (Minted' \ Minted)
    /\ \A a \in Minted : Last(a) /\ a # x => Last(a)'

LEMMA Moves ==
    ASSUME WebInv
    PROVE  /\ UNCHANGED <<live, login>> => StoreMoves(None)
           /\ \A S : Store!End(S) => StoreMoves(None)
           /\ \A i \in Ids : Fresh(i) /\ Store!Open(i) => StoreMoves(None)
           /\ \A i \in Ids, x \in live : Fresh(i) /\ Store!Rotate(x, i) => StoreMoves(x)
  <1>1. UNCHANGED <<live, login>> => StoreMoves(None)
    BY StoreStays DEF StoreMoves
  <1>2. ASSUME NEW S, Store!End(S) PROVE StoreMoves(None)
    BY <1>2, EndStep DEF StoreMoves
  <1>3. ASSUME NEW i \in Ids, Fresh(i), Store!Open(i) PROVE StoreMoves(None)
    BY <1>3, OpenStep, FreshId DEF StoreMoves
  <1>4. ASSUME NEW i \in Ids, NEW x \in live, Fresh(i), Store!Rotate(x, i) PROVE StoreMoves(x)
    BY <1>4, RotateStep, FreshId DEF StoreMoves
  <1>. QED
    BY <1>1, <1>2, <1>3, <1>4

LEMMA NoneNotMinted == None \notin Minted /\ None \notin Minted'
  BY WebAssumption DEF Minted, Ids

\* A request that does not hold x stays good.
LEMMA OldRequest ==
    ASSUME WebInv, NEW x, StoreMoves(x), NEW q \in Request, RequestOK(q), q.auth # None => q.auth # x
    PROVE  RequestOK(q)'
  <1>1. q.refresh \in Minted' \cup {None} /\ q.auth \in Minted' \cup {None}
    BY DEF RequestOK, StoreMoves
  <1>2. ASSUME q.auth # None PROVE q.refresh \notin live' /\ Last(q.auth)'
    <2>1. q.refresh \notin live /\ Last(q.auth) /\ q.auth \in Minted /\ q.refresh \in Minted \cup {None}
      BY <1>2 DEF RequestOK
    <2>2. q.refresh \notin Minted' \ Minted
      BY <2>1, NoneNotMinted
    <2>. QED
      BY <1>2, <2>1, <2>2 DEF StoreMoves
  <1>. QED
    BY <1>1, <1>2 DEF RequestOK, StepsOK

\* What no other request and no cookie may share with r, the request of t.
Apart(t, r) ==
    /\ r.auth # None => r.auth # cookies.refresh /\ r.auth # r.refresh
    /\ \A s \in Tabs \ {t} : Busy(s) =>
          /\ r.auth # None => r.auth # requests[s].auth /\ r.auth # requests[s].refresh
          /\ requests[s].auth # None => requests[s].auth # r.refresh

\* The request of a tab is replaced.
LEMMA PutStep ==
    ASSUME WebInv, NEW t \in Tabs, NEW r \in Request, requests' = [requests EXCEPT ![t] = r],
           NEW x, StoreMoves(x),
           \A s \in Tabs \ {t} : Busy(s) /\ requests[s].auth # None => requests[s].auth # x,
           RequestOK(r)', Apart(t, r), cookies' = cookies
    PROVE  requests' \in [Tabs -> Request \cup {None}] /\ RequestsOK' /\ HeldOnce'
  <1>1. /\ requests' \in [Tabs -> Request \cup {None}] /\ requests \in [Tabs -> Request \cup {None}]
        /\ \A s \in Tabs : requests'[s] = IF s = t THEN r ELSE requests[s]
    BY DEF WebInv, TypeOK
  <1>2. ASSUME NEW s \in Tabs, requests'[s] # None PROVE RequestOK(requests[s])'
    <2>1. CASE s = t
      BY <1>1, <2>1
    <2>2. CASE s # t
      <3>1. PICK q \in Request : q = requests[s] /\ q = requests'[s] /\ q # None
        BY <1>1, <1>2, <2>2
      <3>2. RequestOK(q)
        BY <3>1 DEF WebInv, RequestsOK, Busy
      <3>3. q.auth # None => q.auth # x
        BY <3>1, <2>2 DEF Busy
      <3>4. RequestOK(q)'
        BY <3>2, <3>3, OldRequest
      <3>. QED
        BY <3>1, <3>4
    <2>. QED
      BY <2>1, <2>2
  <1>3. RequestsOK'
    BY <1>2 DEF RequestsOK, Busy
  <1>4. ASSUME NEW u \in Tabs, requests'[u] # None, requests'[u].auth # None
        PROVE  /\ requests'[u].auth # cookies.refresh
               /\ requests'[u].auth # requests'[u].refresh
               /\ \A s \in Tabs \ {u} : requests'[s] # None =>
                     requests'[u].auth # requests'[s].auth /\ requests'[u].auth # requests'[s].refresh
    <2>1. CASE u = t
      BY <1>1, <1>4, <2>1 DEF Apart, Busy
    <2>2. CASE u # t
      BY <1>1, <1>4, <2>2 DEF Apart, Busy, WebInv, HeldOnce
    <2>. QED
      BY <2>1, <2>2
  <1>5. cookies'.refresh \in Minted' \cup {None}
    BY DEF WebInv, HeldOnce, StoreMoves
  <1>6. HeldOnce'
    BY <1>4, <1>5 DEF WebInv, HeldOnce, Busy
  <1>. QED
    BY <1>1, <1>3, <1>6

OtherTyped == expired \in SUBSET Ids /\ faults \in 0..MaxFaults /\ disturbed \in BOOLEAN

\* The web server takes a request a step further.
LEMMA ServerStep ==
    ASSUME WebInv, NEW t \in Tabs, NEW q \in Request, q = requests[t], Busy(t),
           NEW r \in Request, requests' = [requests EXCEPT ![t] = r],
           NEW x \in {None, q.refresh}, StoreMoves(x),
           r.kind = q.kind, r.refresh = q.refresh, StepsOK(r),
           \/ r.auth \in {None, q.auth}
           \/ r.auth \in Minted' \ Minted /\ Last(r.auth)' /\ q.refresh \notin live',
           cookies' = cookies, OtherTyped', ~disturbed' => Calm'
    PROVE  WebInv'
  <1>1. RequestOK(q)
    BY DEF WebInv, RequestsOK
  <1>2. /\ q.auth # None => q.auth # q.refresh /\ q.auth # cookies.refresh
        /\ \A s \in Tabs \ {t} : Busy(s) =>
              /\ q.auth # None => q.auth # requests[s].auth /\ q.auth # requests[s].refresh
              /\ requests[s].auth # None => requests[s].auth # q.refresh
              /\ requests[s].refresh \in Minted \cup {None} /\ requests[s].auth \in Minted \cup {None}
    BY DEF WebInv, HeldOnce, RequestsOK, RequestOK
  <1>3. q.refresh \in Minted \cup {None} /\ cookies.refresh \in Minted \cup {None}
    BY <1>1 DEF RequestOK, WebInv, HeldOnce
  <1>4. Apart(t, r)
    <2>1. CASE r.auth \in {None, q.auth}
      BY <2>1, <1>2 DEF Apart
    <2>2. CASE r.auth \in Minted' \ Minted
      BY <2>2, <1>2, <1>3, NoneNotMinted DEF Apart
    <2>. QED
      BY <2>1, <2>2
  <1>5. RequestOK(r)'
    <2>1. CASE r.auth \in {None, q.auth}
      <3>1. q.auth # None => q.auth # x
        BY <1>2
      <3>2. RequestOK(q)'
        BY <1>1, <3>1, OldRequest
      <3>. QED
        BY <2>1, <3>2, NoneNotMinted DEF RequestOK, StepsOK
    <2>2. CASE r.auth \in Minted' \ Minted /\ Last(r.auth)' /\ q.refresh \notin live'
      BY <2>2, <1>3 DEF RequestOK, StepsOK, StoreMoves
    <2>. QED
      BY <2>1, <2>2
  <1>6. \A s \in Tabs \ {t} : Busy(s) /\ requests[s].auth # None => requests[s].auth # x
    BY <1>2
  <1>7. requests' \in [Tabs -> Request \cup {None}] /\ RequestsOK' /\ HeldOnce'
    BY <1>4, <1>5, <1>6, PutStep
  <1>8. TypeOK'
    BY <1>7 DEF TypeOK, WebInv, OtherTyped, StoreMoves, StoreTyped
  <1>. QED
    BY <1>7, <1>8 DEF WebInv, StoreMoves

LEMMA FinishedIs ==
    ASSUME NEW q \in Request, NEW a \in Answers
    PROVE  \E r \in Request :
              /\ r = Finished(q, a) /\ r.kind = q.kind /\ r.refresh = q.refresh
              /\ r.step = "done" /\ r.answer = a /\ r.auth = IF a = "data" THEN q.auth ELSE None
  <1>1. PICK x \in IdOrNone : x = IF a = "data" THEN q.auth ELSE None
    BY DEF IdOrNone, Request
  <1>2. PICK r : r = [q EXCEPT !.step = "done", !.answer = a, !.access = None, !.retried = FALSE,
                               !.auth = x]
    OBVIOUS
  <1>3. r = Finished(q, a)
    BY <1>1, <1>2 DEF Finished
  <1>4. /\ r \in Request /\ r.kind = q.kind /\ r.refresh = q.refresh
        /\ r.step = "done" /\ r.answer = a /\ r.auth = x
    BY <1>2 DEF Request, Steps, IdOrNone
  <1>. QED
    BY <1>1, <1>3, <1>4

\* The request of a busy tab.
LEMMA BusyTab ==
    ASSUME WebInv, NEW t \in Tabs, Busy(t)
    PROVE  /\ requests[t] \in Request /\ RequestOK(requests[t]) /\ StepsOK(requests[t])
           /\ ~disturbed => CalmRequest(t)
  BY DEF WebInv, TypeOK, Busy, RequestsOK, RequestOK, Calm

\* A page or API request goes on with the session it has.
LEMMA CalmKept ==
    ASSUME WebInv, ~disturbed, NEW t \in Tabs, Busy(t), NEW r \in Request,
           requests' = [requests EXCEPT ![t] = r], UNCHANGED <<live, cookies>>,
           r.auth = requests[t].auth, r.kind = requests[t].kind, r.kind \notin {"login", "logout"},
           StepsOK(r)
    PROVE  Calm'
  <1>1. r # None
    BY NoneIsNoRequest
  <1>2. \A s \in Tabs : requests'[s] = IF s = t THEN r ELSE requests[s]
    BY DEF WebInv, TypeOK
  <1>3. \A s \in Tabs : Busy(s)' <=> Busy(s)
    BY <1>1, <1>2 DEF Busy
  <1>4. Calm
    BY DEF WebInv
  <1>5. \A i : OnItsWay(i) => OnItsWay(i)'
    BY <1>2, <1>3 DEF OnItsWay
  <1>6. ASSUME NEW s \in Tabs, Busy(s) PROVE CalmRequest(s)'
    <2>1. CASE s = t
      BY <1>2, <1>4, <1>6, <2>1 DEF Calm, CalmRequest, StepsOK
    <2>2. CASE s # t
      <3>1. requests'[s] = requests[s]
        BY <1>2, <2>2
      <3>. QED
        BY <1>3, <1>4, <1>6, <3>1 DEF Calm, CalmRequest
    <2>. QED
      BY <2>1, <2>2
  <1>. QED
    BY <1>3, <1>4, <1>5, <1>6 DEF Calm

(***************************************************************************)
(* The web server calls the API.                                           *)
(***************************************************************************)

LEMMA AnswerStep ==
    ASSUME WebInv, NEW t \in Tabs, Busy(t), requests[t].kind \notin {"login", "logout"},
           NEW a \in Answers, Answer(t, a), UNCHANGED <<live, login, cookies, expired, faults>>
    PROVE  WebInv'
  <1>1. PICK q \in Request : q = requests[t] /\ RequestOK(q) /\ StepsOK(q)
    BY BusyTab
  <1>2. PICK r \in Request :
              /\ r = Finished(q, a) /\ r.kind = q.kind /\ r.refresh = q.refresh
              /\ r.step = "done" /\ r.answer = a /\ r.auth = IF a = "data" THEN q.auth ELSE None
    BY FinishedIs
  <1>3. requests' = [requests EXCEPT ![t] = r] /\ disturbed' = (disturbed \/ (a # "data" /\ q.auth # None))
    BY <1>1, <1>2 DEF Answer, Put, Disturb
  <1>4. StepsOK(r)
    BY <1>1, <1>2 DEF StepsOK
  <1>5. ASSUME ~disturbed' PROVE Calm'
    <2>1. ~disturbed /\ r.auth = q.auth
      BY <1>2, <1>3, <1>5
    <2>. QED
      BY <1>1, <1>2, <1>3, <1>4, <2>1, CalmKept
  <1>6. OtherTyped'
    BY <1>3 DEF OtherTyped, WebInv, TypeOK
  <1>7. StoreMoves(None)
    BY Moves
  <1>8. r.auth \in {None, q.auth}
    BY <1>2
  <1>9. cookies' = cookies
    OBVIOUS
  <1>. QED
    BY <1>1, <1>2, <1>3, <1>4, <1>5, <1>6, <1>7, <1>8, <1>9, ServerStep

LEMMA RefuseStep ==
    ASSUME WebInv, NEW t \in Tabs, Busy(t), requests[t].kind \notin {"login", "logout"},
           Refuse(t), UNCHANGED <<live, login, cookies, expired, faults>>
    PROVE  WebInv'
  <1>1. CASE requests[t].kind \notin Optional
    BY <1>1, AnswerStep DEF Refuse, Answers
  <1>2. CASE requests[t].kind \in Optional
    <2>1. PICK q \in Request : q = requests[t] /\ RequestOK(q) /\ StepsOK(q)
      BY BusyTab
    <2>2. PICK r : r = [q EXCEPT !.step = "public", !.auth = None]
      OBVIOUS
    <2>3. /\ r \in Request /\ r.kind = q.kind /\ r.refresh = q.refresh /\ r.step = "public"
          /\ r.auth = None
      BY <2>2 DEF Request, Steps, IdOrNone
    <2>4. requests' = [requests EXCEPT ![t] = r] /\ disturbed' = (disturbed \/ q.auth # None)
      BY <1>2, <2>1, <2>2 DEF Refuse, Put, Disturb
    <2>5. StepsOK(r)
      BY <2>1, <2>3 DEF StepsOK
    <2>6. ASSUME ~disturbed' PROVE Calm'
      <3>1. ~disturbed /\ r.auth = q.auth
        BY <2>3, <2>4, <2>6
      <3>2. UNCHANGED <<live, cookies>>
        OBVIOUS
      <3>. QED
        BY <2>1, <2>3, <2>4, <2>5, <3>1, <3>2, CalmKept
    <2>7. OtherTyped'
      BY <2>4 DEF OtherTyped, WebInv, TypeOK
    <2>8. StoreMoves(None)
      BY Moves
    <2>. QED
      BY <2>1, <2>3, <2>4, <2>5, <2>6, <2>7, <2>8, ServerStep
  <1>. QED
    BY <1>1, <1>2

\* Steps at which a request of a page or an API route may be.
LEMMA PlainKind ==
    ASSUME WebInv, NEW t \in Tabs, NEW step \in {"refresh", "call", "public"}, At(t, step)
    PROVE  Busy(t) /\ requests[t].kind \notin {"login", "logout"}
  BY BusyTab DEF At, StepsOK

LEMMA StepCall ==
    ASSUME WebInv, NEW t \in Tabs,
           CallSucceeds(t) \/ CallFails(t) \/ CallPublic(t) \/ RefreshRefused(t)
    PROVE  WebInv'
  <1>1. CASE CallSucceeds(t)
    BY <1>1, PlainKind, AnswerStep DEF CallSucceeds, Answers
  <1>2. CASE CallFails(t)
    BY <1>2, PlainKind, AnswerStep DEF CallFails, Answers
  <1>3. CASE CallPublic(t)
    BY <1>3, PlainKind, AnswerStep DEF CallPublic, Answers
  <1>4. CASE RefreshRefused(t)
    <2>1. Busy(t) /\ requests[t].kind \notin {"login", "logout"}
      BY <1>4, PlainKind DEF RefreshRefused
    <2>2. Answer(t, "unauthorized") \/ Refuse(t)
      BY <1>4 DEF RefreshRefused
    <2>. QED
      BY <1>4, <2>1, <2>2, AnswerStep, RefuseStep DEF RefreshRefused, Answers
  <1>. QED
    BY <1>1, <1>2, <1>3, <1>4

\* An expired access token is renewed with the refresh token of the cookie, once.
LEMMA StepCallRejected ==
    ASSUME WebInv, NEW t \in Tabs, CallRejected(t)
    PROVE  WebInv'
  <1>1. Busy(t) /\ requests[t].kind \notin {"login", "logout"}
    BY PlainKind DEF CallRejected
  <1>2. UNCHANGED <<live, login, cookies, expired, faults>>
    BY DEF CallRejected
  <1>3. CASE requests[t].retried
    BY <1>1, <1>2, <1>3, RefuseStep DEF CallRejected
  <1>4. CASE ~requests[t].retried
    <2>1. PICK q \in Request : q = requests[t] /\ RequestOK(q) /\ StepsOK(q)
      BY <1>1, BusyTab
    <2>2. PICK r : r = [q EXCEPT !.step = "refresh", !.retried = TRUE]
      OBVIOUS
    <2>3. /\ r \in Request /\ r.kind = q.kind /\ r.refresh = q.refresh /\ r.step = "refresh"
          /\ r.auth = q.auth
      BY <2>2 DEF Request, Steps, IdOrNone
    <2>4. requests' = [requests EXCEPT ![t] = r] /\ disturbed' = disturbed
      BY <1>4, <2>1, <2>2 DEF CallRejected, Put
    <2>5. StepsOK(r)
      BY <1>1, <2>1, <2>3 DEF StepsOK
    <2>6. ASSUME ~disturbed' PROVE Calm'
      BY <1>1, <1>2, <2>1, <2>3, <2>4, <2>5, <2>6, CalmKept
    <2>7. OtherTyped'
      BY <1>2, <2>4 DEF OtherTyped, WebInv, TypeOK
    <2>8. StoreMoves(None)
      BY <1>2, Moves
    <2>. QED
      BY <1>1, <1>2, <2>1, <2>3, <2>4, <2>5, <2>6, <2>7, <2>8, ServerStep
  <1>. QED
    BY <1>3, <1>4

LEMMA RenewedIs ==
    ASSUME NEW q \in Request, NEW i \in Ids, q.kind \notin {"login", "logout"}
    PROVE  \E r \in Request :
              /\ r = Renewed(q, i) /\ r.kind = q.kind /\ r.refresh = q.refresh /\ StepsOK(r)
              /\ r.auth \in {None, i} /\ (q.kind \notin Pages => r.auth = i)
  <1>1. CASE q.kind \in Pages
    <2>1. Renewed(q, i) = Finished(q, "error")
      BY <1>1 DEF Renewed, Pages
    <2>2. "error" \in Answers
      BY DEF Answers
    <2>3. PICK r \in Request :
              /\ r = Finished(q, "error") /\ r.kind = q.kind /\ r.refresh = q.refresh
              /\ r.step = "done" /\ r.auth = None
      BY <2>2, FinishedIs
    <2>. QED
      BY <1>1, <2>1, <2>3 DEF StepsOK
  <1>2. CASE q.kind = "refresh"
    <2>1. PICK p : p = [q EXCEPT !.auth = i]
      OBVIOUS
    <2>2. p \in Request /\ p.auth = i /\ p.kind = q.kind /\ p.refresh = q.refresh
      BY <2>1 DEF Request, IdOrNone
    <2>3. Renewed(q, i) = Finished(p, "data")
      BY <1>2, <2>1 DEF Renewed, Pages
    <2>4. "data" \in Answers
      BY DEF Answers
    <2>5. PICK r \in Request :
              /\ r = Finished(p, "data") /\ r.kind = p.kind /\ r.refresh = p.refresh
              /\ r.step = "done" /\ r.answer = "data" /\ r.auth = p.auth
      BY <2>2, <2>4, FinishedIs
    <2>. QED
      BY <1>2, <2>2, <2>3, <2>5 DEF StepsOK
  <1>3. CASE q.kind \notin Pages /\ q.kind # "refresh"
    <2>1. PICK r : r = [q EXCEPT !.auth = i, !.access = i, !.step = "call"]
      OBVIOUS
    <2>2. /\ r \in Request /\ r.auth = i /\ r.kind = q.kind /\ r.refresh = q.refresh
          /\ r.step = "call"
      BY <2>1 DEF Request, IdOrNone, Steps
    <2>3. Renewed(q, i) = r
      BY <1>3, <2>1 DEF Renewed
    <2>. QED
      BY <2>2, <2>3 DEF StepsOK
  <1>. QED
    BY <1>1, <1>2, <1>3

\* Undisturbed, the session that a request can renew is the only live one, and
\* no other response carries one.
LEMMA OnlyLive ==
    ASSUME WebInv, ~disturbed, NEW t \in Tabs, Busy(t), requests[t].refresh \in live
    PROVE  /\ live \subseteq {requests[t].refresh}
           /\ \A s \in Tabs : Busy(s) => requests[s].auth = None
  <1>1. PICK x \in live : x = requests[t].refresh
    OBVIOUS
  <1>2. ASSUME NEW s \in Tabs, Busy(s), requests[s].auth # None PROVE FALSE
    <2>1. live \subseteq {requests[s].auth}
      BY <1>2 DEF WebInv, Calm, CalmRequest
    <2>2. requests[s].auth # requests[t].refresh
      BY <1>2 DEF WebInv, HeldOnce
    <2>. QED
      BY <1>1, <2>1, <2>2
  <1>3. \A y \in live : y # None
    BY NoneNotMinted DEF WebInv, LedgerOK
  <1>4. \A y \in live : y = cookies.refresh
    BY <1>2, <1>3 DEF WebInv, Calm, OnItsWay
  <1>. QED
    BY <1>1, <1>2, <1>4

LEMMA StepRefreshSucceeds ==
    ASSUME WebInv, NEW t \in Tabs, RefreshSucceeds(t)
    PROVE  WebInv'
  <1>1. Busy(t) /\ requests[t].kind \notin {"login", "logout"}
    BY PlainKind DEF RefreshSucceeds
  <1>2. PICK q \in Request : q = requests[t] /\ RequestOK(q) /\ StepsOK(q)
    BY <1>1, BusyTab
  <1>3. PICK x \in live : x = q.refresh
    BY <1>2 DEF RefreshSucceeds
  <1>4. PICK i \in Ids : Fresh(i) /\ Store!Rotate(x, i) /\ Put(t, Renewed(q, i))
    BY <1>2, <1>3 DEF RefreshSucceeds
  <1>5. PICK r \in Request :
              /\ r = Renewed(q, i) /\ r.kind = q.kind /\ r.refresh = q.refresh /\ StepsOK(r)
              /\ r.auth \in {None, i} /\ (q.kind \notin Pages => r.auth = i)
    BY <1>1, <1>2, RenewedIs
  <1>6. /\ requests' = [requests EXCEPT ![t] = r]
        /\ disturbed' = (disturbed \/ q.kind \in Pages)
        /\ UNCHANGED <<cookies, expired, faults>>
    BY <1>2, <1>4, <1>5 DEF RefreshSucceeds, Put, Disturb
  <1>7. /\ Last(i)' /\ Minted' = Minted \cup {i} /\ live' = (live \ {x}) \cup {i}
        /\ i \notin Minted /\ x \in Minted
    BY <1>4, RotateStep, FreshId DEF WebInv, LedgerOK
  <1>8. StoreMoves(x)
    BY <1>4, Moves
  <1>9. \/ r.auth \in {None, q.auth}
        \/ r.auth \in Minted' \ Minted /\ Last(r.auth)' /\ q.refresh \notin live'
    <2>1. CASE r.auth = None
      BY <2>1
    <2>2. CASE r.auth # None
      <3>1. r.auth = i
        BY <1>5, <2>2
      <3>2. r.auth \in Minted' \ Minted /\ q.refresh \notin live'
        BY <1>3, <1>7, <3>1
      <3>3. Last(r.auth)'
        BY <1>7, <3>1 DEF Last
      <3>. QED
        BY <3>2, <3>3
    <2>. QED
      BY <2>1, <2>2
  <1>10. ASSUME ~disturbed' PROVE Calm'
    <2>1. ~disturbed /\ r.auth = i
      BY <1>5, <1>6, <1>10
    <2>2. live' = {i} /\ \A s \in Tabs : Busy(s) => requests[s].auth = None
      BY <1>1, <1>2, <1>3, <1>7, <2>1, OnlyLive
    <2>3. r # None /\ \A s \in Tabs : requests'[s] = IF s = t THEN r ELSE requests[s]
      BY <1>6, NoneIsNoRequest DEF WebInv, TypeOK
    <2>4. OnItsWay(i)'
      BY <2>1, <2>3 DEF OnItsWay, Busy
    <2>5. ASSUME NEW s \in Tabs, Busy(s)' PROVE CalmRequest(s)'
      <3>1. CASE s = t
        <4>1. requests'[s] = r /\ r.kind \notin {"login", "logout"} /\ r.step \notin {"login", "revoke"}
          BY <1>1, <1>2, <1>5, <2>3, <3>1 DEF StepsOK
        <4>. QED
          BY <2>1, <2>2, <4>1 DEF CalmRequest
      <3>2. CASE s # t
        <4>1. requests'[s] = requests[s] /\ Busy(s)
          BY <2>3, <2>5, <3>2 DEF Busy
        <4>2. requests[s].kind \notin {"login", "logout"}
          BY <1>1, <2>1, <3>2, <4>1 DEF WebInv, Calm, CalmRequest
        <4>3. requests[s].step \notin {"login", "revoke"}
          BY <4>1, <4>2, BusyTab DEF StepsOK
        <4>. QED
          BY <2>2, <4>1, <4>2, <4>3 DEF CalmRequest
      <3>. QED
        BY <3>1, <3>2
    <2>. QED
      BY <2>2, <2>4, <2>5 DEF Calm
  <1>11. OtherTyped'
    BY <1>6 DEF OtherTyped, WebInv, TypeOK
  <1>. QED
    BY <1>1, <1>2, <1>3, <1>5, <1>6, <1>8, <1>9, <1>10, <1>11, ServerStep

\* While a login is under way nothing else is, and no session is alive.
LEMMA StepLoginSucceeds ==
    ASSUME WebInv, NEW t \in Tabs, LoginSucceeds(t)
    PROVE  WebInv'
  <1>1. Busy(t)
    BY DEF LoginSucceeds, At
  <1>2. PICK q \in Request : q = requests[t] /\ RequestOK(q) /\ StepsOK(q)
    BY <1>1, BusyTab
  <1>3. q.step = "login" /\ q.kind = "login" /\ q.auth = None /\ q.refresh = None
    BY <1>2 DEF LoginSucceeds, At, StepsOK
  <1>4. PICK i \in Ids :
          Fresh(i) /\ Store!Open(i) /\ Put(t, Finished([q EXCEPT !.auth = i], "data"))
    BY <1>2 DEF LoginSucceeds
  <1>5. PICK p : p = [q EXCEPT !.auth = i]
    OBVIOUS
  <1>6. p \in Request /\ p.auth = i /\ p.kind = q.kind /\ p.refresh = q.refresh
    BY <1>5 DEF Request, IdOrNone
  <1>7. "data" \in Answers
    BY DEF Answers
  <1>8. PICK r \in Request :
              /\ r = Finished(p, "data") /\ r.kind = p.kind /\ r.refresh = p.refresh
              /\ r.step = "done" /\ r.answer = "data" /\ r.auth = p.auth
    BY <1>6, <1>7, FinishedIs
  <1>9. StepsOK(r)
    BY <1>3, <1>6, <1>8 DEF StepsOK
  <1>10. requests' = [requests EXCEPT ![t] = r] /\ UNCHANGED <<cookies, expired, faults, disturbed>>
    BY <1>4, <1>5, <1>8 DEF LoginSucceeds, Put
  <1>11. /\ Last(i)' /\ Minted' = Minted \cup {i} /\ live' = live \cup {i} /\ i \notin Minted
         /\ None \notin Minted'
    BY <1>4, OpenStep, FreshId, NoneNotMinted
  <1>12. StoreMoves(None)
    BY <1>4, Moves
  <1>13. r.auth \in Minted' \ Minted /\ Last(r.auth)' /\ q.refresh \notin live'
    <2>1. r.auth = i
      BY <1>6, <1>8
    <2>2. Last(r.auth)'
      BY <1>11, <2>1 DEF Last
    <2>3. q.refresh \notin live'
      BY <1>3, <1>11, NoneNotMinted DEF WebInv, LedgerOK
    <2>. QED
      BY <1>11, <2>1, <2>2, <2>3
  <1>14. ASSUME ~disturbed' PROVE Calm'
    <2>1. ~disturbed /\ r.auth = i
      BY <1>6, <1>8, <1>10, <1>14
    <2>2. live' = {i} /\ \A s \in Tabs \ {t} : ~Busy(s)
      BY <1>1, <1>2, <1>3, <1>11, <2>1 DEF WebInv, Calm, CalmRequest
    <2>3. r # None /\ \A s \in Tabs : requests'[s] = IF s = t THEN r ELSE requests[s]
      BY <1>10, NoneIsNoRequest DEF WebInv, TypeOK
    <2>4. OnItsWay(i)'
      BY <2>1, <2>3 DEF OnItsWay, Busy
    <2>5. \A s \in Tabs : Busy(s)' => s = t
      BY <2>2, <2>3 DEF Busy
    <2>6. CalmRequest(t)'
      <3>1. requests'[t] = r /\ r.step = "done" /\ r.kind = "login"
        BY <1>3, <1>6, <1>8, <2>3
      <3>. QED
        BY <2>1, <2>2, <2>5, <3>1 DEF CalmRequest
    <2>. QED
      BY <2>2, <2>4, <2>5, <2>6 DEF Calm
  <1>15. OtherTyped'
    BY <1>10 DEF OtherTyped, WebInv, TypeOK
  <1>16. /\ r.kind = q.kind /\ r.refresh = q.refresh /\ cookies' = cookies
    BY <1>6, <1>8, <1>10
  <1>. QED
    BY <1>1, <1>2, <1>9, <1>10, <1>12, <1>13, <1>14, <1>15, <1>16, ServerStep

\* Undisturbed, a logout ends the only live session.
LEMMA StepRevokeSession ==
    ASSUME WebInv, NEW t \in Tabs, RevokeSession(t)
    PROVE  WebInv'
  <1>1. Busy(t)
    BY DEF RevokeSession, At
  <1>2. PICK q \in Request : q = requests[t] /\ RequestOK(q) /\ StepsOK(q)
    BY <1>1, BusyTab
  <1>3. q.step = "revoke" /\ q.kind = "logout" /\ q.auth = None
    BY <1>2 DEF RevokeSession, At, StepsOK
  <1>4. "data" \in Answers
    BY DEF Answers
  <1>5. PICK r \in Request :
              /\ r = Finished(q, "data") /\ r.kind = q.kind /\ r.refresh = q.refresh
              /\ r.step = "done" /\ r.answer = "data" /\ r.auth = q.auth
    BY <1>4, FinishedIs
  <1>6. /\ requests' = [requests EXCEPT ![t] = r]
        /\ disturbed' = (disturbed \/ q.access \in expired)
        /\ UNCHANGED <<cookies, expired, faults>>
        /\ IF q.access \in live \ expired THEN Store!End({q.access}) ELSE UNCHANGED <<live, login>>
    BY <1>2, <1>5 DEF RevokeSession, Put, Disturb
  <1>7. StepsOK(r)
    BY <1>3, <1>5 DEF StepsOK
  <1>8. StoreMoves(None)
    BY <1>6, Moves
  <1>9. ASSUME ~disturbed' PROVE Calm'
    <2>1. ~disturbed /\ q.access \notin expired
      BY <1>6, <1>9
    <2>2. CalmRequest(t) /\ \A s \in Tabs \ {t} : ~Busy(s)
      BY <1>1, <1>2, <1>3, <2>1 DEF WebInv, Calm, CalmRequest
    <2>3. q.access = cookies.refresh
      BY <1>2, <1>3, <2>2 DEF CalmRequest
    <2>4. live \subseteq {q.access}
      <3>1. \A y \in live : y # None
        BY NoneNotMinted DEF WebInv, LedgerOK
      <3>2. \A y \in live : ~OnItsWay(y)
        BY <1>2, <1>3, <2>2, <3>1 DEF OnItsWay
      <3>. QED
        BY <2>1, <2>3, <3>2 DEF WebInv, Calm
    <2>5. live' = {}
      <3>1. CASE q.access \in live
        BY <1>6, <2>1, <2>4, <3>1 DEF Store!End
      <3>2. CASE q.access \notin live
        BY <1>6, <2>4, <3>2
      <3>. QED
        BY <3>1, <3>2
    <2>6. r # None /\ \A s \in Tabs : requests'[s] = IF s = t THEN r ELSE requests[s]
      BY <1>6, NoneIsNoRequest DEF WebInv, TypeOK
    <2>7. \A s \in Tabs : Busy(s)' => s = t
      BY <2>2, <2>6 DEF Busy
    <2>8. CalmRequest(t)'
      <3>1. requests'[t] = r /\ r.step = "done"
        BY <1>5, <2>6
      <3>. QED
        BY <2>5, <2>7, <3>1 DEF CalmRequest
    <2>. QED
      BY <2>5, <2>7, <2>8 DEF Calm
  <1>10. OtherTyped'
    BY <1>6 DEF OtherTyped, WebInv, TypeOK
  <1>11. r.auth \in {None, q.auth} /\ cookies' = cookies
    BY <1>5, <1>6
  <1>. QED
    BY <1>1, <1>2, <1>5, <1>6, <1>7, <1>8, <1>9, <1>10, <1>11, ServerStep

\* A lost answer disturbs the browser, and puts no session anywhere.
LEMMA StepApiUnreachable ==
    ASSUME WebInv, NEW t \in Tabs, ApiUnreachable(t)
    PROVE  WebInv'
  <1>1. Busy(t)
    BY DEF ApiUnreachable
  <1>2. PICK q \in Request : q = requests[t] /\ RequestOK(q) /\ StepsOK(q)
    BY <1>1, BusyTab
  <1>3. /\ UNCHANGED <<cookies, expired>> /\ disturbed' = TRUE /\ faults' \in 0..MaxFaults
    BY WebAssumption DEF ApiUnreachable, WebInv, TypeOK
  <1>4. \E x \in {None, q.refresh} : StoreMoves(x)
    <2>1. CASE UNCHANGED <<live, login>>
      BY <2>1, Moves
    <2>2. CASE \E i \in Ids : Fresh(i) /\ Store!Open(i)
      BY <2>2, Moves
    <2>3. CASE q.refresh \in live /\ \E i \in Ids : Fresh(i) /\ Store!Rotate(q.refresh, i)
      BY <2>3, Moves
    <2>4. CASE Store!End({q.access})
      BY <2>4, Moves
    <2>. QED
      BY <1>2, <2>1, <2>2, <2>3, <2>4 DEF ApiUnreachable
  <1>5. "data" \in Answers /\ "unauthorized" \in Answers /\ "error" \in Answers
    BY DEF Answers
  <1>6. PICK r \in Request :
           /\ requests' = [requests EXCEPT ![t] = r] /\ r.kind = q.kind /\ r.refresh = q.refresh
           /\ StepsOK(r) /\ r.auth \in {None, q.auth}
    <2>1. CASE q.kind = "publicPage"
      <3>1. PICK r : r = [q EXCEPT !.step = "public"]
        OBVIOUS
      <3>2. r \in Request /\ r.kind = q.kind /\ r.refresh = q.refresh /\ r.auth = q.auth
            /\ r.step = "public"
        BY <3>1 DEF Request, Steps
      <3>3. requests' = [requests EXCEPT ![t] = r]
        BY <1>2, <2>1, <3>1 DEF ApiUnreachable, Put
      <3>. QED
        BY <2>1, <3>2, <3>3 DEF StepsOK
    <2>2. CASE q.kind = "logout"
      <3>1. PICK r \in Request :
              /\ r = Finished(q, "data") /\ r.kind = q.kind /\ r.refresh = q.refresh
              /\ r.step = "done" /\ r.answer = "data" /\ r.auth = q.auth
        BY <1>5, FinishedIs
      <3>2. requests' = [requests EXCEPT ![t] = r]
        BY <1>2, <2>2, <3>1 DEF ApiUnreachable, Put
      <3>. QED
        BY <1>2, <3>1, <3>2 DEF StepsOK
    <2>3. CASE q.kind = "refresh"
      <3>1. PICK r \in Request :
              /\ r = Finished(q, "unauthorized") /\ r.kind = q.kind /\ r.refresh = q.refresh
              /\ r.step = "done" /\ r.auth = None
        BY <1>5, FinishedIs
      <3>2. requests' = [requests EXCEPT ![t] = r]
        BY <1>2, <2>3, <3>1 DEF ApiUnreachable, Put
      <3>. QED
        BY <1>2, <2>3, <3>1, <3>2 DEF StepsOK
    <2>4. CASE q.kind \notin {"publicPage", "logout", "refresh"}
      <3>1. PICK r \in Request :
              /\ r = Finished(q, "error") /\ r.kind = q.kind /\ r.refresh = q.refresh
              /\ r.step = "done" /\ r.auth = None
        BY <1>5, FinishedIs
      <3>2. requests' = [requests EXCEPT ![t] = r]
        BY <1>2, <2>4, <3>1 DEF ApiUnreachable, Put
      <3>. QED
        BY <1>2, <2>4, <3>1, <3>2 DEF StepsOK
    <2>. QED
      BY <2>1, <2>2, <2>3, <2>4
  <1>7. OtherTyped'
    BY <1>3 DEF OtherTyped, WebInv, TypeOK
  <1>8. cookies' = cookies /\ (~disturbed' => Calm')
    BY <1>3
  <1>. QED
    BY <1>1, <1>2, <1>4, <1>6, <1>7, <1>8, ServerStep

(***************************************************************************)
(* The browser sends requests and takes responses.                         *)
(***************************************************************************)

LEMMA FirstStepIs ==
    ASSUME NEW k \in Kinds
    PROVE  /\ FirstStep(k) \in Steps /\ FirstAnswer(k) \in Answers \cup {None}
           /\ k = "login" => FirstStep(k) = "login"
           /\ k = "logout" => FirstStep(k) = IF cookies.access = None THEN "done" ELSE "revoke"
           /\ k \notin {"login", "logout"} => FirstStep(k) \notin {"login", "revoke"}
  <1>1. CASE k = "login"
    BY <1>1 DEF FirstStep, FirstAnswer, Steps, Answers
  <1>2. CASE k = "logout"
    BY <1>2 DEF FirstStep, FirstAnswer, Steps, Answers
  <1>3. CASE k \notin {"login", "logout"} /\ cookies.refresh = None
    BY <1>3 DEF FirstStep, FirstAnswer, Steps, Answers
  <1>4. CASE k \notin {"login", "logout"} /\ cookies.refresh # None
    BY <1>4 DEF FirstStep, FirstAnswer, Steps, Answers
  <1>. QED
    BY <1>1, <1>2, <1>3, <1>4

LEMMA StepSend ==
    ASSUME WebInv, NEW t \in Tabs, NEW k \in Kinds, Send(t, k)
    PROVE  WebInv'
  <1>1. PICK a, f \in IdOrNone, st \in Steps, an \in Answers \cup {None} :
          /\ a = IF k \in {"login", "refresh"} THEN None ELSE cookies.access
          /\ f = IF k \in {"login", "logout"} THEN None ELSE cookies.refresh
          /\ st = FirstStep(k) /\ an = FirstAnswer(k)
    BY FirstStepIs DEF WebInv, TypeOK, IdOrNone
  <1>2. PICK r : r = [kind |-> k, access |-> a, refresh |-> f, auth |-> None, retried |-> FALSE,
                      step |-> st, answer |-> an]
    OBVIOUS
  <1>3. /\ r \in Request /\ r.kind = k /\ r.access = a /\ r.refresh = f /\ r.auth = None /\ r.step = st
    BY <1>2 DEF Request, IdOrNone
  <1>4. /\ ~Busy(t) /\ requests' = [requests EXCEPT ![t] = r]
        /\ UNCHANGED <<live, login, cookies, expired, faults>>
    BY <1>1, <1>2 DEF Send, Put
  <1>5. disturbed' = (disturbed \/ \/ Overlaps(k)
                                   \/ k = "logout" /\ cookies.access = None /\ cookies.refresh # None)
    BY DEF Send, Disturb
  <1>6. StepsOK(r)
    BY <1>1, <1>3, FirstStepIs DEF StepsOK
  <1>7. RequestOK(r)'
    BY <1>1, <1>3, <1>4, <1>6 DEF RequestOK, StepsOK, WebInv, HeldOnce, Minted
  <1>8. \A s \in Tabs \ {t} : Busy(s) /\ requests[s].auth # None =>
           requests[s].auth # f
    BY <1>1 DEF WebInv, HeldOnce
  <1>9. Apart(t, r)
    BY <1>3, <1>8 DEF Apart
  <1>10. StoreMoves(None)
    BY <1>4, Moves
  <1>11. requests' \in [Tabs -> Request \cup {None}] /\ RequestsOK' /\ HeldOnce'
    BY <1>3, <1>4, <1>7, <1>9, <1>10, PutStep
  <1>12. TypeOK'
    BY <1>4, <1>5, <1>11 DEF WebInv, TypeOK
  <1>13. ASSUME ~disturbed' PROVE Calm'
    <2>1. ~disturbed /\ ~Overlaps(k)
      BY <1>5, <1>13
    <2>2. k = "logout" /\ cookies.access = None => cookies.refresh = None
      BY <1>5, <1>13
    <2>3. /\ \A s \in Tabs : Busy(s) => requests[s].kind \notin {"login", "logout"}
          /\ k \in {"login", "logout"} => \A s \in Tabs : ~Busy(s)
          /\ k = "login" => cookies.refresh = None
      BY <2>1 DEF Overlaps
    <2>4. r # None /\ \A s \in Tabs : requests'[s] = IF s = t THEN r ELSE requests[s]
      BY <1>3, <1>4, NoneIsNoRequest DEF WebInv, TypeOK
    <2>5. \A s \in Tabs : Busy(s) => Busy(s)' /\ requests'[s] = requests[s]
      BY <1>4, <2>4 DEF Busy
    <2>6. \A i : OnItsWay(i) => OnItsWay(i)'
      BY <2>5 DEF OnItsWay
    <2>7. ASSUME NEW s \in Tabs, Busy(s)' PROVE CalmRequest(s)'
      <3>1. CASE s # t
        <4>1. Busy(s) /\ requests'[s] = requests[s] /\ CalmRequest(s)
          BY <2>1, <2>4, <2>7, <3>1 DEF Busy, WebInv, Calm
        <4>2. requests[s].kind \notin {"login", "logout"} /\ requests[s].step \notin {"login", "revoke"}
          BY <2>3, <4>1, BusyTab DEF StepsOK
        <4>. QED
          BY <1>4, <4>1, <4>2 DEF CalmRequest
      <3>2. CASE s = t
        <4>1. requests'[t] = r
          BY <2>4
        <4>2. k \in {"login", "logout"} => \A u \in Tabs \ {t} : ~Busy(u)'
          BY <2>3, <2>4 DEF Busy
        <4>3. k \in {"login", "logout"} => live \subseteq {cookies.refresh}
          BY <2>1, <2>3 DEF WebInv, Calm, OnItsWay
        <4>4. cookies.refresh = None => (k \in {"login", "logout"} => live = {})
          BY <4>3, NoneNotMinted DEF WebInv, LedgerOK
        <4>5. st = "login" => live = {} /\ cookies.refresh = None
          BY <1>1, <2>3, <4>4, FirstStepIs
        <4>6. st = "revoke" => a = cookies.refresh
          <5> SUFFICES ASSUME st = "revoke" PROVE a = cookies.refresh
            OBVIOUS
          <5>1. k = "logout"
            BY <1>1, FirstStepIs
          <5>2. cookies.access # None
            BY <1>1, <5>1, FirstStepIs
          <5>. QED
            BY <1>1, <5>1, <5>2 DEF WebInv, HeldOnce
        <4>7. st = "done" /\ k = "logout" => live = {}
          <5> SUFFICES ASSUME st = "done", k = "logout" PROVE live = {}
            OBVIOUS
          <5>1. cookies.access = None
            BY <1>1, FirstStepIs
          <5>. QED
            BY <2>2, <4>4, <5>1
        <4>. QED
          BY <1>3, <1>4, <3>2, <4>1, <4>2, <4>5, <4>6, <4>7 DEF CalmRequest
      <3>. QED
        BY <3>1, <3>2
    <2>8. \A i \in live' : i = cookies'.refresh \/ OnItsWay(i)'
      BY <1>4, <2>1, <2>6 DEF WebInv, Calm
    <2>. QED
      BY <2>7, <2>8 DEF Calm
  <1>. QED
    BY <1>10, <1>11, <1>12, <1>13 DEF WebInv, StoreMoves

\* A tab is done, and the browser has the cookies c.
LEMMA FreeTab ==
    ASSUME WebInv, NEW t \in Tabs, Busy(t), requests' = [requests EXCEPT ![t] = None],
           UNCHANGED <<live, login, expired>>, faults' \in 0..MaxFaults, disturbed' \in BOOLEAN,
           NEW c \in {cookies, NoCookies, [access |-> requests[t].auth, refresh |-> requests[t].auth]},
           cookies' = c, ~disturbed' => Calm'
    PROVE  WebInv'
  <1>1. PICK q \in Request : q = requests[t] /\ RequestOK(q)
    BY BusyTab
  <1>2. requests' \in [Tabs -> Request \cup {None}]
        /\ \A s \in Tabs : requests'[s] = IF s = t THEN None ELSE requests[s]
    BY DEF WebInv, TypeOK
  <1>3. \A s \in Tabs : Busy(s)' <=> s # t /\ Busy(s)
    BY <1>2 DEF Busy
  <1>4. StoreMoves(None) /\ Minted' = Minted
    BY Moves, StoreStays
  <1>5. RequestsOK'
    <2> SUFFICES ASSUME NEW s \in Tabs, Busy(s)' PROVE RequestOK(requests[s])'
      BY DEF RequestsOK
    <2>1. PICK p \in Request : p = requests[s] /\ p = requests'[s] /\ RequestOK(p)
      BY <1>2, <1>3, BusyTab
    <2>2. RequestOK(p)'
      BY <1>4, <2>1, OldRequest
    <2>. QED
      BY <2>1, <2>2
  <1>6. /\ c \in [access : IdOrNone, refresh : IdOrNone]
        /\ c.refresh \in Minted \cup {None} /\ (c.access # None => c.access = c.refresh)
        /\ c.refresh \in {cookies.refresh, None, q.auth}
    <2>1. CASE c = cookies
      BY <2>1 DEF WebInv, TypeOK, HeldOnce
    <2>2. CASE c = NoCookies
      BY <2>2 DEF NoCookies, IdOrNone
    <2>3. CASE c = [access |-> q.auth, refresh |-> q.auth]
      BY <1>1, <2>3 DEF RequestOK, Request
    <2>. QED
      BY <1>1, <2>1, <2>2, <2>3
  <1>7. ASSUME NEW u \in Tabs, u # t, Busy(u), requests[u].auth # None
        PROVE  /\ requests[u].auth # c.refresh /\ requests[u].auth # requests[u].refresh
               /\ \A s \in Tabs \ {u} : Busy(s) =>
                     requests[u].auth # requests[s].auth /\ requests[u].auth # requests[s].refresh
    BY <1>1, <1>6, <1>7 DEF WebInv, HeldOnce
  <1>8. HeldOnce'
    BY <1>2, <1>3, <1>4, <1>6, <1>7 DEF HeldOnce
  <1>9. TypeOK'
    BY <1>2, <1>6 DEF WebInv, TypeOK
  <1>. QED
    BY <1>4, <1>5, <1>8, <1>9 DEF WebInv, StoreMoves

\* The session that a response brings is the only live one; a logout has ended
\* it; any other response leaves the cookies alone.
LEMMA StepDeliver ==
    ASSUME WebInv, NEW t \in Tabs, Deliver(t)
    PROVE  WebInv'
  <1>1. Busy(t)
    BY DEF Deliver, At
  <1>2. PICK q \in Request : q = requests[t] /\ RequestOK(q) /\ StepsOK(q)
    BY <1>1, BusyTab
  <1>3. /\ q.step = "done" /\ cookies' = NewCookies(q)
        /\ disturbed' = (disturbed \/ (q.kind = "refresh" /\ Clears(q)))
        /\ requests' = [requests EXCEPT ![t] = None]
        /\ UNCHANGED <<live, login, expired, faults>>
    BY <1>2 DEF Deliver, At, Disturb, Put
  <1>4. \A s \in Tabs : requests'[s] = IF s = t THEN None ELSE requests[s]
    BY <1>3 DEF WebInv, TypeOK
  <1>5. \A s \in Tabs : Busy(s)' => s # t /\ Busy(s) /\ requests'[s] = requests[s]
    BY <1>4 DEF Busy
  <1>6. ASSUME ~disturbed' PROVE Calm'
    <2>1. ~disturbed /\ ~(q.kind = "refresh" /\ Clears(q)) /\ CalmRequest(t) /\ Calm
      BY <1>1, <1>3, <1>6 DEF WebInv, Calm
    <2>2. CASE q.kind = "logout"
      <3>1. live = {} /\ \A s \in Tabs \ {t} : ~Busy(s)
        BY <1>2, <1>3, <2>1, <2>2 DEF CalmRequest
      <3>. QED
        BY <1>3, <1>5, <3>1 DEF Calm
    <2>3. CASE q.kind # "logout"
      <3>1. ~Clears(q)
        BY <2>1, <2>3 DEF Clears
      <3>2. ASSUME NEW s \in Tabs, Busy(s)'
            PROVE  /\ requests'[s] = requests[s] /\ CalmRequest(s)
                   /\ requests[s].kind \notin {"login", "logout"}
                   /\ requests[s].step \notin {"login", "revoke"}
        <4>1. Busy(s) /\ requests'[s] = requests[s] /\ CalmRequest(s) /\ s # t
          BY <1>5, <2>1, <3>2 DEF Calm
        <4>2. requests[s].kind \notin {"login", "logout"}
          BY <1>1, <4>1 DEF CalmRequest
        <4>. QED
          BY <4>1, <4>2, BusyTab DEF StepsOK
      <3>3. \A s \in Tabs : Busy(s)' => CalmRequest(s)'
        BY <1>3, <3>2 DEF CalmRequest
      <3>4. CASE q.auth # None
        <4>1. cookies' = [access |-> q.auth, refresh |-> q.auth]
          BY <1>2, <1>3, <3>1, <3>4 DEF NewCookies, Renews, StepsOK
        <4>2. live \subseteq {q.auth}
          BY <1>2, <2>1, <3>4 DEF CalmRequest
        <4>. QED
          BY <1>3, <3>3, <4>1, <4>2 DEF Calm
      <3>5. CASE q.auth = None
        <4>1. cookies' = cookies
          BY <1>3, <3>1, <3>5 DEF NewCookies, Renews
        <4>2. \A i \in live : OnItsWay(i) => OnItsWay(i)'
          <5>1. \A i \in live : i # None
            BY NoneNotMinted DEF WebInv, LedgerOK
          <5>2. \A s \in Tabs \ {t} : Busy(s) => Busy(s)' /\ requests'[s] = requests[s]
            BY <1>4 DEF Busy
          <5>. QED
            BY <1>2, <3>5, <5>1, <5>2 DEF OnItsWay
        <4>. QED
          BY <1>3, <2>1, <3>3, <4>1, <4>2 DEF Calm
      <3>. QED
        BY <3>4, <3>5
    <2>. QED
      BY <2>2, <2>3
  <1>7. PICK c \in {cookies, NoCookies, [access |-> requests[t].auth, refresh |-> requests[t].auth]} :
          cookies' = c
    BY <1>2, <1>3 DEF NewCookies
  <1>8. disturbed' \in BOOLEAN /\ faults' \in 0..MaxFaults
    BY <1>3 DEF WebInv, TypeOK
  <1>. QED
    BY <1>1, <1>3, <1>6, <1>7, <1>8, FreeTab

LEMMA StepDropResponse ==
    ASSUME WebInv, NEW t \in Tabs, DropResponse(t)
    PROVE  WebInv'
  <1>1. /\ Busy(t) /\ requests' = [requests EXCEPT ![t] = None] /\ disturbed' = TRUE
        /\ UNCHANGED <<live, login, cookies, expired>> /\ faults' \in 0..MaxFaults
    BY WebAssumption DEF DropResponse, At, Put, WebInv, TypeOK
  <1>2. PICK c \in {cookies} : cookies' = c
    BY <1>1
  <1>3. disturbed' \in BOOLEAN /\ (~disturbed' => Calm')
    BY <1>1
  <1>. QED
    BY <1>1, <1>2, <1>3, FreeTab

(***************************************************************************)
(* Time.                                                                   *)
(***************************************************************************)

\* The store loses sessions and the browser its access cookie; no request moves.
LEMMA StepTime ==
    ASSUME WebInv, UNCHANGED <<requests, disturbed, faults>>, StoreMoves(None),
           live' \subseteq live, Minted' = Minted, expired' \in SUBSET Ids,
           cookies' = cookies \/ cookies' = [cookies EXCEPT !.access = None]
    PROVE  WebInv'
  <1>1. /\ cookies' \in [access : IdOrNone, refresh : IdOrNone]
        /\ cookies'.refresh = cookies.refresh
        /\ cookies'.access # None => cookies'.access = cookies.access
    BY DEF WebInv, TypeOK, IdOrNone
  <1>2. TypeOK'
    BY <1>1 DEF WebInv, TypeOK, StoreMoves, StoreTyped
  <1>3. RequestsOK'
    <2> SUFFICES ASSUME NEW s \in Tabs, Busy(s) PROVE RequestOK(requests[s])'
      BY DEF RequestsOK, Busy
    <2>1. PICK p \in Request : p = requests[s] /\ p = requests'[s] /\ RequestOK(p)
      BY BusyTab
    <2>2. RequestOK(p)'
      BY <2>1, OldRequest
    <2>. QED
      BY <2>1, <2>2
  <1>4. HeldOnce'
    BY <1>1 DEF WebInv, HeldOnce, Busy
  <1>5. ASSUME ~disturbed' PROVE Calm'
    <2>1. Calm
      BY <1>5 DEF WebInv
    <2>2. \A i \in live' : i = cookies'.refresh \/ OnItsWay(i)'
      BY <1>1, <2>1 DEF Calm, OnItsWay, Busy
    <2>3. ASSUME NEW s \in Tabs, Busy(s) PROVE CalmRequest(s)'
      <3>1. CalmRequest(s) /\ requests'[s] = requests[s]
        BY <2>1, <2>3 DEF Calm
      <3>. QED
        BY <1>1, <3>1 DEF CalmRequest, Busy
    <2>. QED
      BY <2>2, <2>3 DEF Calm, Busy
  <1>. QED
    BY <1>2, <1>3, <1>4, <1>5 DEF WebInv, StoreMoves

LEMMA StepExpires ==
    ASSUME WebInv, AccessCookieExpires \/ \E i \in Ids : AccessTokenExpires(i) \/ SessionExpires(i)
    PROVE  WebInv'
  <1>1. CASE AccessCookieExpires
    <2>1. UNCHANGED <<live, login>> /\ expired' \in SUBSET Ids
      BY <1>1 DEF AccessCookieExpires, WebInv, TypeOK
    <2>2. StoreMoves(None) /\ Minted' = Minted /\ live' \subseteq live
      BY <2>1, Moves, StoreStays
    <2>. QED
      BY <1>1, <2>1, <2>2, StepTime DEF AccessCookieExpires
  <1>2. CASE \E i \in Ids : AccessTokenExpires(i)
    <2>1. UNCHANGED <<live, login>> /\ expired' \in SUBSET Ids
      BY <1>2 DEF AccessTokenExpires, WebInv, TypeOK
    <2>2. StoreMoves(None) /\ Minted' = Minted /\ live' \subseteq live
      BY <2>1, Moves, StoreStays
    <2>. QED
      BY <1>2, <2>1, <2>2, StepTime DEF AccessTokenExpires
  <1>3. CASE \E i \in Ids : SessionExpires(i)
    <2>1. PICK i \in Ids : SessionExpires(i)
      BY <1>3
    <2>2. Store!End({i}) /\ UNCHANGED <<cookies, requests, expired, faults, disturbed>>
      BY <2>1 DEF SessionExpires
    <2>3. StoreMoves(None) /\ Minted' = Minted /\ live' \subseteq live
      BY <2>2, Moves, EndStep
    <2>4. expired' \in SUBSET Ids
      BY <2>2 DEF WebInv, TypeOK
    <2>. QED
      BY <2>2, <2>3, <2>4, StepTime
  <1>. QED
    BY <1>1, <1>2, <1>3

(***************************************************************************)
(* The theorems.                                                           *)
(***************************************************************************)

LEMMA WebInvNext == WebInv /\ [Next]_vars => WebInv'
  <1> SUFFICES ASSUME WebInv, [Next]_vars PROVE WebInv'
    OBVIOUS
  <1>1. ASSUME NEW t \in Tabs, NEW k \in Kinds, Send(t, k) PROVE WebInv'
    BY <1>1, StepSend
  <1>2. ASSUME NEW t \in Tabs,
               \/ LoginSucceeds(t) \/ RefreshSucceeds(t) \/ RefreshRefused(t)
               \/ CallSucceeds(t) \/ CallFails(t) \/ CallRejected(t) \/ CallPublic(t)
               \/ RevokeSession(t) \/ ApiUnreachable(t)
        PROVE  WebInv'
    BY <1>2, StepLoginSucceeds, StepRefreshSucceeds, StepCall, StepCallRejected,
       StepRevokeSession, StepApiUnreachable
  <1>3. ASSUME NEW t \in Tabs, Deliver(t) \/ DropResponse(t) PROVE WebInv'
    BY <1>3, StepDeliver, StepDropResponse
  <1>4. CASE AccessCookieExpires \/ \E i \in Ids : AccessTokenExpires(i) \/ SessionExpires(i)
    BY <1>4, StepExpires
  <1>5. CASE UNCHANGED vars
    <2>1. /\ UNCHANGED <<live, login>> /\ UNCHANGED <<requests, disturbed, faults>>
          /\ cookies' = cookies /\ expired' \in SUBSET Ids
      BY <1>5 DEF vars, WebInv, TypeOK
    <2>2. StoreMoves(None) /\ Minted' = Minted /\ live' \subseteq live
      BY <2>1, Moves, StoreStays
    <2>. QED
      BY <2>1, <2>2, StepTime
  <1>. QED
    BY <1>1, <1>2, <1>3, <1>4, <1>5 DEF Next

\* The invariant the rest follows from.
THEOREM WebInvariant == Spec => []WebInv
  BY WebInvInit, WebInvNext, PTL DEF Spec

\* Cookies, requests and sessions keep their types, for all tabs and ids.
THEOREM WebTypes == Spec => []TypeOK
  <1>1. WebInv => TypeOK
    BY DEF WebInv
  <1>. QED
    BY <1>1, WebInvariant, PTL

\* However many tabs renew the session in parallel, are refused, retry or are
\* answered late: as long as nothing has disturbed the browser, a live
\* session is in the cookies of the browser or in a response on its way.
THEOREM NoneStranded == Spec => []NoSessionStranded
  <1>1. WebInv => NoSessionStranded
    BY DEF WebInv, Calm, NoSessionStranded
  <1>. QED
    BY <1>1, WebInvariant, PTL

\* No response, however late, and no loss brings a used refresh token of a login
\* back into the cookies.
THEOREM CookiesAdvance == Spec => CookiesNeverGoBack
  <1>1. ASSUME WebInv, [Next]_vars, SameLogin(cookies.refresh, cookies'.refresh)
        PROVE  cookies.refresh <= cookies'.refresh
    <2>1. /\ cookies.refresh # None /\ cookies'.refresh # None
          /\ login[cookies.refresh] = login[cookies'.refresh]
      BY <1>1 DEF SameLogin
    <2>2. cookies.refresh \in Minted /\ cookies.refresh \in Int
      BY <1>1, <2>1 DEF WebInv, HeldOnce, Minted, Ids
    <2>3. CASE cookies'.refresh = cookies.refresh
      BY <2>2, <2>3
    <2>4. CASE cookies'.refresh # cookies.refresh
      <3>1. PICK t \in Tabs : Deliver(t)
        <4>1. AccessCookieExpires => cookies'.refresh = cookies.refresh
          BY <1>1 DEF AccessCookieExpires, WebInv, TypeOK
        <4>. QED
          BY <1>1, <2>4, <4>1 DEF Next, vars, Send, LoginSucceeds, RefreshSucceeds, RefreshRefused,
             CallSucceeds, CallFails, CallRejected, CallPublic, RevokeSession, ApiUnreachable,
             DropResponse, AccessTokenExpires, SessionExpires
      <3>2. Busy(t) /\ cookies' = NewCookies(requests[t])
        BY <3>1 DEF Deliver, At
      <3>3. RequestOK(requests[t])
        BY <1>1, <3>2, BusyTab
      <3>4. cookies'.refresh = requests[t].auth
        BY <2>1, <2>4, <3>2 DEF NewCookies, NoCookies
      <3>5. Last(requests[t].auth)
        BY <2>1, <3>3, <3>4 DEF RequestOK
      <3>. QED
        BY <2>1, <2>2, <3>4, <3>5 DEF Last
    <2>. QED
      BY <2>3, <2>4
  <1>2. WebInv /\ [Next]_vars =>
          [LET old == cookies.refresh
               new == cookies'.refresh
           IN  SameLogin(old, new) => old <= new]_vars
    BY <1>1
  <1>. QED
    BY <1>2, WebInvariant, PTL DEF Spec, CookiesNeverGoBack

(* Whatever tabs, pages and lost messages do, they do to the session store *)
(* only what SessionLedger allows, which Sessions is proved to implement.  *)
THEOREM KeepsToTheLedger == Spec => Store!Spec
  <1>1. Init => Store!Init
    BY DEF Init
  <1>2. WebInv /\ [Next]_vars => [Store!Next]_(Store!vars)
    <2>. SUFFICES ASSUME WebInv, [Next]_vars, ~UNCHANGED <<live, login>>
                  PROVE  Store!Next
      BY DEF Store!vars
    <2>1. \A i \in Ids : Store!Open(i) => Store!Next
      BY DEF Store!Next
    <2>2. \A i, j \in Ids : Store!Rotate(i, j) => Store!Next
      BY DEF Store!Next
    <2>3. ASSUME NEW i, i \in live, Store!End({i}) PROVE Store!Next
      BY <2>3 DEF Store!Next
    <2>4. live \subseteq Ids
      BY DEF WebInv, TypeOK
    <2>5. CASE \E t \in Tabs : LoginSucceeds(t)
      BY <2>1, <2>5 DEF LoginSucceeds
    <2>6. CASE \E t \in Tabs : RefreshSucceeds(t)
      BY <2>2, <2>4, <2>6 DEF RefreshSucceeds
    <2>7. CASE \E t \in Tabs : RevokeSession(t)
      BY <2>3, <2>7 DEF RevokeSession
    <2>8. CASE \E t \in Tabs : ApiUnreachable(t)
      BY <2>1, <2>2, <2>3, <2>4, <2>8 DEF ApiUnreachable
    <2>9. CASE \E i \in Ids : SessionExpires(i)
      BY <2>3, <2>9 DEF SessionExpires
    <2>. QED
      BY <2>5, <2>6, <2>7, <2>8, <2>9 DEF Next, vars, Send, RefreshRefused, CallSucceeds,
         CallFails, CallRejected, CallPublic, Deliver, DropResponse,
         AccessCookieExpires, AccessTokenExpires
  <1>. QED
    BY <1>1, <1>2, WebInvariant, PTL DEF Spec, Store!Spec
=============================================================================
