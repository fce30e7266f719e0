---------------------------- MODULE SignupsProofs ----------------------------
(***************************************************************************)
(* Proofs about Signups and the parts it is made of: the ids of Snowflake, *)
(* the jobs of JobQueue, and the accounts.  The ids are proved about the   *)
(* specification of Snowflake; signups implement it.                       *)
(***************************************************************************)
EXTENDS Signups, FiniteSetTheorems, TLAPS

(***************************************************************************)
(* Ids.  Of the last Cycle ids every one holds the number that the         *)
(* sequence had so many steps ago, and an id is never older than its       *)
(* millisecond.                                                            *)
(***************************************************************************)

\* The number d steps before s in the cycle.
Before(s, d) == IF s >= d THEN s - d ELSE s - d + Cycle

ClocksOK ==
    /\ \A c \in Callers : stamp[c] # None => stamp[c] \in 0..now
    /\ \A m \in 0..now : starts[m] <= Len(log)

LogOK ==
    \A i \in 1..Len(log) :
        /\ log[i].ms \in 0..now /\ starts[log[i].ms] < i
        /\ Len(log) + 1 - i <= Cycle => log[i].n = Before(seq, Len(log) + 1 - i)

IdInv == IdTypeOK /\ ClocksOK /\ LogOK /\ UniqueIds

LEMMA IdInvInit == IdInit => IdInv
  <1> SUFFICES ASSUME IdInit PROVE IdInv
    OBVIOUS
  <1>1. IdTypeOK
    BY SnowflakeAssumption DEF IdInit, IdTypeOK
  <1>2. log = << >> /\ Len(log) = 0
    BY DEF IdInit
  <1>3. ClocksOK
    BY <1>2 DEF IdInit, ClocksOK
  <1>. QED
    BY <1>1, <1>2, <1>3 DEF IdInv, LogOK, UniqueIds

\* Taking a number: the log grows by one id, and the numbers of the others are
\* one step further back.
LEMMA DrawKeepsIds ==
    ASSUME IdInv, NEW c \in Callers, DrawNumber(c)
    PROVE  IdInv'
  <1> DEFINE m == stamp[c]
             new == [ms |-> m, n |-> seq]
             L == Len(log)
  <1> USE SnowflakeAssumption
  <1>1. /\ m \in 0..now /\ now \in Nat /\ L \in Nat /\ seq \in 0..(Cycle - 1)
        /\ starts[m] \in Nat /\ starts[m] <= L /\ L - starts[m] < Cycle
        /\ new \in Id /\ log \in Seq(Id)
    BY DEF DrawNumber, IdInv, IdTypeOK, ClocksOK, Timely, Id
  <1>2. /\ log' = Append(log, new) /\ Len(log') = L + 1
        /\ log'[L + 1] = new
        /\ \A i \in 1..L : log'[i] = log[i]
        /\ log' \in Seq(Id)
    BY <1>1 DEF DrawNumber
  <1>3. /\ seq' = (IF seq = Cycle - 1 THEN 0 ELSE seq + 1)
        /\ seq' \in 0..(Cycle - 1) /\ now' = now /\ starts' = starts
        /\ stamp' = [stamp EXCEPT ![c] = None]
    BY <1>1 DEF DrawNumber, Following
  <1>4. IdTypeOK'
    BY <1>2, <1>3 DEF IdInv, IdTypeOK
  <1>5. ClocksOK'
    BY <1>1, <1>2, <1>3 DEF IdInv, IdTypeOK, ClocksOK
  <1>6. LogOK'
    <2> SUFFICES ASSUME NEW i \in 1..(L + 1)
                 PROVE  /\ log'[i].ms \in 0..now /\ starts[log'[i].ms] < i
                        /\ (L + 1) + 1 - i <= Cycle => log'[i].n = Before(seq', (L + 1) + 1 - i)
      BY <1>2, <1>3 DEF LogOK
    <2>1. CASE i = L + 1
      <3>1. log'[i].ms = m /\ log'[i].n = seq
        BY <2>1, <1>2
      <3>2. Before(seq', 1) = seq
        BY <1>1, <1>3 DEF Before
      <3>. QED
        BY <2>1, <3>1, <3>2, <1>1
    <2>2. CASE i \in 1..L
      <3>1. log'[i] = log[i] /\ log[i].ms \in 0..now /\ starts[log[i].ms] < i
        BY <2>2, <1>2 DEF IdInv, LogOK
      <3>2. ASSUME (L + 1) + 1 - i <= Cycle PROVE log[i].n = Before(seq', (L + 1) + 1 - i)
        <4>1. log[i].n = Before(seq, L + 1 - i)
          BY <2>2, <3>2, <1>1 DEF IdInv, LogOK
        <4>. QED
          BY <4>1, <2>2, <3>2, <1>1, <1>3 DEF Before
      <3>. QED
        BY <3>1, <3>2
    <2>. QED
      BY <2>1, <2>2, <1>1
  <1>7. UniqueIds'
    <2>1. ASSUME NEW i \in 1..L PROVE log[i] # new
      <3> SUFFICES ASSUME log[i].ms = m PROVE log[i].n # seq
        OBVIOUS
      <3>1. starts[m] < i
        BY DEF IdInv, LogOK
      <3>2. L + 1 - i < Cycle
        BY <3>1, <1>1
      <3>3. log[i].n = Before(seq, L + 1 - i)
        BY <3>2, <1>1 DEF IdInv, LogOK
      <3>. QED
        BY <3>2, <3>3, <1>1 DEF Before
    <2> SUFFICES ASSUME NEW i \in 1..(L + 1), NEW j \in 1..(L + 1), i < j
                 PROVE  log'[i] # log'[j]
      BY <1>2 DEF UniqueIds
    <2>2. CASE j = L + 1
      BY <2>1, <2>2, <1>1, <1>2
    <2>3. CASE j \in 1..L
      BY <2>3, <1>1, <1>2 DEF IdInv, UniqueIds
    <2>. QED
      BY <2>2, <2>3, <1>1
  <1>. QED
    BY <1>4, <1>5, <1>6, <1>7 DEF IdInv

LEMMA IdInvStep == IdInv /\ [IdNext]_idVars => IdInv'
  <1> SUFFICES ASSUME IdInv, [IdNext]_idVars PROVE IdInv'
    OBVIOUS
  <1>1. ASSUME NEW c \in Callers, ReadClock(c) PROVE IdInv'
    <2>1. /\ stamp' = [stamp EXCEPT ![c] = now]
          /\ UNCHANGED <<now, seq, log, starts>>
      BY <1>1 DEF ReadClock
    <2>2. IdTypeOK' /\ ClocksOK'
      BY <2>1 DEF IdInv, IdTypeOK, ClocksOK
    <2>. QED
      BY <2>1, <2>2 DEF IdInv, LogOK, UniqueIds, Before
  <1>2. ASSUME NEW c \in Callers, DrawNumber(c) PROVE IdInv'
    BY <1>2, DrawKeepsIds
  <1>3. ASSUME NEW c \in Callers, Forget(c) PROVE IdInv'
    <2>1. /\ stamp' = [stamp EXCEPT ![c] = None]
          /\ UNCHANGED <<now, seq, log, starts>>
      BY <1>3 DEF Forget
    <2>2. IdTypeOK' /\ ClocksOK'
      BY <2>1 DEF IdInv, IdTypeOK, ClocksOK
    <2>. QED
      BY <2>1, <2>2 DEF IdInv, LogOK, UniqueIds, Before
  <1>4. CASE NextMs
    <2>1. /\ now \in Nat /\ now' = now + 1 /\ seq' = seq /\ stamp' = stamp /\ log' = log
          /\ starts' = [m \in 0..(now + 1) |-> IF m <= now THEN starts[m] ELSE Len(log)]
          /\ Len(log) \in Nat
      BY <1>4 DEF NextMs, IdInv, IdTypeOK
    <2>2. \A m \in 0..now : starts'[m] = starts[m] /\ m \in 0..(now + 1)
      BY <2>1
    <2>3. starts'[now + 1] = Len(log)
      BY <2>1
    <2>4. IdTypeOK'
      BY <2>1 DEF IdInv, IdTypeOK
    <2>5. ClocksOK'
      BY <2>1, <2>2, <2>3 DEF IdInv, ClocksOK
    <2>6. LogOK'
      BY <2>1, <2>2 DEF IdInv, LogOK, Before
    <2>. QED
      BY <2>1, <2>4, <2>5, <2>6 DEF IdInv, UniqueIds
  <1>5. CASE UNCHANGED idVars
    BY <1>5 DEF idVars, IdInv, IdTypeOK, ClocksOK, LogOK, UniqueIds, Before
  <1>. QED
    BY <1>1, <1>2, <1>3, <1>4, <1>5 DEF IdNext

\* The default of the primary keys gives no id twice, for any number of
\* statements and any length of the cycle, as long as the load is Timely.
THEOREM DefaultIsUnique == IdSpec => []UniqueIds
  <1>1. IdInv => UniqueIds
    BY DEF IdInv
  <1>. QED
    BY <1>1, IdInvInit, IdInvStep, PTL DEF IdSpec

(***************************************************************************)
(* Every step of a signup, of the worker and of the clock is a step of     *)
(* Snowflake or leaves the ids alone.                                      *)
(***************************************************************************)

LEMMA IdStep == [Next]_vars => [IdNext]_idVars
  <1> SUFFICES ASSUME [Next]_vars PROVE [IdNext]_idVars
    OBVIOUS
  <1>1. ASSUME NEW h \in Callers, NEW e \in Emails, Start(h, e) PROVE UNCHANGED idVars
    BY <1>1 DEF Start
  <1>2. ASSUME NEW h \in Callers, Step(h) PROVE [IdNext]_idVars
    <2>1. CASE FindEmail(h) \/ FindNickname(h) \/ Insert(h) \/ CreateSession(h) \/ QueueMail(h)
      BY <2>1 DEF FindEmail, FindNickname, Insert, CreateSession, QueueMail
    <2>2. CASE InsertReadsClock(h)
      BY <2>2 DEF InsertReadsClock, IdNext
    <2>3. CASE InsertTakesNumber(h)
      BY <2>3 DEF InsertTakesNumber, IdNext
    <2>. QED
      BY <1>2, <2>1, <2>2, <2>3 DEF Step
  <1>3. ASSUME NEW h \in Callers, MailNotQueued(h) PROVE UNCHANGED idVars
    BY <1>3 DEF MailNotQueued
  <1>4. ASSUME NEW h \in Callers, Fail(h) PROVE IdNext
    BY <1>4 DEF Fail, IdNext
  <1>5. CASE NextMillisecond
    BY <1>5 DEF NextMillisecond, IdNext
  <1>6. ASSUME NEW e \in Emails, MailWork(e) \/ MailTrouble(e) PROVE UNCHANGED idVars
    BY <1>6 DEF MailWork, MailTrouble
  <1>7. CASE UNCHANGED vars
    BY <1>7 DEF vars
  <1>. QED
    BY <1>1, <1>2, <1>3, <1>4, <1>5, <1>6, <1>7, SignupAssumption DEF Next

\* The inserts of signups, with failures and retries between the clock and the
\* sequence, use the ids as Snowflake says.
THEOREM SignupsTakeIds == Spec => IdSpec
  <1>1. Init => IdInit
    BY DEF Init
  <1>. QED
    BY <1>1, IdStep, PTL DEF Spec, IdSpec

\* No two of the ids that signups take are the same.
THEOREM SignupIdsAreUnique == Spec => []UniqueIds
  BY SignupsTakeIds, DefaultIsUnique, PTL

LEMMA IdInvHolds == Spec => []IdInv
  <1>1. IdSpec => []IdInv
    BY IdInvInit, IdInvStep, PTL DEF IdSpec
  <1>. QED
    BY <1>1, SignupsTakeIds, PTL

(***************************************************************************)
(* Jobs.                                                                   *)
(***************************************************************************)

\* The mail of the present attempt has left.
Left(job) == job.state \in {"active", "completed"} /\ job.delivered

\* An unsettled job has an attempt and a stall left; the mails that left are
\* paid for by attempts and stalls, but for the one of the present attempt.
JobOK(job) ==
    /\ job.state \notin {"completed", "failed"} => job.made < Attempts /\ job.stalls <= MaxStalled
    /\ job.sent <= job.made + job.stalls + (IF Left(job) THEN 1 ELSE 0)
    /\ Left(job) => job.sent > 0
    /\ job.state = "completed" => job.delivered
    /\ job.state = "failed" => job.made = Attempts \/ job.stalls > MaxStalled

JobTypeOK == jobs \in [Emails -> Queue!Job \cup {None}]
JobsOK == \A e \in Emails : jobs[e] # None => JobOK(jobs[e])

\* Writing a good job keeps the others.
LEMMA JobFrame ==
    ASSUME JobTypeOK, JobsOK, NEW e \in Emails, NEW k \in Queue!Job, JobOK(k),
           jobs' = [jobs EXCEPT ![e] = k]
    PROVE  JobTypeOK' /\ JobsOK' /\ \A d \in Emails : jobs'[d] # None <=> jobs[d] # None \/ d = e
  BY NoneIsNothing DEF JobTypeOK, JobsOK, JobOK, Left

\* The worker and the provider keep the jobs good, and neither add nor drop one.
LEMMA WorkKeepsJobs ==
    ASSUME JobTypeOK, JobsOK, NEW e \in Emails, Queue!Work(e) \/ Queue!Trouble(e)
    PROVE  JobTypeOK' /\ JobsOK' /\ \A d \in Emails : jobs'[d] # None <=> jobs[d] # None
  <1> DEFINE j == jobs[e]
  <1> USE SignupAssumption
  <1>1. /\ j # None /\ j \in Queue!Job /\ JobOK(j)
        /\ j.state \in {"waiting", "active", "delayed"}
    BY DEF Queue!Work, Queue!Trouble, Queue!Take, Queue!Deliver, Queue!Complete, Queue!Backoff,
           Queue!Fails, Queue!Stalls, Queue!Is, JobTypeOK, JobsOK
  <1>2. /\ j.made \in 0..Attempts /\ j.stalls \in 0..(MaxStalled + 1) /\ j.sent \in Nat
        /\ j.delivered \in BOOLEAN
        /\ j.made < Attempts /\ j.stalls <= MaxStalled
    BY <1>1 DEF Queue!Job, JobOK
  <1> SUFFICES \E k \in Queue!Job : JobOK(k) /\ jobs' = [jobs EXCEPT ![e] = k]
    BY <1>1, JobFrame
  <1>3. CASE Queue!Take(e)
    <2> DEFINE k == [j EXCEPT !.state = "active", !.delivered = FALSE]
    <2>1. j.state = "waiting" /\ jobs' = [jobs EXCEPT ![e] = k]
      BY <1>3 DEF Queue!Take, Queue!Is, JobTypeOK
    <2>2. k \in Queue!Job /\ JobOK(k)
      BY <1>1, <1>2, <2>1 DEF Queue!Job, JobOK, Left
    <2>. QED
      BY <2>1, <2>2
  <1>4. CASE Queue!Deliver(e)
    <2> DEFINE k == [j EXCEPT !.delivered = TRUE, !.sent = @ + 1]
    <2>1. j.state = "active" /\ ~j.delivered /\ jobs' = [jobs EXCEPT ![e] = k]
      BY <1>4 DEF Queue!Deliver, Queue!Is, JobTypeOK
    <2>2. /\ k.state = "active" /\ k.made = j.made /\ k.stalls = j.stalls
          /\ k.delivered = TRUE /\ k.sent = j.sent + 1
      BY <1>1, <2>1 DEF Queue!Job
    <2>3. k \in Queue!Job
      <3>1. PICK n \in Nat : n = j.sent + 1
        BY <1>2
      <3>2. [j EXCEPT !.delivered = TRUE, !.sent = n] \in Queue!Job
        BY <1>1 DEF Queue!Job
      <3>. QED
        BY <3>1, <3>2
    <2>4. JobOK(k)
      BY <1>1, <1>2, <2>1, <2>2 DEF JobOK, Left
    <2>. QED
      BY <2>1, <2>3, <2>4
  <1>5. CASE Queue!Complete(e)
    <2> DEFINE k == [j EXCEPT !.state = "completed"]
    <2>1. j.state = "active" /\ j.delivered /\ jobs' = [jobs EXCEPT ![e] = k]
      BY <1>5 DEF Queue!Complete, Queue!Is, JobTypeOK
    <2>2. k \in Queue!Job /\ JobOK(k)
      BY <1>1, <1>2, <2>1 DEF Queue!Job, JobOK, Left
    <2>. QED
      BY <2>1, <2>2
  <1>6. CASE Queue!Backoff(e)
    <2> DEFINE k == [j EXCEPT !.state = "waiting"]
    <2>1. j.state = "delayed" /\ jobs' = [jobs EXCEPT ![e] = k]
      BY <1>6 DEF Queue!Backoff, Queue!Is, JobTypeOK
    <2>2. k \in Queue!Job /\ JobOK(k)
      BY <1>1, <1>2, <2>1 DEF Queue!Job, JobOK, Left
    <2>. QED
      BY <2>1, <2>2
  <1>7. CASE Queue!Fails(e)
    <2> DEFINE k == Queue!Tried(j)
    <2>1. j.state = "active" /\ jobs' = [jobs EXCEPT ![e] = k]
      BY <1>7 DEF Queue!Fails, Queue!Is
    <2>2. /\ k.made = j.made + 1 /\ k.stalls = j.stalls
          /\ k.delivered = j.delivered /\ k.sent = j.sent
          /\ k.state = IF j.made + 1 < Attempts THEN "delayed" ELSE "failed"
      BY <1>1 DEF Queue!Job, Queue!Tried
    <2>3. k \in Queue!Job
      <3>1. PICK n \in 0..Attempts : n = j.made + 1
        BY <1>2
      <3>2. PICK st \in {"delayed", "failed"} : st = IF j.made + 1 < Attempts THEN "delayed" ELSE "failed"
        OBVIOUS
      <3>3. [j EXCEPT !.made = n, !.state = st] \in Queue!Job
        BY <1>1 DEF Queue!Job
      <3>. QED
        BY <3>1, <3>2, <3>3 DEF Queue!Tried
    <2>4. JobOK(k)
      BY <1>1, <1>2, <2>1, <2>2 DEF JobOK, Left
    <2>. QED
      BY <2>1, <2>3, <2>4
  <1>8. CASE Queue!Stalls(e)
    <2> DEFINE k == Queue!Returned(j)
    <2>1. j.state = "active" /\ jobs' = [jobs EXCEPT ![e] = k]
      BY <1>8 DEF Queue!Stalls, Queue!Is
    <2>2. /\ k.made = j.made /\ k.stalls = j.stalls + 1
          /\ k.delivered = j.delivered /\ k.sent = j.sent
          /\ k.state = IF j.stalls < MaxStalled THEN "waiting" ELSE "failed"
      BY <1>1 DEF Queue!Job, Queue!Returned
    <2>3. k \in Queue!Job
      <3>1. PICK n \in 0..(MaxStalled + 1) : n = j.stalls + 1
        BY <1>2
      <3>2. PICK st \in {"waiting", "failed"} : st = IF j.stalls < MaxStalled THEN "waiting" ELSE "failed"
        OBVIOUS
      <3>3. [j EXCEPT !.stalls = n, !.state = st] \in Queue!Job
        BY <1>1 DEF Queue!Job
      <3>. QED
        BY <3>1, <3>2, <3>3 DEF Queue!Returned
    <2>4. JobOK(k)
      BY <1>1, <1>2, <2>1, <2>2 DEF JobOK, Left
    <2>. QED
      BY <2>1, <2>3, <2>4
  <1>. QED
    BY <1>3, <1>4, <1>5, <1>6, <1>7, <1>8 DEF Queue!Work, Queue!Trouble

\* A producer adds a job unless there is one.
LEMMA AddKeepsJobs ==
    ASSUME JobTypeOK, JobsOK, NEW e \in Emails, Queue!Add(e)
    PROVE  /\ JobTypeOK' /\ JobsOK'
           /\ \A d \in Emails : jobs'[d] # None <=> jobs[d] # None \/ d = e
  <1>1. Queue!NewJob \in Queue!Job /\ JobOK(Queue!NewJob)
    BY SignupAssumption DEF Queue!NewJob, Queue!Job, JobOK, Left
  <1>2. CASE jobs[e] = None
    BY <1>1, <1>2, JobFrame DEF Queue!Add
  <1>3. CASE jobs[e] # None
    BY <1>3 DEF Queue!Add, JobTypeOK, JobsOK
  <1>. QED
    BY <1>2, <1>3

(***************************************************************************)
(* Signups.                                                                *)
(***************************************************************************)

\* What a handler has in hand before it inserts the row and names its session.
CallOK(c) ==
    /\ c.step \in {"clock", "number", "insert"} => c.nickname \in Nickname
    /\ c.step = "insert" => c.id \in Id
    /\ c.step \in {"session", "mail"} => \E a \in accounts : a.email = c.email

CallsOK == \A h \in Callers : calls[h] # None => CallOK(calls[h])

\* TypeOK, but for the ids and the jobs, which have invariants of their own.
HandlersTypeOK ==
    /\ accounts \in SUBSET Account
    /\ calls \in [Callers -> Signup \cup {None}]
    /\ answered \in SUBSET Emails
    /\ begun \in 0..MaxSignups
    /\ faults \in 0..MaxFaults

\* AccountsAreComplete, in two parts.
AccountsMatch ==
    /\ \A a, b \in accounts : a.email = b.email => a = b
    /\ \A e \in Emails : (e \in answered \/ jobs[e] # None) => \E a \in accounts : a.email = e

HalfMadeOK == IsFiniteSet(HalfMade) /\ Cardinality(HalfMade) <= faults

SignupInv == HandlersTypeOK /\ JobTypeOK /\ CallsOK /\ JobsOK /\ AccountsMatch /\ HalfMadeOK

\* No more accounts are half-made, and no command fails.
LEMMA NoneHalfMade ==
    ASSUME HalfMadeOK, faults \in Nat, faults' = faults, HalfMade' \subseteq HalfMade
    PROVE  HalfMadeOK'
  <1>1. /\ IsFiniteSet(HalfMade') /\ Cardinality(HalfMade') <= Cardinality(HalfMade)
        /\ Cardinality(HalfMade) \in Nat /\ Cardinality(HalfMade') \in Nat
    BY FS_Subset, FS_CardinalityType DEF HalfMadeOK
  <1>. QED
    BY <1>1 DEF HalfMadeOK

\* A command that fails leaves one more at most.
LEMMA OneHalfMade ==
    ASSUME HalfMadeOK, faults \in Nat, faults' = faults + 1, NEW x,
           HalfMade' \subseteq HalfMade \cup {x}
    PROVE  HalfMadeOK'
  <1>1. IsFiniteSet(HalfMade) /\ Cardinality(HalfMade) \in Nat
    BY FS_CardinalityType DEF HalfMadeOK
  <1>2. /\ IsFiniteSet(HalfMade \cup {x})
        /\ Cardinality(HalfMade \cup {x}) = IF x \in HalfMade THEN Cardinality(HalfMade)
                                            ELSE Cardinality(HalfMade) + 1
    BY <1>1, FS_AddElement
  <1>3. /\ IsFiniteSet(HalfMade') /\ Cardinality(HalfMade') \in Nat
        /\ Cardinality(HalfMade') <= Cardinality(HalfMade \cup {x})
    BY <1>2, FS_Subset, FS_CardinalityType
  <1>. QED
    BY <1>1, <1>2, <1>3 DEF HalfMadeOK

\* A handler that is at a step has a signup in hand.
LEMMA AtSignup ==
    ASSUME HandlersTypeOK, NEW h \in Callers, NEW step, At(h, step)
    PROVE  calls[h] # None /\ calls[h] \in Signup /\ calls[h].step = step
  BY DEF HandlersTypeOK, At

\* A step of a handler that writes no row leaves no account half-made if, with
\* the session still to come, the signup stays in hand until its mail is queued;
\* a command that fails may leave one.
LEMMA CallFrame ==
    ASSUME SignupInv, NEW h \in Callers, NEW c \in Signup \cup {None}, c # None => CallOK(c),
           calls' = [calls EXCEPT ![h] = c],
           UNCHANGED <<accounts, jobs, answered>>,
           begun' \in 0..MaxSignups, faults' \in 0..MaxFaults,
           \/ faults' = faults + 1
           \/ /\ faults' = faults
              /\ At(h, "session") \/ At(h, "mail") =>
                    c # None /\ c.step \in {"session", "mail"} /\ c.email = calls[h].email
    PROVE  SignupInv'
  <1>1. HandlersTypeOK' /\ JobTypeOK' /\ JobsOK'
    BY DEF SignupInv, HandlersTypeOK, JobTypeOK, JobsOK, JobOK, Left
  <1>2. \A g \in Callers : calls'[g] = IF g = h THEN c ELSE calls[g]
    BY DEF SignupInv, HandlersTypeOK
  <1>3. CallsOK'
    BY <1>2 DEF SignupInv, CallsOK, CallOK
  <1>4. AccountsMatch'
    BY DEF SignupInv, AccountsMatch
  <1>5. faults \in Nat /\ HalfMadeOK
    BY SignupAssumption DEF SignupInv, HandlersTypeOK
  <1>6. ASSUME NEW e \in Emails, InHand(e), faults' = faults \/ e # calls[h].email
        PROVE  InHand(e)'
    <2>1. PICK g \in Callers : (At(g, "session") \/ At(g, "mail")) /\ calls[g].email = e
      BY <1>6 DEF InHand
    <2>2. (At(g, "session") \/ At(g, "mail"))' /\ calls'[g].email = e
      <3>1. CASE g = h
        <4>1. faults' = faults
          BY <1>6, <2>1, <3>1
        <4>2. faults' # faults + 1
          BY <4>1, <1>5
        <4>3. c # None /\ c.step \in {"session", "mail"} /\ c.email = calls[h].email
          BY <2>1, <3>1, <4>2
        <4>. QED
          BY <2>1, <3>1, <4>3, <1>2 DEF At
      <3>2. CASE g # h
        BY <2>1, <3>2, <1>2 DEF At
      <3>. QED
        BY <3>1, <3>2
    <2>. QED
      BY <2>2 DEF InHand
  <1>7. HalfMadeOK'
    <2>1. CASE faults' = faults
      <3>1. HalfMade' \subseteq HalfMade
        BY <1>6, <2>1 DEF HalfMade, Complete
      <3>. QED
        BY <1>5, <2>1, <3>1, NoneHalfMade
    <2>2. CASE faults' = faults + 1
      <3>1. HalfMade' \subseteq HalfMade \cup {calls[h].email}
        BY <1>6 DEF HalfMade, Complete
      <3>. QED
        BY <1>5, <2>2, <3>1, OneHalfMade
    <2>. QED
      BY <2>1, <2>2
  <1>. QED
    BY <1>1, <1>3, <1>4, <1>7 DEF SignupInv

LEMMA SignupInvInit == Init => SignupInv
  <1> SUFFICES ASSUME Init PROVE SignupInv
    OBVIOUS
  <1>1. HandlersTypeOK /\ JobTypeOK /\ JobsOK /\ CallsOK
    BY SignupAssumption DEF Init, HandlersTypeOK, JobTypeOK, JobsOK, CallsOK
  <1>2. HalfMade = {} /\ faults = 0
    BY DEF Init, HalfMade
  <1>3. HalfMadeOK
    BY <1>2, FS_EmptySet DEF HalfMadeOK
  <1>. QED
    BY <1>1, <1>3 DEF Init, SignupInv, AccountsMatch

\* Every step of the signups, the worker and the clock keeps the invariant.
LEMMA SignupInvStep == SignupInv /\ IdInv /\ [Next]_vars => SignupInv'
  <1> SUFFICES ASSUME SignupInv, IdInv, [Next]_vars PROVE SignupInv'
    OBVIOUS
  <1> USE SignupAssumption
  <1>0. /\ HandlersTypeOK /\ JobTypeOK /\ CallsOK /\ JobsOK /\ AccountsMatch /\ HalfMadeOK
        /\ begun \in 0..MaxSignups /\ faults \in 0..MaxFaults /\ faults \in Nat
    BY DEF SignupInv, HandlersTypeOK
  <1>1. ASSUME NEW h \in Callers, NEW e \in Emails, Start(h, e) PROVE SignupInv'
    <2> DEFINE c == [email |-> e, step |-> "email", tries |-> 0, nickname |-> None, id |-> None]
    <2>1. c \in Signup /\ CallOK(c)
      BY DEF Signup, Steps, CallOK
    <2>2. /\ calls' = [calls EXCEPT ![h] = c] /\ begun' \in 0..MaxSignups
          /\ UNCHANGED <<accounts, jobs, answered, faults>>
          /\ ~At(h, "session") /\ ~At(h, "mail")
      BY <1>1, <1>0 DEF Start, At
    <2>. QED
      BY <2>1, <2>2, <1>0, CallFrame
  <1>2. ASSUME NEW h \in Callers, FindEmail(h) PROVE SignupInv'
    <2> DEFINE c == [calls[h] EXCEPT !.step = "nickname"]
    <2>1. calls[h] \in Signup /\ calls[h].step = "email" /\ ~At(h, "session") /\ ~At(h, "mail")
      BY <1>2, <1>0, AtSignup DEF FindEmail, At
    <2>2. c \in Signup /\ CallOK(c)
      BY <2>1 DEF Signup, Steps, CallOK
    <2>3. \/ calls' = [calls EXCEPT ![h] = c]
          \/ calls' = [calls EXCEPT ![h] = None]
      BY <1>2, <1>0 DEF FindEmail, Go, End, HandlersTypeOK
    <2>4. UNCHANGED <<accounts, jobs, answered, begun, faults>>
      BY <1>2 DEF FindEmail
    <2>. QED
      BY <2>1, <2>2, <2>3, <2>4, <1>0, CallFrame
  <1>3. ASSUME NEW h \in Callers, FindNickname(h) PROVE SignupInv'
    <2> DEFINE b == calls[h]
               again == [b EXCEPT !.tries = @ + 1]
    <2>1. b \in Signup /\ b.step = "nickname" /\ ~At(h, "session") /\ ~At(h, "mail")
      BY <1>3, <1>0, AtSignup DEF FindNickname, At
    <2>2. b.tries < MaxTries => again \in Signup /\ CallOK(again)
      <3> SUFFICES ASSUME b.tries < MaxTries PROVE again \in Signup /\ CallOK(again)
        OBVIOUS
      <3>1. PICK n \in 0..MaxTries : n = b.tries + 1
        BY <2>1 DEF Signup
      <3>2. [b EXCEPT !.tries = n] \in Signup /\ CallOK([b EXCEPT !.tries = n])
        BY <2>1 DEF Signup, CallOK
      <3>. QED
        BY <3>1, <3>2
    <2>3. Candidate(b) \in Nickname
      BY <2>1 DEF Candidate, Nickname, Signup
    <2>4. Chosen(b) \in Signup /\ CallOK(Chosen(b))
      <3>1. PICK n \in Nickname : n = Candidate(b)
        BY <2>3
      <3>2. /\ [b EXCEPT !.nickname = n, !.step = "clock"] \in Signup
            /\ CallOK([b EXCEPT !.nickname = n, !.step = "clock"])
        BY <2>1 DEF Signup, Steps, CallOK
      <3>. QED
        BY <3>1, <3>2 DEF Chosen
    <2>5. \/ b.tries < MaxTries /\ calls' = [calls EXCEPT ![h] = again]
          \/ calls' = [calls EXCEPT ![h] = Chosen(b)]
      BY <1>3 DEF FindNickname
    <2>6. UNCHANGED <<accounts, jobs, answered, begun, faults>>
      BY <1>3 DEF FindNickname
    <2>. QED
      BY <2>1, <2>2, <2>4, <2>5, <2>6, <1>0, CallFrame
  <1>4. ASSUME NEW h \in Callers, InsertReadsClock(h) PROVE SignupInv'
    <2> DEFINE c == [calls[h] EXCEPT !.step = "number"]
    <2>1. calls[h] \in Signup /\ calls[h].step = "clock" /\ ~At(h, "session") /\ ~At(h, "mail")
          /\ CallOK(calls[h])
      BY <1>4, <1>0, AtSignup DEF InsertReadsClock, At, CallsOK
    <2>2. c \in Signup /\ CallOK(c)
      BY <2>1 DEF Signup, Steps, CallOK
    <2>3. /\ calls' = [calls EXCEPT ![h] = c]
          /\ UNCHANGED <<accounts, jobs, answered, begun, faults>>
      BY <1>4, <1>0 DEF InsertReadsClock, Go, HandlersTypeOK
    <2>. QED
      BY <2>1, <2>2, <2>3, <1>0, CallFrame
  <1>5. ASSUME NEW h \in Callers, InsertTakesNumber(h) PROVE SignupInv'
    <2>1. calls[h] \in Signup /\ calls[h].step = "number" /\ ~At(h, "session") /\ ~At(h, "mail")
          /\ CallOK(calls[h])
      BY <1>5, <1>0, AtSignup DEF InsertTakesNumber, At, CallsOK
    <2>2. PICK id \in Id : id = [ms |-> stamp[h], n |-> seq]
      BY <1>5 DEF InsertTakesNumber, DrawNumber, IdInv, IdTypeOK, Id
    <2> DEFINE c == [calls[h] EXCEPT !.step = "insert", !.id = id]
    <2>3. c \in Signup /\ CallOK(c)
      BY <2>1 DEF Signup, Steps, CallOK
    <2>4. calls' = [calls EXCEPT ![h] = c]
      BY <1>5, <1>0, <2>2 DEF InsertTakesNumber, HandlersTypeOK
    <2>5. UNCHANGED <<accounts, jobs, answered, begun, faults>>
      BY <1>5 DEF InsertTakesNumber
    <2>. QED
      BY <2>1, <2>3, <2>4, <2>5, <1>0, CallFrame
  <1>6. ASSUME NEW h \in Callers, Insert(h) PROVE SignupInv'
    <2> DEFINE b == calls[h]
               c == [b EXCEPT !.step = "session"]
               row == [id |-> b.id, email |-> b.email, nickname |-> b.nickname]
    <2>1. /\ b # None /\ b \in Signup /\ b.step = "insert" /\ CallOK(b)
          /\ ~At(h, "session") /\ ~At(h, "mail")
          /\ UNCHANGED <<jobs, answered, begun, faults>>
      BY <1>6, <1>0, AtSignup DEF Insert, At, CallsOK
    <2>2. CASE End(h) /\ UNCHANGED accounts
      BY <2>1, <2>2, <1>0, CallFrame DEF End
    <2>3. CASE ~Refused(b) /\ accounts' = accounts \cup {row} /\ Go(h, "session")
      <3>1. row \in Account /\ row.email = b.email
        BY <2>1 DEF CallOK, Account, Signup
      <3>2. c \in Signup /\ c # None /\ c.step = "session" /\ c.email = b.email
        BY <2>1, NoneIsNothing DEF Signup, Steps
      <3>3. \A g \in Callers : calls'[g] = IF g = h THEN c ELSE calls[g]
        BY <2>3, <1>0 DEF Go, HandlersTypeOK
      <3>4. HandlersTypeOK' /\ JobTypeOK' /\ JobsOK'
        BY <2>1, <2>3, <3>1, <3>2, <1>0 DEF Go, HandlersTypeOK, JobTypeOK, JobsOK, JobOK, Left
      <3>5. CallsOK'
        <4> SUFFICES ASSUME NEW g \in Callers, calls'[g] # None PROVE CallOK(calls[g])'
          BY DEF CallsOK
        <4>1. CASE g = h
          BY <4>1, <3>1, <3>2, <3>3, <2>3 DEF CallOK
        <4>2. CASE g # h
          <5>1. calls'[g] = calls[g] /\ CallOK(calls[g])
            BY <4>2, <3>3, <1>0 DEF CallsOK
          <5>. QED
            BY <5>1, <2>3 DEF CallOK
        <4>. QED
          BY <4>1, <4>2
      <3>6. \A a, d \in accounts' : a.email = d.email => a = d
        BY <2>3, <3>1, <1>0 DEF Refused, AccountsMatch
      <3>7. \A e \in Emails : (e \in answered' \/ jobs'[e] # None) => \E a \in accounts' : a.email = e
        BY <2>1, <2>3, <1>0 DEF AccountsMatch
      <3>8. ASSUME NEW e, e = b.email PROVE InHand(e)'
        <4>1. At(h, "session")' /\ calls'[h].email = e
          BY <3>2, <3>3, <3>8 DEF At
        <4>. QED
          BY <4>1 DEF InHand
      <3>9. ASSUME NEW e, InHand(e) PROVE InHand(e)'
        <4>1. PICK g \in Callers : (At(g, "session") \/ At(g, "mail")) /\ calls[g].email = e
          BY <3>9 DEF InHand
        <4>2. calls'[g] = calls[g]
          BY <4>1, <2>1, <3>3
        <4>. QED
          BY <4>1, <4>2 DEF InHand, At
      <3>10. HalfMade' \subseteq HalfMade
        <4>1. \A e : Complete(e)' <=> Complete(e)
          BY <2>1 DEF Complete
        <4>2. ASSUME NEW e \in HalfMade' PROVE e \in HalfMade
          <5>1. e \in Emails /\ ~Complete(e) /\ ~InHand(e) /\ e # b.email
            BY <3>8, <3>9, <4>1, <4>2 DEF HalfMade
          <5>2. PICK d \in accounts' : d.email = e
            BY <4>2 DEF HalfMade
          <5>3. d \in accounts
            BY <2>3, <3>1, <5>1, <5>2
          <5>. QED
            BY <5>1, <5>2, <5>3 DEF HalfMade
        <4>. QED
          BY <4>2
      <3>11. HalfMadeOK'
        BY <1>0, <2>1, <3>10, NoneHalfMade
      <3>. QED
        BY <3>4, <3>5, <3>6, <3>7, <3>11 DEF SignupInv, AccountsMatch
    <2>. QED
      BY <1>6, <2>2, <2>3 DEF Insert
  <1>7. ASSUME NEW h \in Callers, CreateSession(h) PROVE SignupInv'
    <2> DEFINE c == [calls[h] EXCEPT !.step = "mail"]
    <2>1. calls[h] \in Signup /\ calls[h].step = "session" /\ CallOK(calls[h])
      BY <1>7, <1>0, AtSignup DEF CreateSession, CallsOK
    <2>2. c \in Signup /\ CallOK(c) /\ c # None /\ c.step = "mail" /\ c.email = calls[h].email
      BY <2>1, NoneIsNothing DEF Signup, Steps, CallOK
    <2>3. /\ calls' = [calls EXCEPT ![h] = c]
          /\ UNCHANGED <<accounts, jobs, answered, begun, faults>>
      BY <1>7, <1>0 DEF CreateSession, Go, HandlersTypeOK
    <2>. QED
      BY <2>1, <2>2, <2>3, <1>0, CallFrame
  <1>8. ASSUME NEW h \in Callers, QueueMail(h) PROVE SignupInv'
    <2> DEFINE e == calls[h].email
    <2>1. /\ calls[h] \in Signup /\ e \in Emails /\ calls[h].step = "mail" /\ CallOK(calls[h])
      BY <1>8, <1>0, AtSignup DEF QueueMail, CallsOK, Signup
    <2>2. /\ JobTypeOK' /\ JobsOK'
          /\ \A d \in Emails : jobs'[d] # None <=> jobs[d] # None \/ d = e
      BY <1>8, <2>1, <1>0, AddKeepsJobs DEF QueueMail
    <2>3. /\ answered' = answered \cup {e} /\ UNCHANGED <<accounts, begun, faults>>
          /\ \A g \in Callers : calls'[g] = IF g = h THEN None ELSE calls[g]
      BY <1>8, <1>0 DEF QueueMail, End, HandlersTypeOK
    <2>4. HandlersTypeOK'
      BY <1>8, <2>1, <2>3, <1>0 DEF QueueMail, End, HandlersTypeOK
    <2>5. CallsOK'
      BY <2>3, <1>0 DEF CallsOK, CallOK
    <2>6. ASSUME NEW d, d # e, InHand(d) PROVE InHand(d)'
      <3>1. PICK g \in Callers : (At(g, "session") \/ At(g, "mail")) /\ calls[g].email = d
        BY <2>6 DEF InHand
      <3>2. calls'[g] = calls[g]
        BY <2>3, <2>6, <3>1
      <3>. QED
        BY <3>1, <3>2 DEF InHand, At
    <2>7. HalfMade' \subseteq HalfMade
      <3>1. \A d \in Emails : Complete(d) \/ d = e => Complete(d)'
        BY <2>2, <2>3 DEF Complete
      <3>. QED
        BY <2>3, <2>6, <3>1 DEF HalfMade
    <2>8. HalfMadeOK'
      BY <1>0, <2>3, <2>7, NoneHalfMade
    <2>9. AccountsMatch'
      BY <2>1, <2>2, <2>3, <1>0 DEF AccountsMatch, CallOK
    <2>. QED
      BY <2>2, <2>4, <2>5, <2>8, <2>9 DEF SignupInv
  <1>9. ASSUME NEW h \in Callers, MailNotQueued(h) PROVE SignupInv'
    <2>1. /\ calls[h] \in Signup /\ calls[h].email \in Emails /\ calls[h].step = "mail"
          /\ CallOK(calls[h])
      BY <1>9, <1>0, AtSignup DEF MailNotQueued, CallsOK, Signup
    <2>2. /\ answered' = answered \cup {calls[h].email} /\ UNCHANGED <<accounts, jobs, begun>>
          /\ faults' = faults + 1 /\ faults' # 0 /\ faults' \in 0..MaxFaults
          /\ calls' = [calls EXCEPT ![h] = None]
      BY <1>9, <1>0 DEF MailNotQueued, End
    <2>3. HandlersTypeOK' /\ JobTypeOK' /\ JobsOK'
      BY <2>1, <2>2, <1>0 DEF HandlersTypeOK, JobTypeOK, JobsOK, JobOK, Left
    <2>4. CallsOK'
      BY <2>2, <1>0 DEF CallsOK, CallOK, HandlersTypeOK
    <2>5. AccountsMatch'
      BY <2>1, <2>2, <1>0 DEF AccountsMatch, CallOK
    <2>6. ASSUME NEW d, d # calls[h].email, InHand(d) PROVE InHand(d)'
      <3>1. PICK g \in Callers : (At(g, "session") \/ At(g, "mail")) /\ calls[g].email = d
        BY <2>6 DEF InHand
      <3>2. calls'[g] = calls[g]
        BY <2>2, <2>6, <3>1, <1>0 DEF HandlersTypeOK
      <3>. QED
        BY <3>1, <3>2 DEF InHand, At
    <2>7. HalfMade' \subseteq HalfMade \cup {calls[h].email}
      BY <2>2, <2>6 DEF HalfMade, Complete
    <2>8. HalfMadeOK'
      BY <1>0, <2>2, <2>7, OneHalfMade
    <2>. QED
      BY <2>3, <2>4, <2>5, <2>8 DEF SignupInv
  <1>10. ASSUME NEW h \in Callers, Fail(h) PROVE SignupInv'
    <2>1. /\ calls' = [calls EXCEPT ![h] = None] /\ faults' = faults + 1 /\ faults' \in 0..MaxFaults
          /\ UNCHANGED <<accounts, jobs, answered, begun>>
      BY <1>10, <1>0 DEF Fail, End
    <2>. QED
      BY <2>1, <1>0, CallFrame
  <1>11. CASE UNCHANGED <<accounts, calls, jobs, answered, begun, faults>>
    <2>1. HandlersTypeOK' /\ JobTypeOK' /\ JobsOK' /\ CallsOK' /\ AccountsMatch'
      BY <1>11, <1>0 DEF HandlersTypeOK, JobTypeOK, JobsOK, JobOK, Left, CallsOK, CallOK, AccountsMatch
    <2>2. HalfMade' = HalfMade
      BY <1>11 DEF HalfMade, Complete, InHand, At
    <2>3. HalfMadeOK'
      BY <1>11, <1>0, <2>2, NoneHalfMade
    <2>. QED
      BY <2>1, <2>3 DEF SignupInv
  <1>12. ASSUME NEW e \in Emails, MailWork(e) \/ MailTrouble(e) PROVE SignupInv'
    <2>1. /\ JobTypeOK' /\ JobsOK'
          /\ \A d \in Emails : jobs'[d] # None <=> jobs[d] # None
          /\ UNCHANGED <<accounts, calls, answered, begun, faults>>
      BY <1>12, <1>0, WorkKeepsJobs DEF MailWork, MailTrouble
    <2>2. HandlersTypeOK' /\ CallsOK'
      BY <2>1, <1>0 DEF HandlersTypeOK, CallsOK, CallOK
    <2>3. HalfMade' = HalfMade
      BY <2>1 DEF HalfMade, Complete, InHand, At
    <2>4. HalfMadeOK'
      BY <2>1, <2>3, <1>0, NoneHalfMade
    <2>5. AccountsMatch'
      BY <2>1, <1>0 DEF AccountsMatch
    <2>. QED
      BY <2>1, <2>2, <2>4, <2>5 DEF SignupInv
  <1>. QED
    <2>1. CASE NextMillisecond
      BY <2>1, <1>11 DEF NextMillisecond
    <2>2. CASE UNCHANGED vars
      BY <2>2, <1>11 DEF vars
    <2>. QED
      BY <2>1, <2>2, <1>1, <1>2, <1>3, <1>4, <1>5, <1>6, <1>7, <1>8, <1>9, <1>10, <1>12
         DEF Next, Step

LEMMA SignupInvHolds == Spec => []SignupInv
  BY SignupInvInit, SignupInvStep, IdInvHolds, PTL DEF Spec

(***************************************************************************)
(* The theorems.                                                           *)
(***************************************************************************)

\* Rows, handlers and jobs stay well formed: no row is written without its id
\* and nickname, and no job has more attempts or stalls than it may have.
THEOREM SignupTypes == Spec => []TypeOK
  <1>1. IdInv /\ SignupInv => TypeOK
    BY DEF IdInv, SignupInv, HandlersTypeOK, JobTypeOK, TypeOK
  <1>. QED
    BY <1>1, IdInvHolds, SignupInvHolds, PTL

\* Each mail that leaves once more has cost an attempt or a stall, and a job
\* ends by sending its mail or by using them up.
THEOREM ResendsCounted == Spec => []ResendsAreCounted
  <1>1. SignupInv => ResendsAreCounted
    <2> SUFFICES ASSUME SignupInv, NEW e \in Emails, jobs[e] # None
                 PROVE  /\ jobs[e].sent <= jobs[e].made + jobs[e].stalls + 1
                        /\ jobs[e].state = "completed" => jobs[e].sent > 0
                        /\ jobs[e].state = "failed" =>
                              jobs[e].made = Attempts \/ jobs[e].stalls > MaxStalled
      BY DEF ResendsAreCounted, Queue!ResendsAreCounted
    <2>1. jobs[e] \in Queue!Job /\ JobOK(jobs[e])
      BY DEF SignupInv, JobTypeOK, JobsOK
    <2>. QED
      BY <2>1, SignupAssumption DEF JobOK, Left, Queue!Job
  <1>. QED
    BY <1>1, SignupInvHolds, PTL

\* However signups race for an address, an address has one account, a session
\* and a mail belong to an account, and at most as many accounts lack one of the
\* two as commands have failed.
THEOREM SignupsComplete == Spec => []AccountsAreComplete
  <1>1. SignupInv => AccountsAreComplete
    BY DEF SignupInv, AccountsMatch, HalfMadeOK, AccountsAreComplete
  <1>. QED
    BY <1>1, SignupInvHolds, PTL
=============================================================================
