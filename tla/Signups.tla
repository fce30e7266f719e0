------------------------------ MODULE Signups ------------------------------
(***************************************************************************)
(* Signups that race for an address, a nickname and an id, and the mail    *)
(* that welcomes each account.                                             *)
(*                                                                         *)
(* A handler looks up the address, looks for a free nickname, inserts the  *)
(* row (whose id comes from Snowflake, and whose address and nickname have *)
(* unique indexes), creates the session and queues the mail (JobQueue),    *)
(* all as separate commands.  A mail that cannot be queued is not an error *)
(* of the signup.                                                          *)
(***************************************************************************)
EXTENDS Snowflake, FiniteSets

CONSTANTS
    Emails,      \* addresses, as SignupSchema leaves them
    Base,        \* address -> nickname made from its local part
    MaxTries,    \* nicknames tried before a random one (20)
    Attempts, MaxStalled,  \* see JobQueue
    MaxSignups,  \* bound: signups begun
    Troubled,    \* bound: addresses whose mail meets errors and dying workers
    MaxFaults    \* bound: commands that fail

ASSUME SignupAssumption ==
    /\ MaxTries \in Nat \ {0} /\ MaxSignups \in Nat /\ MaxFaults \in Nat
    /\ Attempts \in Nat \ {0} /\ MaxStalled \in Nat
    /\ Troubled \subseteq Emails /\ None \notin Emails

VARIABLES
    accounts,  \* rows of users
    calls,     \* the signup of a handler, or None
    jobs,      \* address -> its mail, see JobQueue
    answered,  \* history: addresses whose signup was answered with a session
    begun,     \* signups begun so far
    faults     \* commands that failed so far

vars == <<idVars, accounts, calls, jobs, answered, begun, faults>>

Queue == INSTANCE JobQueue WITH JobIds <- Emails

(* -2, -3, ... or six characters of a random UUID, which nobody else has *)
Nickname == [base : {Base[e] : e \in Emails}, suffix : 0..(MaxTries - 1) \cup Emails]
Account  == [id : Id, email : Emails, nickname : Nickname]
Steps    == {"email", "nickname", "clock", "number", "insert", "session", "mail"}
Signup   == [email : Emails, step : Steps, tries : 0..MaxTries,
             nickname : Nickname \cup {None}, id : Id \cup {None}]

ASSUME NoneIsNothing == None \notin Signup \cup Queue!Job

TypeOK ==
    /\ IdTypeOK
    /\ accounts \in SUBSET Account
    /\ calls \in [Callers -> Signup \cup {None}]
    /\ jobs \in [Emails -> Queue!Job \cup {None}]
    /\ answered \in SUBSET Emails
    /\ begun \in 0..MaxSignups
    /\ faults \in 0..MaxFaults

Init ==
    /\ IdInit
    /\ accounts = {}
    /\ calls = [h \in Callers |-> None]
    /\ jobs = [e \in Emails |-> None]
    /\ answered = {}
    /\ begun = 0 /\ faults = 0

At(h, step) == IF calls[h] = None THEN FALSE ELSE calls[h].step = step
Go(h, step) == calls' = [calls EXCEPT ![h].step = step]
End(h) == calls' = [calls EXCEPT ![h] = None]
-----------------------------------------------------------------------------
(* AuthService.signup. *)

Start(h, e) ==
    /\ calls[h] = None /\ begun < MaxSignups
    /\ begun' = begun + 1
    /\ calls' = [calls EXCEPT ![h] =
           [email |-> e, step |-> "email", tries |-> 0, nickname |-> None, id |-> None]]
    /\ UNCHANGED <<idVars, accounts, jobs, answered, faults>>

FindEmail(h) ==
    /\ At(h, "email")
    /\ IF \E a \in accounts : a.email = calls[h].email THEN End(h) ELSE Go(h, "nickname")
    /\ UNCHANGED <<idVars, accounts, jobs, answered, begun, faults>>

(* Mutant: there is no end to the numbers. *)
CandidateNumbered(c) == [base |-> Base[c.email], suffix |-> c.tries]

Candidate(c) == [base |-> Base[c.email],
                 suffix |-> IF c.tries < MaxTries THEN c.tries ELSE c.email]
Chosen(c) == [c EXCEPT !.nickname = Candidate(c), !.step = "clock"]

(* the random nickname is not looked up *)
FindNickname(h) ==
    /\ At(h, "nickname")
    /\ LET c == calls[h]
           taken == \E a \in accounts : a.nickname = Candidate(c)
       IN  calls' = [calls EXCEPT ![h] =
               IF c.tries < MaxTries /\ taken THEN [c EXCEPT !.tries = @ + 1] ELSE Chosen(c)]
    /\ UNCHANGED <<idVars, accounts, jobs, answered, begun, faults>>

(* The insert: its default takes the time and the number, then the indexes *)
(* are checked.                                                            *)
InsertReadsClock(h) ==
    /\ At(h, "clock") /\ ReadClock(h) /\ Go(h, "number")
    /\ UNCHANGED <<accounts, jobs, answered, begun, faults>>

InsertTakesNumber(h) ==
    /\ At(h, "number")
    /\ calls' = [calls EXCEPT ![h].step = "insert", ![h].id = [ms |-> stamp[h], n |-> seq]]
    /\ DrawNumber(h)
    /\ UNCHANGED <<accounts, jobs, answered, begun, faults>>

(* Mutant: the index on addresses is missing. *)
RefusedOnNickname(c) == \E a \in accounts : a.id = c.id \/ a.nickname = c.nickname

Refused(c) ==
    \E a \in accounts : a.id = c.id \/ a.email = c.email \/ a.nickname = c.nickname

Insert(h) ==
    /\ At(h, "insert")
    /\ LET c == calls[h]
       IN  \/ /\ Refused(c)
              /\ End(h)
              /\ UNCHANGED accounts
           \/ /\ ~Refused(c)
              /\ accounts' = accounts \cup
                     {[id |-> c.id, email |-> c.email, nickname |-> c.nickname]}
              /\ Go(h, "session")
    /\ UNCHANGED <<idVars, jobs, answered, begun, faults>>

CreateSession(h) ==
    /\ At(h, "session")
    /\ Go(h, "mail")
    /\ UNCHANGED <<idVars, accounts, jobs, answered, begun, faults>>

QueueMail(h) ==
    /\ At(h, "mail")
    /\ Queue!Add(calls[h].email)
    /\ answered' = answered \cup {calls[h].email}
    /\ End(h)
    /\ UNCHANGED <<idVars, accounts, begun, faults>>

(* enqueuePostRegistrationNotification logs the failure and goes on. *)
MailNotQueued(h) ==
    /\ At(h, "mail") /\ faults < MaxFaults
    /\ answered' = answered \cup {calls[h].email}
    /\ End(h)
    /\ faults' = faults + 1
    /\ UNCHANGED <<idVars, accounts, jobs, begun>>

(* A command of any other step fails, or the API process dies. *)
Fail(h) ==
    /\ calls[h] # None /\ faults < MaxFaults
    /\ End(h)
    /\ Forget(h)
    /\ faults' = faults + 1
    /\ UNCHANGED <<accounts, jobs, answered, begun>>

Step(h) ==
    \/ FindEmail(h)
    \/ FindNickname(h)
    \/ InsertReadsClock(h)
    \/ InsertTakesNumber(h)
    \/ Insert(h)
    \/ CreateSession(h)
    \/ QueueMail(h)

NextMillisecond == NextMs /\ UNCHANGED <<accounts, calls, jobs, answered, begun, faults>>

MailWork(e) == Queue!Work(e) /\ UNCHANGED <<idVars, accounts, calls, answered, begun, faults>>
MailTrouble(e) == Queue!Trouble(e) /\ UNCHANGED <<idVars, accounts, calls, answered, begun, faults>>

Next ==
    \/ \E h \in Callers, e \in Emails : Start(h, e)
    \/ \E h \in Callers : Step(h)
    \/ \E h \in Callers : MailNotQueued(h)
    \/ \E h \in Callers : Fail(h)
    \/ NextMillisecond
    \/ \E e \in Emails : MailWork(e)
    \/ \E e \in Troubled : MailTrouble(e)

(* The worker runs: it takes waiting jobs and BullMQ ends their delays. *)
Fairness == \A e \in Emails : WF_vars(MailWork(e))
Spec == Init /\ [][Next]_vars /\ Fairness
-----------------------------------------------------------------------------
ResendsAreCounted == Queue!ResendsAreCounted

(* An address has one account, and a session and a mail belong to one.     *)
(* An account is complete when its owner has a session and a mail was      *)
(* queued, or its signup is still at work on that.  Each command that      *)
(* fails leaves at most one half-made account behind; no race leaves any.  *)
Complete(e) == e \in answered /\ jobs[e] # None
InHand(e) == \E h \in Callers : (At(h, "session") \/ At(h, "mail")) /\ calls[h].email = e
HalfMade == {e \in Emails : /\ \E a \in accounts : a.email = e
                            /\ ~Complete(e) /\ ~InHand(e)}

AccountsAreComplete ==
    /\ \A a, b \in accounts : a.email = b.email => a = b
    /\ Cardinality(HalfMade) <= faults
    /\ \A e \in Emails : (e \in answered \/ jobs[e] # None) =>
           \E a \in accounts : a.email = e

(* A queued mail leaves or its job is given up: retries and stalls do not  *)
(* go on for ever.                                                         *)
MailSettles == \A e \in Emails : jobs[e] # None ~> Queue!Settled(e)
=============================================================================
