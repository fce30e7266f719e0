------------------------------ MODULE JobQueue ------------------------------
(***************************************************************************)
(* The jobs of a BullMQ queue under the options of packages/queue, and the *)
(* worker that sends the mails.  A job is tried again when its processor   *)
(* fails, after a delay, and when its worker is gone; neither knows        *)
(* whether the mail has left, and the providers do not use the idempotency *)
(* key of the command.                                                     *)
(***************************************************************************)
EXTENDS Naturals

CONSTANTS
    JobIds,      \* ids of the jobs; the producers give them
    Attempts,    \* attempts of the job's definition (5)
    MaxStalled,  \* maxStalledCount of the worker (1)
    None         \* no job

VARIABLE jobs

(* sent: mails that left (history); delivered: one left in this run        *)
Job == [state : {"waiting", "active", "delayed", "completed", "failed"},
        made : 0..Attempts, stalls : 0..(MaxStalled + 1),
        delivered : BOOLEAN, sent : Nat]

Is(j, state) == IF jobs[j] = None THEN FALSE ELSE jobs[j].state = state
Settled(j) == Is(j, "completed") \/ Is(j, "failed")

NewJob == [state |-> "waiting", made |-> 0, stalls |-> 0, delivered |-> FALSE, sent |-> 0]

(* A job whose id is known is not added again. *)
Add(j) == jobs' = IF jobs[j] = None THEN [jobs EXCEPT ![j] = NewJob] ELSE jobs

Take(j) ==
    /\ Is(j, "waiting")
    /\ jobs' = [jobs EXCEPT ![j].state = "active", ![j].delivered = FALSE]

Deliver(j) ==
    /\ Is(j, "active") /\ ~jobs[j].delivered
    /\ jobs' = [jobs EXCEPT ![j].delivered = TRUE, ![j].sent = @ + 1]

Complete(j) ==
    /\ Is(j, "active") /\ jobs[j].delivered
    /\ jobs' = [jobs EXCEPT ![j].state = "completed"]

(* Mutant: a failed attempt is not counted. *)
TriedUncounted(job) == [job EXCEPT !.state = "delayed"]

Tried(job) == [job EXCEPT !.made = @ + 1,
                          !.state = IF job.made + 1 < Attempts THEN "delayed" ELSE "failed"]

(* The provider answers with an error, and the mail may have left.         *)
Fails(j) ==
    /\ Is(j, "active")
    /\ jobs' = [jobs EXCEPT ![j] = Tried(@)]

Backoff(j) ==
    /\ Is(j, "delayed")
    /\ jobs' = [jobs EXCEPT ![j].state = "waiting"]

(* Mutant: a stalled job fails, and is put back at the same time. *)
ReturnedFreely(job) == [job EXCEPT !.state = "waiting"]

Returned(job) == [job EXCEPT !.stalls = @ + 1,
                             !.state = IF job.stalls < MaxStalled THEN "waiting" ELSE "failed"]

(* The worker died or lost its lock. *)
Stalls(j) ==
    /\ Is(j, "active")
    /\ jobs' = [jobs EXCEPT ![j] = Returned(@)]

Work(j) == Take(j) \/ Deliver(j) \/ Complete(j) \/ Backoff(j)
Trouble(j) == Fails(j) \/ Stalls(j)

(* A mail that leaves once more costs an attempt or a stall; a job is      *)
(* given up only when one of the two is used up, and completed only when   *)
(* its mail has left.                                                      *)
ResendsAreCounted ==
    \A j \in JobIds :
        IF jobs[j] = None THEN TRUE
        ELSE LET job == jobs[j]
             IN  /\ job.sent <= job.made + job.stalls + 1
                 /\ job.state = "completed" => job.sent > 0
                 /\ job.state = "failed" => job.made = Attempts \/ job.stalls > MaxStalled
=============================================================================
