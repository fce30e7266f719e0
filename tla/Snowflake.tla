----------------------------- MODULE Snowflake -----------------------------
(***************************************************************************)
(* generate_snowflake_id(), the default of every primary key: a            *)
(* millisecond of the clock, and the next number of a sequence that starts *)
(* again after Cycle numbers.  Statements of several connections read the  *)
(* clock and the sequence in any order, so a number may be joined to a     *)
(* millisecond that is long past.  No application sets the worker id, and  *)
(* it is 0 in every id.                                                    *)
(***************************************************************************)
EXTENDS Integers, Sequences

CONSTANTS
    Callers,  \* statements that may need an id at the same time
    Cycle,    \* numbers of tourna_snowflake_sequence (4096)
    MaxMs,    \* bound: the clock stops here
    None      \* no millisecond read yet

ASSUME SnowflakeAssumption == Cycle \in Nat \ {0} /\ MaxMs \in Nat /\ None \notin Nat

VARIABLES
    now,     \* milliseconds since the epoch of the ids; never set back
    seq,     \* what nextval returns next
    stamp,   \* the millisecond that a statement has read, or None
    log,     \* history: the ids, in the order of their numbers
    starts   \* history: how many ids there were when a millisecond began

idVars == <<now, seq, stamp, log, starts>>

Id == [ms : Nat, n : 0..(Cycle - 1)]

IdTypeOK ==
    /\ now \in Nat
    /\ seq \in 0..(Cycle - 1)
    /\ stamp \in [Callers -> Nat \cup {None}]
    /\ log \in Seq(Id)
    /\ starts \in [0..now -> Nat]

IdInit ==
    /\ now = 0
    /\ seq = 0
    /\ stamp = [c \in Callers |-> None]
    /\ log = <<>>
    /\ starts = [m \in 0..0 |-> 0]

(* Mutant: the sequence starts again one number early. *)
FollowingEarly(n) == IF n + 2 >= Cycle THEN 0 ELSE n + 1

(* minvalue 0, maxvalue Cycle - 1, cycle *)
Following(n) == IF n = Cycle - 1 THEN 0 ELSE n + 1

ReadClock(c) ==
    /\ stamp[c] = None
    /\ stamp' = [stamp EXCEPT ![c] = now]
    /\ UNCHANGED <<now, seq, log, starts>>

(* Assumed of the load: when a statement takes its number, fewer than      *)
(* Cycle numbers have been taken since its millisecond began.              *)
Timely(m) == Len(log) - starts[m] < Cycle

DrawNumber(c) ==
    /\ stamp[c] # None
    /\ Timely(stamp[c])
    /\ log' = Append(log, [ms |-> stamp[c], n |-> seq])
    /\ seq' = Following(seq)
    /\ stamp' = [stamp EXCEPT ![c] = None]
    /\ UNCHANGED <<now, starts>>

(* The statement is given up. *)
Forget(c) ==
    /\ stamp' = [stamp EXCEPT ![c] = None]
    /\ UNCHANGED <<now, seq, log, starts>>

NextMs ==
    /\ now < MaxMs
    /\ now' = now + 1
    /\ starts' = [m \in 0..(now + 1) |-> IF m <= now THEN starts[m] ELSE Len(log)]
    /\ UNCHANGED <<seq, stamp, log>>

IdNext ==
    \/ \E c \in Callers : ReadClock(c) \/ DrawNumber(c) \/ Forget(c)
    \/ NextMs

IdSpec == IdInit /\ [][IdNext]_idVars

(* No id is given out twice, however the statements of one millisecond, or *)
(* of several, are interleaved between the clock and the sequence.         *)
UniqueIds == \A i, j \in 1..Len(log) : i < j => log[i] # log[j]
=============================================================================
