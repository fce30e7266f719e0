--------------------------- MODULE InvitationBook ---------------------------
(***************************************************************************)
(* What the invitations of a team promise, without requests, transactions  *)
(* or clocks: an invitation is offered once, for a number of users that is *)
(* never changed; it admits a user once, and never more of them; once it   *)
(* is closed it stays closed, and admits nobody.                           *)
(***************************************************************************)
EXTENDS Naturals, FiniteSets

CONSTANTS Users, Invitations, MaxUses, None

VARIABLES
    limit,    \* how many users an invitation is for, or None
    closed,   \* invitations that were revoked or expired long enough ago
    admitted  \* which invitation has admitted whom

vars == <<limit, closed, admitted>>

Init ==
    /\ limit = [i \in Invitations |-> None]
    /\ closed = {}
    /\ admitted = {}

AdmittedBy(i) == {u \in Users : <<i, u>> \in admitted}

\* An invitation may be offered with an expiry in the past.
Offer(i, n) ==
    /\ limit[i] = None
    /\ limit' = [limit EXCEPT ![i] = n]
    /\ closed' \in {closed, closed \cup {i}}
    /\ admitted' = admitted

Admit(i, u) ==
    /\ limit[i] # None /\ i \notin closed
    /\ <<i, u>> \notin admitted /\ Cardinality(AdmittedBy(i)) < limit[i]
    /\ admitted' = admitted \cup {<<i, u>>}
    /\ UNCHANGED <<limit, closed>>

\* One is revoked, or the time of some is over.
Close(S) ==
    /\ \A i \in S : limit[i] # None
    /\ closed' = closed \cup S
    /\ UNCHANGED <<limit, admitted>>

Next ==
    \/ \E i \in Invitations, n \in 1..MaxUses : Offer(i, n)
    \/ \E i \in Invitations, u \in Users : Admit(i, u)
    \/ \E S \in SUBSET Invitations : Close(S)

Spec == Init /\ [][Next]_vars
=============================================================================
