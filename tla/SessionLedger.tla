--------------------------- MODULE SessionLedger ---------------------------
(***************************************************************************)
(* What the session store promises, without keys, clocks or messages: a    *)
(* login opens a chain of sessions of which at most the last one is alive. *)
(* Rotation moves the login from its live session to a new one, and a      *)
(* session that has ended stays ended.                                     *)
(***************************************************************************)
CONSTANTS Ids, None

VARIABLES
    live,    \* sessions that can be refreshed
    login    \* the login (its first session) a session belongs to, or None

vars == <<live, login>>

Init == live = {} /\ login = [i \in Ids |-> None]

\* A user logs in or signs up.
Open(i) ==
    /\ login[i] = None
    /\ login' = [login EXCEPT ![i] = i]
    /\ live' = live \cup {i}

\* The refresh token of i is exchanged for session j.
Rotate(i, j) ==
    /\ i \in live
    /\ login[j] = None
    /\ login' = [login EXCEPT ![j] = login[i]]
    /\ live' = (live \ {i}) \cup {j}

\* Sessions end, by logout or because their time is over.
End(S) == S # {} /\ live' = live \ S /\ login' = login

Next ==
    \/ \E i \in Ids : Open(i)
    \/ \E i, j \in Ids : Rotate(i, j)
    \/ \E S \in SUBSET live : End(S)

Spec == Init /\ [][Next]_vars
=============================================================================
