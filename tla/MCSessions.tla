---------------------------- MODULE MCSessions -----------------------------
(* Sessions on small sets of model values.  Ids, users and handlers are     *)
(* interchangeable; the properties checked under symmetry are safety        *)
(* properties.  Either many sessions of several users meet while every      *)
(* clock agrees, or few of one user live on with clocks that differ.        *)
EXTENDS Sessions, TLC

CONSTANTS FewIds, ShortTime

Symmetry == Permutations(Users) \cup Permutations(Ids) \cup Permutations(Handlers)

Used == {i \in Ids : ~Fresh(i)}
Owners == {u \in Users : userSessions[u] # {}}
    \cup {calls[h].user : h \in {g \in Handlers : Busy(g)}}
OnTime ==
    /\ \A h \in Handlers : Busy(h) => calls[h].op = "revoke" \/ calls[h].now = calls[h].at
    /\ \A i \in Ids : Live(i) => session[i].expiresAt = session[i].exp

ManyOrLong ==
    \/ clock <= ShortTime /\ OnTime
    \/ Cardinality(Used) <= FewIds /\ Cardinality(Owners \ {None}) <= 1
=============================================================================
