---------------------------- MODULE MCTeamAccess ----------------------------
(* A team with its owner and a few interchangeable other users.  Several   *)
(* users share one invitation of one use, or the owner alone comes back    *)
(* with one invitation of more uses or several that expire together.  Two  *)
(* guarded requests race once the invitation has expired.                  *)
EXTENDS TeamAccess, TLC

Symmetry == Permutations(Users \ {Owner}) \cup Permutations(Invitations) \cup Permutations(Handlers)

Created == {i \in Invitations : inv[i] # None}
Stranger(u) ==
    /\ member[u] = None /\ past[u].rows = 0 /\ cache[u] = None
    /\ \A h \in Handlers : IF calls[h] = None THEN TRUE ELSE calls[h].user # u

Guarded == {h \in Handlers : IF calls[h] = None THEN FALSE ELSE calls[h].op # "accept"}

Alone == \A u \in Users \ {Owner} : Stranger(u)
AllOfOneUse == \A i \in Created : inv[i].maxUses = 1
ExpireTogether == \A i, j \in Created : inv[i].left = inv[j].left
AllExpired == \A i \in Created : inv[i].status = "active" /\ inv[i].left = -Late

SharedOrReused ==
    /\ Cardinality(Guarded) <= 1 \/ (~Alone /\ AllExpired)
    /\ \/ Cardinality(Created) <= 1 /\ (AllOfOneUse \/ Alone)
       \/ AllOfOneUse /\ ExpireTogether /\ Alone
=============================================================================
