---------------------------- MODULE UploadLedger ----------------------------
(***************************************************************************)
(* What the upload service promises its clients, without keys, requests,   *)
(* sweeps or clocks.  An upload that was promised can be finalized; this   *)
(* ends only once its object is kept or its time is over, and it never     *)
(* comes back.  What the client wrote is discarded only then, too, and an  *)
(* upload is reported finalized only when its object is kept.              *)
(***************************************************************************)
CONSTANT Uploads

VARIABLES
    promised,   \* uploads a client was given a url for
    open,       \* uploads that can be finalized
    over,       \* uploads whose time is over
    held,       \* uploads with a temporary object
    kept,       \* uploads whose object has been copied to its final place
    reported    \* uploads that were marked finalized

vars == <<promised, open, over, held, kept, reported>>

Init == /\ promised = {} /\ open = {} /\ over = {}
        /\ held = {} /\ kept = {} /\ reported = {}

Promise(u) ==
    /\ u \notin promised
    /\ promised' = promised \cup {u}
    /\ open' = open \cup {u}
    /\ UNCHANGED <<over, held, kept, reported>>

\* The client writes, perhaps once more after its upload was finalized.
Put(u) ==
    /\ u \in promised
    /\ held' = held \cup {u}
    /\ UNCHANGED <<promised, open, over, kept, reported>>

Keep(u) ==
    /\ u \in held
    /\ kept' = kept \cup {u}
    /\ UNCHANGED <<promised, open, over, held, reported>>

Discard(u) ==
    /\ u \in kept \cup over
    /\ held' = held \ {u}
    /\ UNCHANGED <<promised, open, over, kept, reported>>

Report(u) ==
    /\ u \in kept
    /\ reported' = reported \cup {u}
    /\ open' = open \ {u}
    /\ UNCHANGED <<promised, over, held, kept>>

\* Time passes for some, and some can no longer be finalized.
Withdraw(late, S) ==
    /\ over' = over \cup late
    /\ S \subseteq kept \cup over'
    /\ open' = open \ S
    /\ UNCHANGED <<promised, held, kept, reported>>

Next ==
    \/ \E u \in Uploads : Promise(u) \/ Put(u) \/ Keep(u) \/ Discard(u) \/ Report(u)
    \/ \E late \in SUBSET promised, S \in SUBSET Uploads : Withdraw(late, S)

Spec == Init /\ [][Next]_vars
=============================================================================
