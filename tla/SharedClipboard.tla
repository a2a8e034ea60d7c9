-------------------------- MODULE SharedClipboard --------------------------
(***************************************************************************)
(* What clipboard synchronisation promises to a user who waits until the   *)
(* last copy has arrived before the next is made: every host comes to show *)
(* what was copied, and keeps showing it.  A copy that the watcher does    *)
(* not notice stays on its host, and ends the promise until the next one.  *)
(***************************************************************************)
CONSTANTS Host, Value

VARIABLES
    value,      \* what was copied last
    shown,      \* the hosts that show it
    missed      \* the copy was not noticed

vars == <<value, shown, missed>>

Init == value \in Value /\ shown = Host /\ missed = FALSE

Settled == shown = Host \/ missed

Copy(h) ==
    /\ Settled
    /\ value' \in Value
    /\ shown' \in {S \in SUBSET Host : h \in S}     \* others may show the same by chance
    /\ missed' \in BOOLEAN

Spread(h) ==
    /\ ~missed
    /\ shown' = shown \cup {h}
    /\ UNCHANGED <<value, missed>>

Next == \E h \in Host : Copy(h) \/ Spread(h)

Spec == Init /\ [][Next]_vars /\ \A h \in Host : WF_vars(Spread(h))
=============================================================================
