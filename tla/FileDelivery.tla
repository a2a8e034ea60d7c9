---------------------------- MODULE FileDelivery ----------------------------
(***************************************************************************)
(* What sending one file to a peer promises: the copy grows from nothing   *)
(* to the whole file without ever holding anything else, and neither end   *)
(* reports success before the copy is whole.  Either end may fail.         *)
(***************************************************************************)
EXTENDS Naturals, Sequences

CONSTANT Contents  \* the files that may be sent, as sequences of bytes

VARIABLES file, copy, sender, receiver

vars == <<file, copy, sender, receiver>>

Outcomes == {"running", "ok", "failed"}

Init ==
    /\ file \in Contents
    /\ copy = <<>>
    /\ sender = "running"
    /\ receiver = "running"

Arrive ==
    /\ receiver = "running"
    /\ \E n \in Len(copy) + 1 .. Len(file) : copy' = SubSeq(file, 1, n)
    /\ receiver' \in {"running", "failed"}
    /\ UNCHANGED <<file, sender>>

ReceiverEnds ==
    /\ receiver = "running"
    /\ \/ copy = file /\ receiver' = "ok"
       \/ receiver' = "failed"
    /\ UNCHANGED <<file, copy, sender>>

SenderEnds ==
    /\ sender = "running"
    /\ \/ copy = file /\ sender' = "ok"
       \/ sender' = "failed"
    /\ UNCHANGED <<file, copy, receiver>>

Next == Arrive \/ ReceiverEnds \/ SenderEnds

Spec == Init /\ [][Next]_vars /\ WF_vars(ReceiverEnds) /\ WF_vars(SenderEnds)
=============================================================================
