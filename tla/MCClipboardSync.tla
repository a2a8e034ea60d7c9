-------------------------- MODULE MCClipboardSync --------------------------
(* Instances of ClipboardSync for TLC: two Linux hosts, one of each system,*)
(* two Windows hosts, and three Linux hosts.                               *)
EXTENDS ClipboardSync, TLC

CONSTANTS A, B, C, t, u, p, c, x

Two(sys1, sys2) == [os |-> A :> sys1 @@ B :> sys2, copies |-> {t, u, x, p, c}]
Three == [os |-> [h \in {A, B, C} |-> "linux"], copies |-> {t, u}]

MCGroups ==
    {Two("linux", "linux"), Two("linux", "windows"), Two("windows", "windows"), Three}

(* The picture p comes back from a Windows clipboard as c.                 *)
MCReencoded == [d \in {t, u, x, p, c} |-> IF d = p THEN c ELSE d]
=============================================================================
