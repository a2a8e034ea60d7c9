---------------------------- MODULE MCHostLoops ----------------------------
(* Instances of HostLoops for TLC: every kind of goroutine with another.   *)
EXTENDS HostLoops

Pair(k, l) == [w \in Workers |-> IF w = "one" THEN k ELSE l]
MCCrews == {Pair("mdns", "handler"), Pair("reader", "writer"), Pair("transfer", "watcher")}
=============================================================================
