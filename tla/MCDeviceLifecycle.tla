-------------------------- MODULE MCDeviceLifecycle --------------------------
(* Instances of DeviceLifecycle for TLC.                                   *)
EXTENDS DeviceLifecycle, TLC

CONSTANTS p, q, o1, o2, s1, s2, k1, k2

OnePeerOf == (o1 :> p) @@ (o2 :> p)
OneDeviceOf == o1 :> p
TwoPeersOf == (o1 :> p) @@ (o2 :> q)

(* Two devices of one user, both running the same OS.                      *)
SameIdentity == (p :> "user/linux") @@ (q :> "user/linux")
OneIdentity == p :> "user/linux"

(* The streams are interchangeable, and so are two Devices of one peer.    *)
StreamSymmetry == Permutations(Streams)
Symmetry == Permutations(Streams) \cup Permutations(Devices)

(* The two peers are interchangeable together with their Devices.          *)
Swap == (p :> q) @@ (q :> p) @@ (o1 :> o2) @@ (o2 :> o1)
PeerSymmetry == {[x \in DOMAIN Swap \cup Streams |->
                    IF x \in Streams THEN t[x] ELSE IF w THEN Swap[x] ELSE x] :
                  t \in Permutations(Streams), w \in BOOLEAN}

(* What does not matter for most properties: the contents of a Device that *)
(* nothing refers to, the history variable, and which of the two statuses  *)
(* a failed stream left, for no code tells "error" from "disconnected".    *)
Shown(d) == [d EXCEPT !.status = IF @ = "error" THEN "disconnected" ELSE @]
Live == <<[o \in Devices |-> IF Referenced(o) THEN Shown(device[o]) ELSE None],
          table, reader, update, discovery, writer, prompt, restarts>>

(* What a restart reads, and what is going to be read.                     *)
LiveState == <<Live, saves>>
ReadState == <<Live, disk, torn, saving>>
=============================================================================
