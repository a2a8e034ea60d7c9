--------------------------- MODULE FileClipboard ---------------------------
(***************************************************************************)
(* Copying files between hosts: on each host a watcher polls the file      *)
(* clipboard and a consumer starts the sends of what a user has copied; a  *)
(* received file is put on the clipboard of its host, where the watcher    *)
(* must not take it for a new copy.  The transfer of a file is one step    *)
(* here, which FileTransfer describes.  The unit of time is the interval   *)
(* of the polls.                                                           *)
(***************************************************************************)
EXTENDS Integers, Sequences, FiniteSets

CONSTANTS
    Hosts,
    Homes,      \* Homes[h]: the files and directories that the user of h copies
    Inside,     \* Inside[p]: the names of the files that a walk of p visits, of
                \* which there is one at least
    Window,     \* selfSetWindow and the time of SetFileClipboardActive
    Slow,       \* the longest time that putting a file on the clipboard takes
    Copies,     \* how often users copy (bounds the model)
    Failures    \* how many polls fail (bounds the model)

Paths == UNION {Homes[h] : h \in Hosts}
Names == UNION {{Inside[p][i] : i \in DOMAIN Inside[p]} : p \in Paths}

ASSUME FileClipboardAssumption ==
    /\ Window \in Nat /\ Slow \in Nat /\ Copies \in Nat /\ Failures \in Nat
    /\ \A p \in Paths : Inside[p] \in Seq(Names) \ {<<>>}
    /\ Paths \cap Names = {}
    /\ Slow + 2 <= Window       \* a poll finds the file while it is still known

VARIABLES
    clip,       \* the paths on the file clipboard, and the copy they are from;
                \* a name is the path of a received file
    last,       \* the paths that the watcher saw at its last poll
    polled,     \* it has polled in this unit of time
    emitted,    \* what it has emitted and the consumer has not taken
    selfSet,    \* recentSelfSet: the time for which a received file is still known
    active,     \* fileClipboardActive
    timers,     \* the times left to the goroutines that will clear it
    linked,     \* the pairs of hosts whose devices are connected
    sends,      \* the goroutines that send a path
    hooks,      \* the receive hooks under way
    made,       \* copies made by users
    failed,     \* polls that have failed
    missed,     \* history variables: how many polls have failed with a copy on
    sent        \* the clipboard, and how often each host has sent the copy

vars == <<clip, last, polled, emitted, selfSet, active, timers, linked, sends, hooks, made,
          failed, missed, sent>>

ByHook == 0
Clip == [paths : SUBSET (Paths \cup Names), copy : ByHook .. Copies]
Empty == [paths |-> {}, copy |-> ByHook]
Pairs == {S \in SUBSET Hosts : Cardinality(S) = 2}
Peers(h) == {g \in Hosts : {h, g} \in linked}

TypeOK ==
    /\ clip \in [Hosts -> Clip]
    /\ last \in [Hosts -> SUBSET (Paths \cup Names)]
    /\ polled \in [Hosts -> BOOLEAN]
    /\ emitted \in [Hosts -> Clip]
    /\ selfSet \in [Hosts -> [Names -> 0 .. Window]]
    /\ active \in [Hosts -> BOOLEAN]
    /\ timers \in [Hosts -> SUBSET (1 .. Window)]
    /\ linked \subseteq Pairs
    /\ sends \subseteq [from : Hosts, to : Hosts, left : Seq(Names) \ {<<>>},
                        copy : ByHook .. Copies]
    /\ \A s \in sends : s.from # s.to
    /\ hooks \in [Hosts -> SUBSET [name : Names, step : {"mark", "set"}, age : 0 .. Slow,
                                   copy : ByHook .. Copies]]
    /\ made \in 0 .. Copies
    /\ failed \in 0 .. Failures
    /\ missed \in [Hosts -> [ByHook .. Copies -> Nat]]
    /\ sent \in [Hosts -> [ByHook .. Copies -> Nat]]

Init ==
    /\ clip = [h \in Hosts |-> Empty]
    /\ last = [h \in Hosts |-> {}]
    /\ polled = [h \in Hosts |-> FALSE]
    /\ emitted = [h \in Hosts |-> Empty]
    /\ selfSet = [h \in Hosts |-> [n \in Names |-> 0]]
    /\ active = [h \in Hosts |-> FALSE]
    /\ timers = [h \in Hosts |-> {}]
    /\ linked = Pairs
    /\ sends = {}
    /\ hooks = [h \in Hosts |-> {}]
    /\ made = 0
    /\ failed = 0
    /\ missed = [h \in Hosts |-> [c \in ByHook .. Copies |-> 0]]
    /\ sent = [h \in Hosts |-> [c \in ByHook .. Copies |-> 0]]
-----------------------------------------------------------------------------
(* A user copies files, or something that is not a file.                   *)
Copy(h, S) ==
    /\ made < Copies
    /\ made' = made + 1
    /\ clip' = [clip EXCEPT ![h] = [paths |-> S, copy |-> made + 1]]
    /\ UNCHANGED <<last, polled, emitted, selfSet, active, timers, linked, sends, hooks,
                   failed, missed, sent>>

(* The devices of two hosts disconnect, or connect again.                  *)
Relink(pair) ==
    /\ linked' = IF pair \in linked THEN linked \ {pair} ELSE linked \cup {pair}
    /\ UNCHANGED <<clip, last, polled, emitted, selfSet, active, timers, sends, hooks,
                   made, failed, missed, sent>>

(* A variant of Poll that does not keep what it has seen.                  *)
PollForgets(h) ==
    /\ ~polled[h] /\ emitted[h].paths = {}
    /\ polled' = [polled EXCEPT ![h] = TRUE]
    /\ emitted' = [emitted EXCEPT ![h] = clip[h]]
    /\ UNCHANGED <<clip, last, selfSet, active, timers, linked, sends, hooks, made,
                   failed, missed, sent>>

(* Watch: what differs from the last poll is emitted.                      *)
Poll(h) ==
    /\ ~polled[h] /\ emitted[h].paths = {}
    /\ polled' = [polled EXCEPT ![h] = TRUE]
    /\ last' = [last EXCEPT ![h] = clip[h].paths]
    /\ emitted' = IF clip[h].paths = last[h] THEN emitted
                  ELSE [emitted EXCEPT ![h] = clip[h]]
    /\ UNCHANGED <<clip, selfSet, active, timers, linked, sends, hooks, made,
                   failed, missed, sent>>

(* The tool that reads the clipboard fails: the watcher takes this for an  *)
(* empty clipboard, and will emit what is on it once more.                 *)
PollFails(h) ==
    /\ ~polled[h] /\ emitted[h].paths = {}
    /\ clip[h].paths # {}
    /\ failed < Failures
    /\ failed' = failed + 1
    /\ polled' = [polled EXCEPT ![h] = TRUE]
    /\ last' = [last EXCEPT ![h] = {}]
    /\ missed' = [missed EXCEPT ![h][clip[h].copy] = @ + 1]
    /\ UNCHANGED <<clip, emitted, selfSet, active, timers, linked, sends, hooks, made,
                   sent>>

(* SetFileClipboardActive: each call starts a timer of its own.            *)
SetFileClipboardActive(h) ==
    /\ active' = [active EXCEPT ![h] = TRUE]
    /\ timers' = [timers EXCEPT ![h] = @ \cup {Window}]

(* filterSelfSet: without the received files that are still known.         *)
FilterSelfSet(h, S) == {p \in S : p \in Names => selfSet[h][p] = 0}

(* What sending a path sends: a received file is sent under its name.      *)
Walk(p) == IF p \in Names THEN <<p>> ELSE Inside[p]

(* The consumer of the watcher: every path that is not one of the received *)
(* files gets a goroutine, and all go to one connected device, whichever   *)
(* comes first in the map.                                                 *)
Consume(h) ==
    LET e == emitted[h]
        new == FilterSelfSet(h, e.paths)
    IN
    /\ e.paths # {}
    /\ emitted' = [emitted EXCEPT ![h] = Empty]
    /\ \/ new = {} /\ UNCHANGED <<active, timers, sends, sent>>
       \/ /\ new # {}
          /\ SetFileClipboardActive(h)
          /\ \/ Peers(h) = {} /\ UNCHANGED <<sends, sent>>
             \/ \E g \in Peers(h) :
                   /\ sends' = sends \cup
                         {[from |-> h, to |-> g, left |-> Walk(p), copy |-> e.copy] : p \in new}
                   /\ sent' = [sent EXCEPT ![h][e.copy] = @ + 1]
    /\ UNCHANGED <<clip, last, polled, selfSet, linked, hooks, made, failed, missed>>

(* SendFileToPeer: the next file of the walk arrives and starts the hook   *)
(* of the receiver; an error ends the walk.                                *)
Rest(s) == IF Len(s.left) = 1 THEN {} ELSE {[s EXCEPT !.left = Tail(@)]}

Transfer(s) ==
    /\ {s.from, s.to} \in linked
    /\ sends' = (sends \ {s}) \cup Rest(s)
    /\ hooks' = [hooks EXCEPT ![s.to] = @ \cup
                    {[name |-> Head(s.left), step |-> "mark", age |-> 0, copy |-> s.copy]}]
    /\ UNCHANGED <<clip, last, polled, emitted, selfSet, active, timers, linked, made,
                   failed, missed, sent>>

TransferFails(s) ==
    /\ sends' = sends \ {s}
    /\ UNCHANGED <<clip, last, polled, emitted, selfSet, active, timers, linked, hooks,
                   made, failed, missed, sent>>
-----------------------------------------------------------------------------
(* The receive hook.  The path is marked before it gets on the clipboard.  *)
Marked(h, k) == hooks' = [hooks EXCEPT ![h] = (@ \ {k}) \cup {[k EXCEPT !.step = "set"]}]

(* A variant that does not mark the path.                                  *)
HookMarksNothing(h, k) ==
    /\ k.step = "mark"
    /\ SetFileClipboardActive(h)
    /\ Marked(h, k)
    /\ UNCHANGED <<clip, last, polled, emitted, selfSet, linked, sends, made,
                   failed, missed, sent>>

(* A variant whose flag nobody clears.                                     *)
HookMarksForGood(h, k) ==
    /\ k.step = "mark"
    /\ active' = [active EXCEPT ![h] = TRUE]
    /\ selfSet' = [selfSet EXCEPT ![h][k.name] = Window]
    /\ Marked(h, k)
    /\ UNCHANGED <<clip, last, polled, emitted, timers, linked, sends, made, failed,
                   missed, sent>>

HookMarks(h, k) ==
    /\ k.step = "mark"
    /\ SetFileClipboardActive(h)
    /\ selfSet' = [selfSet EXCEPT ![h][k.name] = Window]
    /\ Marked(h, k)
    /\ UNCHANGED <<clip, last, polled, emitted, linked, sends, made,
                   failed, missed, sent>>

(* SetFiles, which may fail, and the paste into the window in front.       *)
HookSetsFiles(h, k) ==
    /\ k.step = "set"
    /\ hooks' = [hooks EXCEPT ![h] = @ \ {k}]
    /\ \/ clip' = [clip EXCEPT ![h] = [paths |-> {k.name}, copy |-> ByHook]]
       \/ UNCHANGED clip
    /\ UNCHANGED <<last, polled, emitted, selfSet, active, timers, linked, sends, made,
                   failed, missed, sent>>
-----------------------------------------------------------------------------
(* Time passes: the watchers poll in every unit of it, the consumers keep  *)
(* up, and SetFiles takes no longer than Slow.  A variant of the ages      *)
(* does not stop when the time is over.                                    *)
LessForGood(n) == n - 1

Less(n) == IF n = 0 THEN 0 ELSE n - 1

Tick ==
    /\ \A h \in Hosts :
          /\ polled[h] /\ emitted[h].paths = {}
          /\ \A k \in hooks[h] : k.step = "set" => k.age < Slow
    /\ polled' = [h \in Hosts |-> FALSE]
    /\ selfSet' = [h \in Hosts |-> [n \in Names |-> Less(selfSet[h][n])]]
    /\ active' = [h \in Hosts |-> active[h] /\ 1 \notin timers[h]]
    /\ timers' = [h \in Hosts |-> {t - 1 : t \in timers[h] \ {1}}]
    /\ hooks' = [h \in Hosts |->
          {IF k.step = "set" THEN [k EXCEPT !.age = @ + 1] ELSE k : k \in hooks[h]}]
    /\ UNCHANGED <<clip, last, emitted, linked, sends, made, failed, missed, sent>>

Hook(h) == \E k \in hooks[h] : HookMarks(h, k) \/ HookSetsFiles(h, k)
Sender == \E s \in sends : Transfer(s) \/ TransferFails(s)

Next ==
    \/ \E h \in Hosts :
          \/ \E S \in SUBSET Homes[h] : Copy(h, S)
          \/ Poll(h) \/ PollFails(h) \/ Consume(h) \/ Hook(h)
    \/ \E pair \in Pairs : Relink(pair)
    \/ Sender
    \/ Tick

(* The timers run, and no goroutine waits for ever.                        *)
Fairness ==
    /\ WF_vars(Tick) /\ WF_vars(Sender)
    /\ \A h \in Hosts : WF_vars(Poll(h)) /\ WF_vars(Consume(h)) /\ WF_vars(Hook(h))

Spec == Init /\ [][Next]_vars /\ Fairness
-----------------------------------------------------------------------------
(* What the proofs rest on.  Until a received file is on the clipboard it  *)
(* stays known for longer than that takes.                                 *)
Known ==
    \A h \in Hosts : \A k \in hooks[h] : k.step = "set" => selfSet[h][k.name] + k.age >= Window

(* What is emitted would be sent, and the next poll that finds something   *)
(* new would emit what would be sent.                                      *)
InHand(h, c) == emitted[h].copy = c /\ FilterSelfSet(h, emitted[h].paths) # {}

Unseen(h, c) ==
    /\ clip[h].copy = c /\ clip[h].paths # last[h]
    /\ \E p \in clip[h].paths : p \in Names => selfSet[h][p] < IF polled[h] THEN 2 ELSE 1

One(b) == IF b THEN 1 ELSE 0

(* Each send is paid for: by the user who has copied, or by a failed poll. *)
Paid ==
    \A h \in Hosts, c \in ByHook .. Copies :
        sent[h][c] + One(InHand(h, c)) + One(Unseen(h, c)) <= missed[h][c] + One(c # ByHook)

(* A copy has been on one host only, and after it was made.                *)
Has(h, c) == clip[h].copy = c \/ emitted[h].copy = c \/ sent[h][c] > 0

Owned ==
    \A h \in Hosts, c \in 1 .. Copies :
        Has(h, c) => c <= made /\ \A g \in Hosts \ {h} : ~Has(g, c)

(* A host sends on by itself what it has received, once for each time that *)
(* its tool failed to read the clipboard, and never otherwise: the window  *)
(* is long enough for all that the hooks and polls do.                     *)
EchoNeedsFailure == \A h \in Hosts : sent[h][ByHook] <= missed[h][ByHook]

(* One copy is sent by the host it was made on, once, and once more for    *)
(* each failed poll, however often it is found on the clipboard.           *)
ResendNeedsFailure ==
    \A h \in Hosts, c \in 1 .. Copies :
        /\ sent[h][c] <= 1 + missed[h][c]
        /\ sent[h][c] > 0 => \A g \in Hosts \ {h} : sent[g][c] = 0

(* When users have stopped copying and polls no longer fail, all transfers *)
(* end and text is let through again: nothing goes back and forth, and no  *)
(* flag stays set (clipboard_manager.go:121).                              *)
Rests ==
    <>[](sends = {} /\ \A h \in Hosts :
            hooks[h] = {} /\ emitted[h].paths = {} /\ ~active[h])
=============================================================================
