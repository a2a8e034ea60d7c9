------------------------- MODULE FileClipboardProofs -------------------------
(* Theorems about FileClipboard for any hosts, files, window and number of *)
(* copies, as long as putting a file on the clipboard takes two polls less *)
(* than the window in which the file is known.                             *)
EXTENDS FileClipboard, FiniteSetTheorems, TLAPS

USE FileClipboardAssumption

HookSet == [name : Names, step : {"mark", "set"}, age : 0 .. Slow, copy : ByHook .. Copies]
SendSet == [from : Hosts, to : Hosts, left : Seq(Names) \ {<<>>}, copy : ByHook .. Copies]

(* What TypeOK says of the state of each host.                             *)
LEMMA Types ==
    ASSUME TypeOK, NEW h \in Hosts
    PROVE  /\ clip[h].paths \in SUBSET (Paths \cup Names) /\ clip[h].copy \in 0 .. Copies
           /\ emitted[h].paths \in SUBSET (Paths \cup Names) /\ emitted[h].copy \in 0 .. Copies
           /\ clip[h] \in Clip /\ emitted[h] \in Clip
           /\ selfSet[h] \in [Names -> 0 .. Window]
           /\ hooks[h] \in SUBSET HookSet
           /\ polled[h] \in BOOLEAN
           /\ timers[h] \in SUBSET (1 .. Window)
  BY DEF TypeOK, Clip, ByHook, HookSet

(* No copy is a copy.                                                      *)
LEMMA EmptyTyped == Empty \in Clip
  BY DEF Empty, Clip, ByHook

(* A host is not its own peer.                                             *)
LEMMA PeersAreOthers ==
    ASSUME TypeOK, NEW h \in Hosts, NEW g \in Peers(h)
    PROVE  g \in Hosts /\ g # h
  <1>1. g \in Hosts /\ {h, g} \in Pairs
    BY DEF Peers, TypeOK
  <1>2. Cardinality({h, g}) = 2
    BY <1>1 DEF Pairs
  <1>3. Cardinality({h}) = 1
    BY FS_Singleton
  <1>4. ASSUME g = h PROVE FALSE
    <2>1. {h, g} = {h}
      BY <1>4
    <2>2. Cardinality({h, g}) = 1
      BY <1>3, <2>1
    <2> QED
      BY <1>2, <2>2
  <1> QED
    BY <1>1, <1>4

(* The files that sending a path sends.                                    *)
LEMMA WalkTyped ==
    ASSUME NEW p \in Paths \cup Names
    PROVE  Walk(p) \in Seq(Names) \ {<<>>}
  BY DEF Walk

(* Every call starts a timer of the whole window.                          *)
LEMMA ActiveTyped ==
    ASSUME TypeOK, NEW h \in Hosts, SetFileClipboardActive(h)
    PROVE  active' \in [Hosts -> BOOLEAN] /\ timers' \in [Hosts -> SUBSET (1 .. Window)]
  <1>1. Window \in 1 .. Window
    OBVIOUS
  <1> QED
    BY <1>1 DEF SetFileClipboardActive, TypeOK

(* The consumer starts goroutines for paths from its host to a connected   *)
(* one.                                                                    *)
LEMMA ConsumeTyped ==
    ASSUME TypeOK, NEW h \in Hosts, Consume(h)
    PROVE  TypeOK'
  <1> DEFINE e == emitted[h]
             new == FilterSelfSet(h, e.paths)
  <1>1. emitted' \in [Hosts -> Clip]
    BY EmptyTyped DEF Consume, TypeOK
  <1>2. active' \in [Hosts -> BOOLEAN] /\ timers' \in [Hosts -> SUBSET (1 .. Window)]
    <2>1. CASE UNCHANGED active /\ UNCHANGED timers
      BY <2>1 DEF TypeOK
    <2>2. CASE SetFileClipboardActive(h)
      BY <2>2, ActiveTyped
    <2>3. CASE UNCHANGED <<active, timers>>
      BY <2>3 DEF TypeOK
    <2> QED
      BY <2>2, <2>3 DEF Consume
  <1>3. e.copy \in 0 .. Copies /\ new \subseteq Paths \cup Names
    BY Types DEF FilterSelfSet
  <1>4. /\ sends' \subseteq SendSet
        /\ \A s \in sends' : s.from # s.to
    <2>1. CASE UNCHANGED sends
      BY <2>1 DEF TypeOK, SendSet
    <2>2. CASE \E g \in Peers(h) : sends' = sends \cup
                    {[from |-> h, to |-> g, left |-> Walk(p), copy |-> e.copy] : p \in new}
      <3>1. PICK g \in Peers(h) : sends' = sends \cup
                    {[from |-> h, to |-> g, left |-> Walk(p), copy |-> e.copy] : p \in new}
        BY <2>2
      <3>2. g \in Hosts /\ g # h
        BY PeersAreOthers
      <3>3. ASSUME NEW p \in new
            PROVE  /\ [from |-> h, to |-> g, left |-> Walk(p), copy |-> e.copy] \in SendSet
                   /\ [from |-> h, to |-> g, left |-> Walk(p), copy |-> e.copy].from = h
                   /\ [from |-> h, to |-> g, left |-> Walk(p), copy |-> e.copy].to = g
        BY <1>3, <3>2, WalkTyped DEF SendSet, ByHook
      <3> HIDE DEF new, e
      <3>4. sends \subseteq SendSet /\ \A s \in sends : s.from # s.to
        BY DEF TypeOK, SendSet
      <3> QED
        BY <3>1, <3>2, <3>3, <3>4
    <2> QED
      BY <2>1, <2>2 DEF Consume
  <1>5. sent' \in [Hosts -> [ByHook .. Copies -> Nat]]
    <2>1. CASE UNCHANGED sent
      BY <2>1 DEF TypeOK
    <2>2. CASE sent' = [sent EXCEPT ![h][e.copy] = @ + 1]
      <3> HIDE DEF e
      <3>1. sent[h] \in [ByHook .. Copies -> Nat] /\ e.copy \in ByHook .. Copies
        BY <1>3 DEF TypeOK, ByHook
      <3>2. sent[h][e.copy] + 1 \in Nat
        BY <3>1 DEF ByHook
      <3> QED
        BY <2>2, <3>1, <3>2 DEF TypeOK
    <2> QED
      BY <2>1, <2>2 DEF Consume
  <1>6. UNCHANGED <<clip, last, polled, selfSet, linked, hooks, made, failed, missed>>
    BY DEF Consume
  <1> QED
    BY <1>1, <1>2, <1>4, <1>5, <1>6 DEF TypeOK, SendSet

(* A transfer of a file and its failure are typed.                         *)
LEMMA SenderTyped ==
    ASSUME TypeOK, NEW s \in sends, Transfer(s) \/ TransferFails(s)
    PROVE  TypeOK'
  <1>1. s \in SendSet /\ s.from # s.to
    BY DEF TypeOK, SendSet
  <1>2. CASE Transfer(s)
    <2>1. s.left \in Seq(Names) /\ s.left # <<>> /\ s.copy \in 0 .. Copies /\ s.to \in Hosts
      BY <1>1 DEF SendSet, ByHook
    <2>2. Head(s.left) \in Names
      BY <2>1
    <2>3. Rest(s) \subseteq SendSet /\ \A t \in Rest(s) : t.from # t.to
      <3>1. CASE Len(s.left) = 1
        BY <3>1 DEF Rest
      <3>2. CASE Len(s.left) # 1
        <4>1. Tail(s.left) \in Seq(Names) \ {<<>>}
          <5>1. Len(s.left) \in Nat /\ Len(s.left) # 0
            BY <2>1
          <5>2. Tail(s.left) \in Seq(Names) /\ Len(Tail(s.left)) = Len(s.left) - 1
            BY <2>1
          <5>3. Len(Tail(s.left)) # 0
            BY <3>2, <5>1, <5>2
          <5>4. Len(<<>>) = 0
            OBVIOUS
          <5> QED
            BY <5>2, <5>3, <5>4
        <4>2. /\ [s EXCEPT !.left = Tail(s.left)] \in SendSet
              /\ [s EXCEPT !.left = Tail(s.left)].from = s.from
              /\ [s EXCEPT !.left = Tail(s.left)].to = s.to
          BY <1>1, <4>1 DEF SendSet
        <4>3. Rest(s) = {[s EXCEPT !.left = Tail(s.left)]}
          BY <3>2 DEF Rest
        <4> QED
          BY <1>1, <4>2, <4>3
      <3> QED
        BY <3>1, <3>2
    <2>4. sends' \subseteq SendSet /\ \A t \in sends' : t.from # t.to
      BY <1>2, <2>3 DEF Transfer, TypeOK, SendSet
    <2>5. [name |-> Head(s.left), step |-> "mark", age |-> 0, copy |-> s.copy] \in HookSet
      BY <2>1, <2>2 DEF HookSet, ByHook
    <2>6. hooks' \in [Hosts -> SUBSET HookSet]
      BY <1>2, <2>1, <2>5 DEF Transfer, TypeOK, HookSet
    <2> QED
      BY <1>2, <2>4, <2>6 DEF Transfer, TypeOK, SendSet, HookSet
  <1>3. CASE TransferFails(s)
    BY <1>3 DEF TransferFails, TypeOK
  <1> QED
    BY <1>2, <1>3

(* The receive hook is typed.                                              *)
LEMMA HookTyped ==
    ASSUME TypeOK, NEW h \in Hosts, NEW k \in hooks[h], HookMarks(h, k) \/ HookSetsFiles(h, k)
    PROVE  TypeOK'
  <1>1. k \in HookSet /\ k.name \in Names
    BY Types DEF HookSet
  <1>2. CASE HookMarks(h, k)
    <2>1. [k EXCEPT !.step = "set"] \in HookSet
      BY <1>1 DEF HookSet
    <2>2. hooks' \in [Hosts -> SUBSET HookSet]
      BY <1>2, <2>1 DEF HookMarks, Marked, TypeOK, HookSet
    <2>3. active' \in [Hosts -> BOOLEAN] /\ timers' \in [Hosts -> SUBSET (1 .. Window)]
      BY <1>2, ActiveTyped DEF HookMarks
    <2>4. [selfSet[h] EXCEPT ![k.name] = Window] \in [Names -> 0 .. Window]
      <3>1. selfSet[h] \in [Names -> 0 .. Window] /\ Window \in 0 .. Window
        BY Types
      <3> QED
        BY <3>1
    <2>5. selfSet' \in [Hosts -> [Names -> 0 .. Window]]
      BY <1>2, <2>4 DEF HookMarks, TypeOK
    <2> QED
      BY <1>2, <2>2, <2>3, <2>5 DEF HookMarks, TypeOK, HookSet
  <1>3. CASE HookSetsFiles(h, k)
    <2>1. hooks' \in [Hosts -> SUBSET HookSet]
      BY <1>3 DEF HookSetsFiles, TypeOK, HookSet
    <2>2. [paths |-> {k.name}, copy |-> ByHook] \in Clip
      BY <1>1 DEF Clip, ByHook
    <2>3. clip' \in [Hosts -> Clip]
      BY <1>3, <2>2 DEF HookSetsFiles, TypeOK
    <2> QED
      BY <1>3, <2>1, <2>3 DEF HookSetsFiles, TypeOK, HookSet
  <1> QED
    BY <1>2, <1>3

(* When time passes, what is left of a time is a time.                     *)
LEMMA TickTyped ==
    ASSUME TypeOK, Tick
    PROVE  TypeOK'
  <1>1. ASSUME NEW n \in 0 .. Window PROVE Less(n) \in 0 .. Window
    BY DEF Less
  <1>2. selfSet' \in [Hosts -> [Names -> 0 .. Window]]
    BY <1>1, Types DEF Tick
  <1>3. timers' \in [Hosts -> SUBSET (1 .. Window)]
    <2>1. ASSUME NEW h \in Hosts
          PROVE  {t - 1 : t \in timers[h] \ {1}} \in SUBSET (1 .. Window)
      <3>1. timers[h] \in SUBSET (1 .. Window)
        BY Types
      <3> QED
        BY <3>1
    <2> QED
      BY <2>1 DEF Tick
  <1>4. active' \in [Hosts -> BOOLEAN]
    <2>1. \A h \in Hosts : (active[h] /\ 1 \notin timers[h]) \in BOOLEAN
      OBVIOUS
    <2> QED
      BY <2>1 DEF Tick
  <1>5. hooks' \in [Hosts -> SUBSET HookSet]
    <2>1. ASSUME NEW h \in Hosts, NEW k \in hooks[h]
          PROVE  (IF k.step = "set" THEN [k EXCEPT !.age = @ + 1] ELSE k) \in HookSet
      <3>1. k \in HookSet
        BY Types
      <3>2. k.step = "set" => k.age + 1 \in 0 .. Slow
        BY <3>1 DEF Tick, HookSet
      <3>3. k.step = "set" => [k EXCEPT !.age = k.age + 1] \in HookSet
        BY <3>1, <3>2 DEF HookSet
      <3> QED
        BY <3>1, <3>3
    <2> QED
      BY <2>1 DEF Tick
  <1>6. polled' \in [Hosts -> BOOLEAN]
    BY DEF Tick
  <1> QED
    BY <1>2, <1>3, <1>4, <1>5, <1>6 DEF Tick, TypeOK, HookSet

(* A failed poll is counted for the copy that it has missed.               *)
LEMMA PollFailsTyped ==
    ASSUME TypeOK, NEW h \in Hosts, PollFails(h)
    PROVE  TypeOK'
  <1> DEFINE c == clip[h].copy
  <1>1. c \in ByHook .. Copies /\ missed[h] \in [ByHook .. Copies -> Nat]
    BY Types DEF TypeOK, ByHook
  <1>2. missed' \in [Hosts -> [ByHook .. Copies -> Nat]]
    <2> HIDE DEF c
    <2>1. missed[h][c] + 1 \in Nat
      BY <1>1 DEF ByHook
    <2>2. missed' = [missed EXCEPT ![h][c] = @ + 1]
      BY DEF PollFails, c
    <2> QED
      BY <1>1, <2>1, <2>2 DEF TypeOK
  <1>3. failed' \in 0 .. Failures
    BY DEF PollFails, TypeOK
  <1>4. last' \in [Hosts -> SUBSET (Paths \cup Names)] /\ polled' \in [Hosts -> BOOLEAN]
    BY DEF PollFails, TypeOK
  <1>5. UNCHANGED <<clip, emitted, selfSet, active, timers, linked, sends, hooks, made, sent>>
    BY DEF PollFails
  <1> QED
    BY <1>2, <1>3, <1>4, <1>5 DEF TypeOK

(* Every step keeps the types.                                             *)
LEMMA TypeStep == TypeOK /\ [Next]_vars => TypeOK'
  <1> SUFFICES ASSUME TypeOK, [Next]_vars PROVE TypeOK'
    OBVIOUS
  <1>1. ASSUME NEW h \in Hosts, NEW S \in SUBSET Homes[h], Copy(h, S)
        PROVE  TypeOK'
    <2>1. S \in SUBSET (Paths \cup Names)
      BY DEF Paths
    <2>2. made + 1 \in 0 .. Copies
      BY <1>1 DEF Copy, TypeOK
    <2>3. [paths |-> S, copy |-> made + 1] \in Clip
      BY <2>1, <2>2 DEF Clip, ByHook
    <2>4. clip' \in [Hosts -> Clip]
      BY <1>1, <2>3 DEF Copy, TypeOK
    <2> QED
      BY <1>1, <2>2, <2>4 DEF Copy, TypeOK
  <1>2. ASSUME NEW h \in Hosts, Poll(h)
        PROVE  TypeOK'
    <2>1. last' \in [Hosts -> SUBSET (Paths \cup Names)]
      BY <1>2, Types DEF Poll, TypeOK
    <2>2. emitted' \in [Hosts -> Clip]
      BY <1>2, Types DEF Poll, TypeOK
    <2> QED
      BY <1>2, <2>1, <2>2 DEF Poll, TypeOK
  <1>3. ASSUME NEW h \in Hosts, Consume(h) \/ Hook(h)
        PROVE  TypeOK'
    BY <1>3, ConsumeTyped, HookTyped DEF Hook
  <1>8. ASSUME NEW h \in Hosts, PollFails(h)
        PROVE  TypeOK'
    BY <1>8, PollFailsTyped
  <1>4. ASSUME NEW pair \in Pairs, Relink(pair)
        PROVE  TypeOK'
    BY <1>4 DEF Relink, TypeOK
  <1>5. CASE Sender
    BY <1>5, SenderTyped DEF Sender
  <1>6. CASE Tick
    BY <1>6, TickTyped
  <1>7. CASE UNCHANGED vars
    BY <1>7 DEF vars, TypeOK
  <1> QED
    BY <1>1, <1>2, <1>3, <1>4, <1>5, <1>6, <1>7, <1>8 DEF Next

(* The first state is typed.                                               *)
LEMMA TypeInit == Init => TypeOK
  <1> SUFFICES ASSUME Init PROVE TypeOK
    OBVIOUS
  <1>1. clip \in [Hosts -> Clip] /\ emitted \in [Hosts -> Clip]
    BY EmptyTyped DEF Init
  <1>2. selfSet \in [Hosts -> [Names -> 0 .. Window]]
    BY DEF Init
  <1> QED
    BY <1>1, <1>2 DEF Init, TypeOK

(* Every state is typed.                                                   *)
THEOREM TypeCorrect == Spec => []TypeOK
  BY TypeInit, TypeStep, PTL DEF Spec

(* A step that leaves the hooks and what is known leaves Known.            *)
LEMMA KnownSame == Known /\ UNCHANGED <<hooks, selfSet>> => Known'
  BY DEF Known

(* The hook marks the path for the whole window.                           *)
LEMMA KnownMarks ==
    ASSUME TypeOK, Known, NEW f \in Hosts, NEW k \in hooks[f], HookMarks(f, k)
    PROVE  Known'
  <1> SUFFICES ASSUME NEW h \in Hosts, NEW j \in hooks'[h], j.step = "set"
               PROVE  selfSet'[h][j.name] + j.age >= Window
    BY DEF Known
  <1>1. k \in HookSet /\ k.name \in Names /\ k.age \in Nat
    BY Types DEF HookSet
  <1>2. /\ selfSet'[f] = [selfSet[f] EXCEPT ![k.name] = Window]
        /\ \A g \in Hosts \ {f} : selfSet'[g] = selfSet[g] /\ hooks'[g] = hooks[g]
        /\ hooks'[f] = (hooks[f] \ {k}) \cup {[k EXCEPT !.step = "set"]}
    BY DEF HookMarks, Marked, TypeOK
  <1>3. CASE j \in hooks[h]
    <2>1. j.name \in Names /\ j.age \in Nat
      BY <1>3, Types DEF HookSet
    <2>2. selfSet[h][j.name] + j.age >= Window
      BY <1>3 DEF Known
    <2>3. selfSet'[h][j.name] = Window \/ selfSet'[h][j.name] = selfSet[h][j.name]
      BY <1>2, <2>1, Types
    <2> QED
      BY <2>1, <2>2, <2>3
  <1>4. CASE h = f /\ j = [k EXCEPT !.step = "set"]
    <2>1. j.name = k.name /\ j.age \in Nat
      BY <1>1, <1>4 DEF HookSet
    <2>2. selfSet'[h][j.name] = Window
      BY <1>1, <1>2, <1>4, <2>1, Types
    <2> QED
      BY <2>1, <2>2
  <1> QED
    BY <1>2, <1>3, <1>4

(* As a unit of time passes, what is set gets older by one.                *)
LEMMA KnownTick ==
    ASSUME TypeOK, Known, Tick
    PROVE  Known'
  <1> SUFFICES ASSUME NEW h \in Hosts, NEW j \in hooks'[h], j.step = "set"
               PROVE  selfSet'[h][j.name] + j.age >= Window
    BY DEF Known
  <1>1. PICK k \in hooks[h] : j = IF k.step = "set" THEN [k EXCEPT !.age = @ + 1] ELSE k
    BY DEF Tick
  <1>2. k \in HookSet /\ k.step = "set"
    BY <1>1, Types
  <1>3. j.name = k.name /\ j.age = k.age + 1 /\ k.name \in Names /\ k.age \in Nat
    BY <1>1, <1>2 DEF HookSet
  <1>4. selfSet[h][k.name] + k.age >= Window /\ selfSet[h][k.name] \in Nat
    BY <1>2, <1>3, Types DEF Known
  <1>5. selfSet'[h][k.name] = Less(selfSet[h][k.name])
    BY <1>3 DEF Tick
  <1>6. selfSet'[h][k.name] >= selfSet[h][k.name] - 1 /\ selfSet'[h][k.name] \in Nat
    BY <1>4, <1>5 DEF Less
  <1> QED
    BY <1>3, <1>4, <1>6

(* A received file stays known until it is on the clipboard.               *)
LEMMA KnownStep == TypeOK /\ Known /\ [Next]_vars => Known'
  <1> SUFFICES ASSUME TypeOK, Known, [Next]_vars PROVE Known'
    OBVIOUS
  <1>1. CASE \E h \in Hosts : Hook(h)
    <2>0. PICK h \in Hosts : Hook(h)
      BY <1>1
    <2>1. PICK k \in hooks[h] : HookMarks(h, k) \/ HookSetsFiles(h, k)
      BY <2>0 DEF Hook
    <2>2. CASE HookSetsFiles(h, k)
      <3>1. selfSet' = selfSet /\ \A g \in Hosts : hooks'[g] \subseteq hooks[g]
        BY <2>2 DEF HookSetsFiles, TypeOK
      <3> QED
        BY <3>1 DEF Known
    <2> QED
      BY <2>1, <2>2, KnownMarks
  <1>2. CASE Sender
    <2>1. PICK s \in sends : Transfer(s) \/ TransferFails(s)
      BY <1>2 DEF Sender
    <2>2. CASE Transfer(s)
      <3>1. selfSet' = selfSet
        BY <2>2 DEF Transfer
      <3>2. \A h \in Hosts : \A k \in hooks'[h] : k \in hooks[h] \/ k.step = "mark"
        BY <2>2 DEF Transfer, TypeOK
      <3> QED
        BY <3>1, <3>2 DEF Known
    <2>3. CASE TransferFails(s)
      BY <2>3, KnownSame DEF TransferFails
    <2> QED
      BY <2>1, <2>2, <2>3
  <1>3. CASE Tick
    BY <1>3, KnownTick
  <1>4. CASE \/ \E h \in Hosts : \/ \E S \in SUBSET Homes[h] : Copy(h, S)
                                 \/ Poll(h) \/ PollFails(h) \/ Consume(h)
             \/ \E pair \in Pairs : Relink(pair)
             \/ UNCHANGED vars
    <2>1. UNCHANGED <<hooks, selfSet>>
      BY <1>4 DEF Copy, Poll, PollFails, Consume, Relink, vars
    <2> QED
      BY <2>1, KnownSame
  <1> QED
    BY <1>1, <1>2, <1>3, <1>4 DEF Next

(* What Paid says of one host and copy.                                    *)
PaidAt(h, c) ==
    sent[h][c] + One(InHand(h, c)) + One(Unseen(h, c)) <= missed[h][c] + One(c # ByHook)

(* Paid says it of all of them.                                            *)
LEMMA PaidAtAll ==
    /\ Paid <=> \A h \in Hosts, c \in ByHook .. Copies : PaidAt(h, c)
    /\ Paid' <=> \A h \in Hosts, c \in ByHook .. Copies : PaidAt(h, c)'
  BY DEF Paid, PaidAt

(* The counters of one host and copy.                                      *)
LEMMA Counters ==
    ASSUME TypeOK, NEW h \in Hosts, NEW c \in ByHook .. Copies
    PROVE  sent[h][c] \in Nat /\ missed[h][c] \in Nat
  BY DEF TypeOK, ByHook

(* Where nothing is sent and nothing more than before waits to be sent,    *)
(* what was paid for stays so.                                             *)
LEMMA PaidLess ==
    ASSUME TypeOK, NEW h \in Hosts, NEW c \in ByHook .. Copies, PaidAt(h, c),
           sent'[h][c] = sent[h][c], missed'[h][c] = missed[h][c],
           InHand(h, c)' => InHand(h, c), Unseen(h, c)' => Unseen(h, c)
    PROVE  PaidAt(h, c)'
  <1>1. sent[h][c] \in Nat /\ missed[h][c] \in Nat
    BY Counters
  <1>2. One(InHand(h, c)') <= One(InHand(h, c)) /\ One(Unseen(h, c)') <= One(Unseen(h, c))
    BY DEF One
  <1>3. /\ One(InHand(h, c)) \in {0, 1} /\ One(InHand(h, c)') \in {0, 1}
        /\ One(Unseen(h, c)) \in {0, 1} /\ One(Unseen(h, c)') \in {0, 1}
        /\ One(c # ByHook) \in {0, 1}
    BY DEF One
  <1>4. PaidAt(h, c)' <=> sent'[h][c] + One(InHand(h, c)') + One(Unseen(h, c)')
                             <= missed'[h][c] + One(c # ByHook)
    BY DEF PaidAt, One
  <1>5. sent[h][c] + One(InHand(h, c)) + One(Unseen(h, c)) <= missed[h][c] + One(c # ByHook)
    BY DEF PaidAt
  <1> QED
    BY <1>1, <1>2, <1>3, <1>4, <1>5

(* A host on which nothing changes has paid for what it had paid for.      *)
LEMMA PaidSame ==
    ASSUME TypeOK, NEW h \in Hosts, NEW c \in ByHook .. Copies, PaidAt(h, c),
           sent'[h] = sent[h], missed'[h] = missed[h], clip'[h] = clip[h],
           last'[h] = last[h], emitted'[h] = emitted[h], polled'[h] = polled[h],
           selfSet'[h] = selfSet[h]
    PROVE  PaidAt(h, c)'
  BY DEF PaidAt, InHand, Unseen, FilterSelfSet

(* A user copies: the copy is a new one, and may wait to be sent once.     *)
LEMMA PaidCopy ==
    ASSUME TypeOK, Paid, Owned, NEW f \in Hosts, NEW S, Copy(f, S),
           NEW h \in Hosts, NEW c \in ByHook .. Copies
    PROVE  PaidAt(h, c)'
  <1>1. /\ clip' = [clip EXCEPT ![f] = [paths |-> S, copy |-> made + 1]]
        /\ made \in Nat /\ made + 1 \in 1 .. Copies
        /\ UNCHANGED <<last, polled, emitted, selfSet, missed, sent>>
    BY DEF Copy, TypeOK
  <1>2. PaidAt(h, c)
    BY PaidAtAll
  <1>3. CASE h # f
    BY <1>1, <1>2, <1>3, PaidSame DEF TypeOK
  <1>4. CASE h = f
    <2>1. clip'[h].copy = made + 1
      BY <1>1, <1>4 DEF TypeOK
    <2>2. InHand(h, c)' => InHand(h, c)
      BY <1>1 DEF InHand, FilterSelfSet
    <2>3. CASE c # made + 1
      <3>1. ~Unseen(h, c)'
        BY <2>1, <2>3 DEF Unseen
      <3> QED
        BY <1>1, <1>2, <2>2, <3>1, PaidLess
    <2>4. CASE c = made + 1
      <3>1. c \in 1 .. Copies /\ c # ByHook /\ ~(c <= made)
        BY <1>1, <2>4 DEF ByHook
      <3>2. ~Has(h, c)
        BY <3>1 DEF Owned
      <3>3. emitted[h].copy # c /\ ~(sent[h][c] > 0)
        BY <3>2 DEF Has
      <3>4. sent[h][c] = 0 /\ missed[h][c] \in Nat
        BY <3>3, Counters
      <3>5. ~InHand(h, c)'
        BY <1>1, <3>3 DEF InHand
      <3>6. One(InHand(h, c)') = 0 /\ One(Unseen(h, c)') \in {0, 1} /\ One(c # ByHook) = 1
        BY <3>1, <3>5 DEF One
      <3>7. PaidAt(h, c)' <=> sent'[h][c] + One(InHand(h, c)') + One(Unseen(h, c)')
                                 <= missed'[h][c] + One(c # ByHook)
        BY DEF PaidAt, One
      <3> QED
        BY <1>1, <3>4, <3>6, <3>7
    <2> QED
      BY <2>3, <2>4
  <1> QED
    BY <1>3, <1>4

(* A poll takes what it finds new in hand; then it has been seen.          *)
LEMMA PaidPoll ==
    ASSUME TypeOK, Paid, NEW f \in Hosts, Poll(f),
           NEW h \in Hosts, NEW c \in ByHook .. Copies
    PROVE  PaidAt(h, c)'
  <1>1. /\ UNCHANGED <<clip, selfSet, missed, sent>>
        /\ last' = [last EXCEPT ![f] = clip[f].paths]
        /\ polled' = [polled EXCEPT ![f] = TRUE]
        /\ ~polled[f] /\ emitted[f].paths = {}
        /\ emitted' = IF clip[f].paths = last[f] THEN emitted ELSE [emitted EXCEPT ![f] = clip[f]]
    BY DEF Poll
  <1>2. PaidAt(h, c)
    BY PaidAtAll
  <1>3. CASE h # f
    BY <1>1, <1>2, <1>3, PaidSame DEF TypeOK
  <1>4. CASE h = f
    <2>1. last'[h] = clip[h].paths
      BY <1>1, <1>4 DEF TypeOK
    <2>2. ~Unseen(h, c)' /\ ~InHand(h, c)
      BY <1>1, <1>4, <2>1 DEF Unseen, InHand, FilterSelfSet
    <2>3. InHand(h, c)' => Unseen(h, c)
      <3>1. CASE clip[f].paths = last[f]
        BY <1>1, <2>2, <3>1 DEF InHand, FilterSelfSet
      <3>2. CASE clip[f].paths # last[f]
        <4>1. emitted'[h] = clip[h]
          BY <1>1, <1>4, <3>2 DEF TypeOK
        <4>2. SUFFICES ASSUME InHand(h, c)' PROVE Unseen(h, c)
          OBVIOUS
        <4>3. clip[h].copy = c
          BY <4>1, <4>2 DEF InHand
        <4>4. PICK p \in clip[h].paths : p \in Names => selfSet[h][p] = 0
          BY <1>1, <4>1, <4>2 DEF InHand, FilterSelfSet
        <4> QED
          BY <1>1, <1>4, <3>2, <4>3, <4>4 DEF Unseen
      <3> QED
        BY <3>1, <3>2
    <2>4. /\ One(InHand(h, c)') <= One(Unseen(h, c)) /\ One(InHand(h, c)') \in {0, 1}
          /\ One(Unseen(h, c)) \in {0, 1} /\ One(c # ByHook) \in {0, 1}
      BY <2>3 DEF One
    <2>5. One(Unseen(h, c)') = 0 /\ One(InHand(h, c)) = 0
      BY <2>2 DEF One
    <2>6. PaidAt(h, c)' <=> sent'[h][c] + One(InHand(h, c)') + One(Unseen(h, c)')
                               <= missed'[h][c] + One(c # ByHook)
      BY DEF PaidAt, One
    <2>7. sent[h][c] + One(InHand(h, c)) + One(Unseen(h, c)) <= missed[h][c] + One(c # ByHook)
      BY <1>2 DEF PaidAt
    <2>8. sent[h][c] \in Nat /\ missed[h][c] \in Nat /\ sent'[h][c] = sent[h][c]
          /\ missed'[h][c] = missed[h][c]
      BY <1>1, Counters
    <2> QED
      BY <2>4, <2>5, <2>6, <2>7, <2>8
  <1> QED
    BY <1>3, <1>4

(* What is unseen after a failed poll is paid for by it.                   *)
LEMMA PaidPollFails ==
    ASSUME TypeOK, Paid, NEW f \in Hosts, PollFails(f),
           NEW h \in Hosts, NEW c \in ByHook .. Copies
    PROVE  PaidAt(h, c)'
  <1> DEFINE d == clip[f].copy
  <1>1. /\ UNCHANGED <<clip, emitted, selfSet, sent>>
        /\ last' = [last EXCEPT ![f] = {}]
        /\ polled' = [polled EXCEPT ![f] = TRUE]
        /\ missed' = [missed EXCEPT ![f][d] = @ + 1]
        /\ emitted[f].paths = {}
    BY DEF PollFails
  <1>2. PaidAt(h, c)
    BY PaidAtAll
  <1>3. d \in ByHook .. Copies /\ missed[f] \in [ByHook .. Copies -> Nat]
    BY Types DEF TypeOK, ByHook
  <1> HIDE DEF d
  <1>4. /\ missed'[f] = [missed[f] EXCEPT ![d] = @ + 1]
        /\ \A g \in Hosts \ {f} : missed'[g] = missed[g]
    BY <1>1 DEF TypeOK
  <1>5. CASE h # f
    BY <1>1, <1>2, <1>4, <1>5, PaidSame DEF TypeOK
  <1>6. CASE h = f
    <2>1. ~InHand(h, c) /\ ~InHand(h, c)'
      BY <1>1, <1>6 DEF InHand, FilterSelfSet
    <2>2. CASE c # d
      <3>1. missed'[h][c] = missed[h][c]
        BY <1>3, <1>4, <1>6, <2>2
      <3>2. ~Unseen(h, c)'
        BY <1>1, <1>6, <2>2 DEF Unseen, d
      <3> QED
        BY <1>1, <1>2, <2>1, <3>1, <3>2, PaidLess
    <2>3. CASE c = d
      <3>1. missed'[h][c] = missed[h][c] + 1
        BY <1>3, <1>4, <1>6, <2>3
      <3>2. /\ One(InHand(h, c)') = 0 /\ One(InHand(h, c)) = 0 /\ One(Unseen(h, c)') \in {0, 1}
            /\ One(Unseen(h, c)) \in {0, 1} /\ One(c # ByHook) \in {0, 1}
        BY <2>1 DEF One
      <3>3. PaidAt(h, c)' <=> sent'[h][c] + One(InHand(h, c)') + One(Unseen(h, c)')
                                 <= missed'[h][c] + One(c # ByHook)
        BY DEF PaidAt, One
      <3>4. sent[h][c] + One(InHand(h, c)) + One(Unseen(h, c)) <= missed[h][c] + One(c # ByHook)
        BY <1>2 DEF PaidAt
      <3>5. sent[h][c] \in Nat /\ missed[h][c] \in Nat /\ sent'[h][c] = sent[h][c]
        BY <1>1, Counters
      <3> QED
        BY <3>1, <3>2, <3>3, <3>4, <3>5
    <2> QED
      BY <2>2, <2>3
  <1> QED
    BY <1>5, <1>6

(* What is in hand is sent, and is in hand no more.                        *)
LEMMA PaidConsume ==
    ASSUME TypeOK, Paid, NEW f \in Hosts, Consume(f),
           NEW h \in Hosts, NEW c \in ByHook .. Copies
    PROVE  PaidAt(h, c)'
  <1> DEFINE d == emitted[f].copy
  <1>1. /\ UNCHANGED <<clip, last, polled, selfSet, missed>>
        /\ emitted' = [emitted EXCEPT ![f] = Empty]
    BY DEF Consume
  <1>2. \/ UNCHANGED sent
        \/ FilterSelfSet(f, emitted[f].paths) # {} /\ sent' = [sent EXCEPT ![f][d] = @ + 1]
    BY DEF Consume
  <1>3. d \in ByHook .. Copies /\ sent[f] \in [ByHook .. Copies -> Nat]
    BY Types DEF TypeOK, ByHook
  <1>4. PaidAt(h, c)
    BY PaidAtAll
  <1> HIDE DEF d
  <1>5. /\ \A g \in Hosts \ {f} : sent'[g] = sent[g]
        /\ sent'[f] = sent[f] \/ sent'[f] = [sent[f] EXCEPT ![d] = @ + 1]
    BY <1>2 DEF TypeOK
  <1>6. CASE h # f
    BY <1>1, <1>4, <1>5, <1>6, PaidSame DEF TypeOK
  <1>7. CASE h = f
    <2>1. emitted'[h].paths = {}
      BY <1>1, <1>7 DEF TypeOK, Empty
    <2>2. ~InHand(h, c)' /\ (Unseen(h, c)' => Unseen(h, c))
      BY <1>1, <2>1 DEF InHand, FilterSelfSet, Unseen
    <2>3. CASE sent'[h][c] = sent[h][c]
      BY <1>1, <1>4, <2>2, <2>3, PaidLess
    <2>4. CASE sent'[h][c] # sent[h][c]
      <3>1. c = d /\ sent'[h][c] = sent[h][c] + 1
        BY <1>3, <1>5, <1>7, <2>4
      <3>2. FilterSelfSet(f, emitted[f].paths) # {}
        BY <1>2, <2>4
      <3>3. InHand(h, c)
        BY <1>7, <3>1, <3>2 DEF InHand, d
      <3>4. /\ One(InHand(h, c)') = 0 /\ One(InHand(h, c)) = 1
            /\ One(Unseen(h, c)') <= One(Unseen(h, c)) /\ One(Unseen(h, c)') \in {0, 1}
            /\ One(Unseen(h, c)) \in {0, 1} /\ One(c # ByHook) \in {0, 1}
        BY <2>2, <3>3 DEF One
      <3>5. PaidAt(h, c)' <=> sent'[h][c] + One(InHand(h, c)') + One(Unseen(h, c)')
                                 <= missed'[h][c] + One(c # ByHook)
        BY DEF PaidAt, One
      <3>6. sent[h][c] + One(InHand(h, c)) + One(Unseen(h, c)) <= missed[h][c] + One(c # ByHook)
        BY <1>4 DEF PaidAt
      <3>7. sent[h][c] \in Nat /\ missed[h][c] \in Nat /\ missed'[h][c] = missed[h][c]
        BY <1>1, Counters
      <3> QED
        BY <3>1, <3>4, <3>5, <3>6, <3>7
    <2> QED
      BY <2>3, <2>4
  <1> QED
    BY <1>6, <1>7

(* A hook makes a path known, and puts it on the clipboard while it is     *)
(* known for two polls at least.                                           *)
LEMMA PaidHook ==
    ASSUME TypeOK, Known, Paid, NEW f \in Hosts, NEW k \in hooks[f],
           HookMarks(f, k) \/ HookSetsFiles(f, k),
           NEW h \in Hosts, NEW c \in ByHook .. Copies
    PROVE  PaidAt(h, c)'
  <1>1. PaidAt(h, c)
    BY PaidAtAll
  <1>2. k \in HookSet /\ k.name \in Names /\ k.age \in 0 .. Slow
    BY Types DEF HookSet
  <1>3. UNCHANGED <<last, polled, emitted, missed, sent>>
    BY DEF HookMarks, HookSetsFiles
  <1>4. CASE HookMarks(f, k)
    <2>1. clip' = clip /\ selfSet' = [selfSet EXCEPT ![f][k.name] = Window]
      BY <1>4 DEF HookMarks
    <2>2. \A p \in Names : selfSet'[h][p] = selfSet[h][p] \/ selfSet'[h][p] = Window
      BY <1>2, <2>1, Types DEF TypeOK
    <2>3. Window \in Nat /\ Window >= 2
      OBVIOUS
    <2>4. InHand(h, c)' => InHand(h, c)
      BY <1>3, <2>2, <2>3 DEF InHand, FilterSelfSet
    <2>5. Unseen(h, c)' => Unseen(h, c)
      <3>1. SUFFICES ASSUME Unseen(h, c)' PROVE Unseen(h, c)
        OBVIOUS
      <3>2. PICK p \in clip[h].paths :
               p \in Names => selfSet'[h][p] < IF polled[h] THEN 2 ELSE 1
        BY <1>3, <2>1, <3>1 DEF Unseen
      <3>3. p \in Names => selfSet[h][p] < IF polled[h] THEN 2 ELSE 1
        BY <2>2, <2>3, <3>2
      <3> QED
        BY <1>3, <2>1, <3>1, <3>3 DEF Unseen
    <2> QED
      BY <1>1, <1>3, <2>4, <2>5, PaidLess
  <1>5. CASE HookSetsFiles(f, k)
    <2>1. /\ selfSet' = selfSet /\ k.step = "set"
          /\ clip' = clip \/ clip' = [clip EXCEPT ![f] = [paths |-> {k.name}, copy |-> ByHook]]
      BY <1>5 DEF HookSetsFiles
    <2>2. CASE clip'[h] = clip[h]
      BY <1>1, <1>3, <2>1, <2>2, PaidSame
    <2>3. CASE h = f /\ clip'[h] = [paths |-> {k.name}, copy |-> ByHook]
      <3>1. selfSet[h][k.name] + k.age >= Window /\ selfSet[h][k.name] \in Nat
        BY <1>2, <2>1, <2>3, Types DEF Known
      <3>2. selfSet[h][k.name] >= 2
        BY <1>2, <3>1
      <3>3. ~Unseen(h, c)'
        BY <1>2, <2>1, <2>3, <3>1, <3>2 DEF Unseen
      <3>4. InHand(h, c)' => InHand(h, c)
        BY <1>3, <2>1 DEF InHand, FilterSelfSet
      <3> QED
        BY <1>1, <1>3, <3>3, <3>4, PaidLess
    <2> QED
      BY <2>1, <2>2, <2>3 DEF TypeOK
  <1> QED
    BY <1>4, <1>5

(* When time passes all have polled, and what is unseen then was so.       *)
LEMMA PaidTick ==
    ASSUME TypeOK, Paid, Tick, NEW h \in Hosts, NEW c \in ByHook .. Copies
    PROVE  PaidAt(h, c)'
  <1>1. /\ UNCHANGED <<clip, last, emitted, missed, sent>>
        /\ polled[h] /\ ~polled'[h] /\ emitted[h].paths = {}
        /\ \A n \in Names : selfSet'[h][n] = Less(selfSet[h][n]) /\ selfSet[h][n] \in Nat
    BY Types DEF Tick
  <1>2. ~InHand(h, c)'
    BY <1>1 DEF InHand, FilterSelfSet
  <1>3. Unseen(h, c)' => Unseen(h, c)
    <2>1. SUFFICES ASSUME Unseen(h, c)' PROVE Unseen(h, c)
      OBVIOUS
    <2>2. PICK p \in clip[h].paths : p \in Names => selfSet'[h][p] < 1
      BY <1>1, <2>1 DEF Unseen
    <2>3. p \in Names => selfSet[h][p] < 2
      BY <1>1, <2>2 DEF Less
    <2> QED
      BY <1>1, <2>1, <2>3 DEF Unseen
  <1> QED
    BY <1>1, <1>2, <1>3, PaidAtAll, PaidLess

(* Every send stays paid for.                                              *)
LEMMA PaidStep == TypeOK /\ Known /\ Paid /\ Owned /\ [Next]_vars => Paid'
  <1> SUFFICES ASSUME TypeOK, Known, Paid, Owned, [Next]_vars,
                      NEW h \in Hosts, NEW c \in ByHook .. Copies
               PROVE  PaidAt(h, c)'
    BY PaidAtAll
  <1>1. CASE \E f \in Hosts : \/ \E S \in SUBSET Homes[f] : Copy(f, S)
                              \/ Poll(f) \/ PollFails(f) \/ Consume(f)
    BY <1>1, PaidCopy, PaidPoll, PaidPollFails, PaidConsume
  <1>2. CASE \E f \in Hosts : Hook(f)
    BY <1>2, PaidHook DEF Hook
  <1>3. CASE Tick
    BY <1>3, PaidTick
  <1>4. CASE (\E pair \in Pairs : Relink(pair)) \/ Sender \/ UNCHANGED vars
    <2>1. UNCHANGED <<clip, last, emitted, polled, selfSet, missed, sent>>
      BY <1>4 DEF Relink, Sender, Transfer, TransferFails, vars
    <2> QED
      BY <2>1, PaidAtAll, PaidSame
  <1> QED
    BY <1>1, <1>2, <1>3, <1>4 DEF Next

(* Where no copy gets to a host other than a new one of its user, every    *)
(* copy has been on one host.                                              *)
LEMMA OwnedSame ==
    ASSUME Owned, made' = made,
           \A h \in Hosts, c \in 1 .. Copies : Has(h, c)' => Has(h, c)
    PROVE  Owned'
  BY DEF Owned

(* Every copy stays on the host that it was made on.                       *)
LEMMA OwnedStep == TypeOK /\ Owned /\ [Next]_vars => Owned'
  <1> SUFFICES ASSUME TypeOK, Owned, [Next]_vars PROVE Owned'
    OBVIOUS
  <1>1. ASSUME NEW f \in Hosts, NEW S, Copy(f, S)
        PROVE  Owned'
    <2>1. /\ clip' = [clip EXCEPT ![f] = [paths |-> S, copy |-> made + 1]]
          /\ made' = made + 1 /\ made \in Nat /\ UNCHANGED <<emitted, sent>>
      BY <1>1 DEF Copy, TypeOK
    <2>2. \A h \in Hosts, c \in 1 .. Copies : Has(h, c) => c # made + 1
      BY <2>1 DEF Owned
    <2>3. \A h \in Hosts, c \in 1 .. Copies :
             Has(h, c)' => Has(h, c) \/ (h = f /\ c = made + 1)
      <3>1. clip'[f].copy = made + 1 /\ \A h \in Hosts \ {f} : clip'[h] = clip[h]
        BY <2>1 DEF TypeOK
      <3> QED
        BY <2>1, <3>1 DEF Has
    <2> QED
      BY <2>1, <2>2, <2>3 DEF Owned
  <1>2. ASSUME NEW f \in Hosts, Poll(f)
        PROVE  Owned'
    <2>1. /\ UNCHANGED <<clip, made, sent>>
          /\ \A h \in Hosts : emitted'[h] = emitted[h] \/ emitted'[h] = clip[h]
      BY <1>2 DEF Poll, TypeOK
    <2> QED
      BY <2>1, OwnedSame DEF Has
  <1>3. ASSUME NEW f \in Hosts, Consume(f)
        PROVE  Owned'
    <2> DEFINE d == emitted[f].copy
    <2>1. /\ UNCHANGED <<clip, made>>
          /\ \A h \in Hosts : emitted'[h] = emitted[h] \/ emitted'[h].copy = ByHook
      BY <1>3 DEF Consume, TypeOK, Empty
    <2>2. UNCHANGED sent \/ sent' = [sent EXCEPT ![f][d] = @ + 1]
      BY <1>3 DEF Consume
    <2>3. ASSUME NEW h \in Hosts, NEW c \in 1 .. Copies, sent'[h][c] > 0
          PROVE  Has(h, c)
      <3>1. CASE sent'[h][c] = sent[h][c]
        BY <2>3, <3>1 DEF Has
      <3>2. CASE sent'[h][c] # sent[h][c]
        <4> HIDE DEF d
        <4>0. /\ sent' = [sent EXCEPT ![f][d] = @ + 1]
              /\ sent \in [Hosts -> [ByHook .. Copies -> Nat]]
          BY <2>2, <3>2 DEF TypeOK
        <4>2. /\ \A g \in Hosts \ {f} : sent'[g] = sent[g]
              /\ sent'[f] = [sent[f] EXCEPT ![d] = @ + 1]
              /\ sent[f] \in [ByHook .. Copies -> Nat] /\ c \in ByHook .. Copies
          BY <4>0 DEF ByHook
        <4>1. h = f /\ c = d
          BY <3>2, <4>2
        <4> QED
          BY <4>1 DEF Has, d
      <3> QED
        BY <3>1, <3>2
    <2>4. \A h \in Hosts, c \in 1 .. Copies : Has(h, c)' => Has(h, c)
      <3> HIDE DEF d
      <3> QED
        BY <2>1, <2>3 DEF Has, ByHook
    <2> QED
      BY <2>1, <2>4, OwnedSame
  <1>4. ASSUME NEW f \in Hosts, NEW k \in hooks[f], HookMarks(f, k) \/ HookSetsFiles(f, k)
        PROVE  Owned'
    <2>1. /\ UNCHANGED <<made, emitted, sent>>
          /\ \A h \in Hosts : clip'[h] = clip[h] \/ clip'[h].copy = ByHook
      BY <1>4 DEF HookMarks, HookSetsFiles, TypeOK
    <2> QED
      BY <2>1, OwnedSame DEF Has, ByHook
  <1>5. CASE \/ \E f \in Hosts : PollFails(f)
             \/ \E pair \in Pairs : Relink(pair)
             \/ Sender \/ Tick \/ UNCHANGED vars
    <2>1. UNCHANGED <<clip, emitted, made, sent>>
      BY <1>5 DEF PollFails, Relink, Sender, Transfer, TransferFails, Tick, vars
    <2> QED
      BY <2>1 DEF Owned, Has
  <1> QED
    BY <1>1, <1>2, <1>3, <1>4, <1>5 DEF Next, Hook

(* Nothing is sent in the first state.                                     *)
LEMMA PaidInit == Init => Known /\ Paid /\ Owned
  <1> SUFFICES ASSUME Init PROVE Known /\ Paid /\ Owned
    OBVIOUS
  <1>1. /\ \A h \in Hosts : clip[h] = Empty /\ last[h] = {} /\ emitted[h] = Empty
        /\ \A h \in Hosts, c \in ByHook .. Copies : sent[h][c] = 0 /\ missed[h][c] = 0
    BY DEF Init
  <1>2. Known
    BY DEF Init, Known
  <1>3. ASSUME NEW h \in Hosts, NEW c \in ByHook .. Copies
        PROVE  PaidAt(h, c)
    <2>1. ~InHand(h, c) /\ ~Unseen(h, c)
      BY <1>1 DEF InHand, Unseen, FilterSelfSet, Empty
    <2> QED
      BY <1>1, <2>1 DEF PaidAt, One
  <1>4. ASSUME NEW h \in Hosts, NEW c \in 1 .. Copies
        PROVE  ~Has(h, c)
    BY <1>1 DEF Has, Empty, ByHook
  <1> QED
    BY <1>2, <1>3, <1>4, PaidAtAll DEF Owned

(* What the theorems below rest on holds in every state.                   *)
LEMMA AllPaid == Spec => [](TypeOK /\ Paid /\ Owned)
  BY PaidInit, TypeInit, TypeStep, KnownStep, PaidStep, OwnedStep, PTL DEF Spec

(* No host sends on by itself what it has received more often than its     *)
(* tool has failed to read the clipboard, whatever the polls, hooks and    *)
(* copies of the users interleave with (fileclipboard.go:12-13,29-31).     *)
THEOREM NothingGoesBack == Spec => []EchoNeedsFailure
  <1>1. TypeOK /\ Paid => EchoNeedsFailure
    <2> SUFFICES ASSUME TypeOK, Paid, NEW h \in Hosts
                 PROVE  sent[h][ByHook] <= missed[h][ByHook]
      BY DEF EchoNeedsFailure
    <2>1. ByHook \in ByHook .. Copies
      BY DEF ByHook
    <2>2. sent[h][ByHook] \in Nat /\ missed[h][ByHook] \in Nat
      BY <2>1, Counters
    <2>3. sent[h][ByHook] + One(InHand(h, ByHook)) + One(Unseen(h, ByHook))
             <= missed[h][ByHook] + One(ByHook # ByHook)
      BY <2>1 DEF Paid
    <2> QED
      BY <2>2, <2>3 DEF One
  <1> QED
    BY <1>1, AllPaid, PTL

(* A user's copy is sent by one host, and by that one once and once more   *)
(* for every poll that fails, although the watcher finds it on the         *)
(* clipboard in every poll until something else is copied.                 *)
THEOREM EveryCopyOnce == Spec => []ResendNeedsFailure
  <1>1. TypeOK /\ Paid /\ Owned => ResendNeedsFailure
    <2> SUFFICES ASSUME TypeOK, Paid, Owned, NEW h \in Hosts, NEW c \in 1 .. Copies
                 PROVE  /\ sent[h][c] <= 1 + missed[h][c]
                        /\ sent[h][c] > 0 => \A g \in Hosts \ {h} : sent[g][c] = 0
      BY DEF ResendNeedsFailure
    <2>1. c \in ByHook .. Copies
      BY DEF ByHook
    <2>2. \A g \in Hosts : sent[g][c] \in Nat /\ missed[g][c] \in Nat
      BY <2>1, Counters
    <2>3. sent[h][c] + One(InHand(h, c)) + One(Unseen(h, c)) <= missed[h][c] + One(c # ByHook)
      BY <2>1 DEF Paid
    <2>4. /\ One(InHand(h, c)) \in {0, 1} /\ One(Unseen(h, c)) \in {0, 1}
          /\ One(c # ByHook) \in {0, 1}
      BY DEF One
    <2>5. sent[h][c] > 0 => \A g \in Hosts \ {h} : ~(sent[g][c] > 0)
      BY DEF Owned, Has
    <2> QED
      BY <2>2, <2>3, <2>4, <2>5
  <1> QED
    BY <1>1, AllPaid, PTL
=============================================================================
