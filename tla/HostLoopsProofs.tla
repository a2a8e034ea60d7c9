-------------------------- MODULE HostLoopsProofs --------------------------
(* Theorems about HostLoops for any number and kinds of goroutines, places *)
(* of FileProgressChan and tries of Connect.                               *)
EXTENDS HostLoops, SequenceTheorems, TLAPS

USE LoopsAssumption

(* What one goroutine has to send: five sends at most.                     *)
Short == {s \in Seq(Sends) : Len(s) <= 5}

(* A list of one send is typed.                                            *)
LEMMA SingleShort ==
    ASSUME NEW a \in Sends
    PROVE  <<a>> \in Short
  BY DEF Short, Sends

(* The same for two sends. *)
LEMMA PairShort ==
    ASSUME NEW a \in Sends, NEW b \in Sends
    PROVE  <<a, b>> \in Short
  BY DEF Short, Sends

(* The same for three sends. *)
LEMMA TripleShort ==
    ASSUME NEW a \in Sends, NEW b \in Sends, NEW c \in Sends
    PROVE  <<a, b, c>> \in Short
  BY DEF Short, Sends

(* The same for four sends. *)
LEMMA FourShort ==
    ASSUME NEW a \in Sends, NEW b \in Sends, NEW c \in Sends, NEW d \in Sends
    PROVE  <<a, b, c, d>> \in Short
  BY DEF Short, Sends

(* All the lists of the workers are made of these.                         *)
LEMMA ScriptsShort ==
    ASSUME NEW k \in DOMAIN Scripts, NEW s \in Scripts[k]
    PROVE  s \in Short
  <1>1. {"line", "fatal", "dev", "hist", "prog", "peer", "stop", "pend"} \subseteq Sends
    BY DEF Sends
  <1>2. MdnsScripts \cup HandlerScripts \cup WriterScripts \cup WatcherScripts \subseteq Short
    BY <1>1, SingleShort, PairShort, TripleShort
       DEF MdnsScripts, HandlerScripts, WriterScripts, WatcherScripts
  <1>3. ReaderScripts \cup TransferScripts \subseteq Short
    BY <1>1, PairShort, TripleShort, FourShort DEF ReaderScripts, TransferScripts
  <1>4. s \in MdnsScripts \cup HandlerScripts \cup WriterScripts \cup WatcherScripts
              \cup ReaderScripts \cup TransferScripts
    BY DEF Scripts
  <1> QED
    BY <1>2, <1>3, <1>4

(* Everything but the sends of the goroutines is typed like this.          *)
Shape ==
    /\ mode \in {"terminal", "gui"}
    /\ crew \in Crews
    /\ main \in {"start", "noTools", "view", "loop", "prompt", "answer",
                 "stopping", "exited", "crashed"}
    /\ discovery \in [pc : {"load", "setup", "select", "wait", "dial", "open", "ended"},
                      try : 1 .. Tries]
    /\ tools \in BOOLEAN /\ pending \in BOOLEAN /\ prompt \in BOOLEAN
    /\ redraw \in BOOLEAN /\ fileSync \in BOOLEAN
    /\ progress \in 0 .. Cap
    /\ prompt => mode = "gui"
    /\ main = "noTools" => ~tools

Queues ==
    /\ todo \in [Goroutines -> Short]
    /\ todo["main"] # <<>> => main \in {"noTools", "answer", "stopping"}

(* TypeOK in two parts.                                                    *)
LEMMA TypeParts == TypeOK <=> Shape /\ Queues
  <1>1. todo \in [Goroutines -> Short] <=>
           todo \in [Goroutines -> Seq(Sends)] /\ \A g \in Goroutines : Len(todo[g]) <= 5
    BY DEF Short
  <1> QED
    BY <1>1 DEF TypeOK, Shape, Queues

(* The same in the next state.                                             *)
LEMMA TypePartsNext == TypeOK' <=> Shape' /\ Queues'
  <1>1. todo' \in [Goroutines -> Short] <=>
           todo' \in [Goroutines -> Seq(Sends)] /\ \A g \in Goroutines : Len(todo'[g]) <= 5
    BY DEF Short
  <1> QED
    BY <1>1 DEF TypeOK, Shape, Queues

(* A goroutine that has nothing to do begins to send.                      *)
LEMMA SayTyped ==
    ASSUME Queues, NEW g \in Goroutines, NEW s \in Short, Say(g, s)
    PROVE  /\ todo' \in [Goroutines -> Short] /\ todo'[g] = s
           /\ \A f \in Goroutines : f # g => todo'[f] = todo[f]
  BY DEF Queues, Say

(* A goroutine has sent, and the others still have to.                     *)
LEMMA SentTyped ==
    ASSUME Queues, NEW g \in Goroutines, ~Idle(g)
    PROVE  /\ Sent(g) \in [Goroutines -> Short] /\ Sent(g)[g] = Tail(todo[g])
           /\ \A f \in Goroutines : f # g => Sent(g)[f] = todo[f]
  <1>1. todo[g] \in Seq(Sends) /\ Len(todo[g]) <= 5 /\ todo[g] # <<>>
    BY DEF Queues, Idle, Short
  <1>2. Tail(todo[g]) \in Seq(Sends) /\ Len(Tail(todo[g])) = Len(todo[g]) - 1 /\ Len(todo[g]) \in Nat
    BY <1>1
  <1>3. Tail(todo[g]) \in Short
    BY <1>1, <1>2 DEF Short
  <1> QED
    BY <1>3 DEF Queues, Sent

(* The process ends.                                                       *)
LEMMA SilentTyped == Silent \in [Goroutines -> Short] /\ \A g \in Goroutines : Silent[g] = <<>>
  <1>1. <<>> \in Short
    BY DEF Short
  <1> QED
    BY <1>1 DEF Silent

(* The main goroutine and the user keep the shape.                         *)
LEMMA MainShape ==
    ASSUME Shape, Main \/ User
    PROVE  Shape'
  <1>1. CASE StartFileClipboard
    BY <1>1 DEF StartFileClipboard, Shape, host
  <1>2. CASE ViewStarts \/ AnswerReturns
    BY <1>2 DEF ViewStarts, AnswerReturns, Shape, host
  <1>3. CASE HostCloses
    <2>1. 1 \in 1 .. Tries /\ 0 \in 0 .. Cap
      OBVIOUS
    <2>2. UNCHANGED host
      BY <1>3 DEF HostCloses
    <2>3. CASE End("exited") /\ UNCHANGED <<discovery, pending, prompt, redraw, fileSync, progress>>
      BY <2>2, <2>3 DEF End, Shape, host
    <2>4. CASE /\ main' = "view" /\ Goto("load")
               /\ pending' = FALSE /\ prompt' = FALSE /\ redraw' = FALSE
               /\ fileSync' = FALSE /\ progress' = 0
      <3>1. discovery' \in [pc : {"load", "setup", "select", "wait", "dial", "open", "ended"},
                            try : 1 .. Tries]
        BY <2>1, <2>4 DEF Goto
      <3> QED
        BY <2>1, <2>2, <2>4, <3>1 DEF Shape, host
    <2> QED
      BY <1>3, <2>3, <2>4 DEF HostCloses
  <1>4. CASE Answer \/ SettingsFail
    BY <1>4 DEF Answer, SettingsFail, Shape, host
  <1>5. CASE Stop \/ Quit
    <2>1. /\ main' \in {"stopping", "exited"} /\ fileSync' \in {fileSync, FALSE}
          /\ UNCHANGED <<host, discovery, pending, prompt, redraw, progress>>
      BY <1>5 DEF Stop, Quit, End
    <2> QED
      BY <2>1 DEF Shape, host
  <1> QED
    BY <1>1, <1>2, <1>3, <1>4, <1>5 DEF Main, User

(* The receivers keep the shape.                                           *)
LEMMA TakeShape ==
    ASSUME Shape, NEW g \in Goroutines,
           TakeMessage(g) \/ TakeUpdate(g) \/ TakeHistory(g) \/ Report(g) \/ TakeReport \/ Redraw
    PROVE  Shape'
  <1>1. CASE TakeMessage(g)
    BY <1>1 DEF TakeMessage, End, Shape, host
  <1>2. CASE TakeUpdate(g)
    <2>1. (prompt \/ (mode = "gui" /\ pending)) \in BOOLEAN
      OBVIOUS
    <2>2. prompt' \in BOOLEAN /\ (prompt' => mode = "gui")
      BY <1>2, <2>1 DEF TakeUpdate, Shape
    <2>3. main' \in {main, "prompt", "crashed"}
      BY <1>2 DEF TakeUpdate, End
    <2> QED
      BY <1>2, <2>2, <2>3 DEF TakeUpdate, Shape, host
  <1>3. CASE TakeHistory(g)
    <2>1. (mode = "gui") \in BOOLEAN
      OBVIOUS
    <2>2. main' \in {main, "crashed"} /\ redraw' \in BOOLEAN
      BY <1>3, <2>1 DEF TakeHistory, End
    <2> QED
      BY <1>3, <2>2 DEF TakeHistory, Shape, host
  <1>4. CASE Report(g)
    <2>1. progress' \in 0 .. Cap
      BY <1>4 DEF Report, Shape
    <2> QED
      BY <1>4, <2>1 DEF Report, Shape, host
  <1>5. CASE TakeReport
    <2>1. progress' \in 0 .. Cap
      BY <1>5 DEF TakeReport, Shape
    <2>2. main' \in {main, "crashed"}
      BY <1>5 DEF TakeReport, End
    <2> QED
      BY <1>5, <2>1, <2>2 DEF TakeReport, Shape, host
  <1>6. CASE Redraw
    BY <1>6 DEF Redraw, Shape, host
  <1> QED
    BY <1>1, <1>2, <1>3, <1>4, <1>5, <1>6

(* The discovery loop and the workers keep the shape.                      *)
LEMMA OthersShape ==
    ASSUME Shape, NEW g \in Goroutines,
           Discovery \/ TakeStop \/ FoundPeer(g) \/ Start(g) \/ Pend(g)
    PROVE  Shape'
  <1>1. 1 \in 1 .. Tries
    OBVIOUS
  <1>2. CASE Load \/ InitMultiMDNS \/ WaitEnds \/ OpenStream
    BY <1>1, <1>2 DEF Load, InitMultiMDNS, WaitEnds, OpenStream, Goto, Shape, host
  <1>3. CASE Dial
    <2>1. discovery' \in [pc : {"load", "setup", "select", "wait", "dial", "open", "ended"},
                          try : 1 .. Tries]
      <3>1. CASE Goto("open") \/ Goto("select")
        BY <1>1, <3>1 DEF Goto
      <3>2. CASE discovery.try < Tries /\ discovery' = [discovery EXCEPT !.try = @ + 1]
        <4>1. discovery.try + 1 \in 1 .. Tries
          BY <3>2 DEF Shape
        <4> QED
          BY <3>2, <4>1 DEF Shape
      <3> QED
        BY <1>3, <3>1, <3>2 DEF Dial
    <2> QED
      BY <1>3, <2>1 DEF Dial, Shape, host
  <1>4. CASE TakeStop \/ FoundPeer(g)
    BY <1>1, <1>4 DEF TakeStop, FoundPeer, Goto, Shape, host
  <1>5. CASE Start(g) \/ Pend(g)
    <2>1. pending' \in {pending, TRUE}
          /\ UNCHANGED <<host, main, discovery, prompt, redraw, fileSync, progress>>
      BY <1>5 DEF Start, Pend
    <2>2. pending' \in BOOLEAN
      BY <2>1 DEF Shape
    <2> QED
      BY <2>1, <2>2 DEF Shape, host
  <1> QED
    BY <1>2, <1>3, <1>4, <1>5 DEF Discovery

(* The main goroutine and the user, as to what is left to send.            *)
LEMMA MainQueues ==
    ASSUME Shape, Queues, Main \/ User
    PROVE  Queues'
  <1>0. "main" \in Goroutines /\ <<"line">> \in Short /\ <<"dev">> \in Short /\ <<"stop">> \in Short
        /\ <<"dev", "line", "stop">> \in Short
    BY SingleShort, TripleShort DEF Goroutines, Sends
  <1>1. CASE StartFileClipboard
    <2>1. \/ UNCHANGED todo /\ main = "start"
          \/ Say("main", <<"line">>) /\ main' = "noTools"
      BY <1>1 DEF StartFileClipboard
    <2>2. main = "start" => todo["main"] = <<>>
      BY DEF Queues
    <2> QED
      BY <1>0, <2>1, <2>2, SayTyped DEF Queues
  <1>2. CASE ViewStarts \/ AnswerReturns
    BY <1>2 DEF ViewStarts, AnswerReturns, Idle, Queues
  <1>3. CASE HostCloses \/ Quit
    <2>1. todo' = Silent
      BY <1>3 DEF HostCloses, Quit, End
    <2> QED
      BY <1>0, <2>1, SilentTyped DEF Queues
  <1>4. CASE Answer \/ SettingsFail
    <2>1. main' = "answer" /\ (Say("main", <<"dev">>) \/ Say("main", <<"line">>))
      BY <1>4 DEF Answer, SettingsFail
    <2> QED
      BY <1>0, <2>1, SayTyped DEF Queues
  <1>5. CASE Stop
    <2>1. main' = "stopping"
          /\ (Say("main", <<"stop">>) \/ Say("main", <<"dev", "line", "stop">>))
      BY <1>5 DEF Stop
    <2> QED
      BY <1>0, <2>1, SayTyped DEF Queues
  <1> QED
    BY <1>1, <1>2, <1>3, <1>4, <1>5 DEF Main, User

(* A sender that is received from goes on, or the process ends.            *)
LEMMA TakeQueues ==
    ASSUME Shape, Queues, NEW g \in Goroutines,
           \/ TakeMessage(g) \/ TakeUpdate(g) \/ TakeHistory(g) \/ Report(g)
           \/ TakeReport \/ Redraw \/ Pend(g)
    PROVE  Queues'
  <1>0. "main" \in Goroutines
    BY DEF Goroutines
  <1>1. CASE ~Idle(g) /\ todo' = Sent(g) /\ (main' = main \/ (main = "loop" /\ main' = "prompt"))
    <2>1. todo["main"] = <<>> => Sent(g)["main"] = <<>>
      <3>1. todo["main"] = <<>> => g # "main"
        BY <1>1 DEF Idle
      <3> QED
        BY <1>0, <1>1, <3>1, SentTyped
    <2>2. main = "loop" => todo["main"] = <<>>
      BY DEF Queues
    <2>3. todo' \in [Goroutines -> Short]
      BY <1>1, SentTyped
    <2> QED
      BY <1>1, <2>1, <2>2, <2>3 DEF Queues
  <1>2. CASE todo' = Silent
    BY <1>0, <1>2, SilentTyped DEF Queues
  <1>3. CASE UNCHANGED <<main, todo>>
    BY <1>3 DEF Queues
  <1>4. CASE TakeMessage(g)
    BY <1>1, <1>2, <1>4 DEF TakeMessage, AtSend, End
  <1>5. CASE TakeUpdate(g)
    <2>1. mode = "terminal" /\ Listening => main = "loop"
      BY DEF Listening
    <2> QED
      BY <1>1, <1>2, <1>5, <2>1 DEF TakeUpdate, AtSend, End
  <1>6. CASE TakeHistory(g)
    BY <1>1, <1>2, <1>6 DEF TakeHistory, AtSend, End
  <1>7. CASE Report(g) \/ Pend(g)
    BY <1>1, <1>7 DEF Report, Pend, AtSend
  <1>8. CASE TakeReport
    BY <1>2, <1>3, <1>8 DEF TakeReport, End
  <1>9. CASE Redraw
    BY <1>3, <1>9 DEF Redraw
  <1> QED
    BY <1>4, <1>5, <1>6, <1>7, <1>8, <1>9

(* The discovery loop sends, receives a peer, or is told to stop.          *)
LEMMA OthersQueues ==
    ASSUME Shape, Queues, NEW g \in Goroutines,
           Discovery \/ TakeStop \/ FoundPeer(g) \/ (g \in Workers /\ Start(g))
    PROVE  Queues'
  <1>0. {"main", "discovery"} \subseteq Goroutines /\ "main" # "discovery"
    BY DEF Goroutines
  <1>1. \A s \in {<<"line">>, <<"fatal">>, <<"fatal", "line">>, <<"dev", "line">>} : s \in Short
    BY SingleShort, PairShort DEF Sends
  <1>2. CASE Discovery
    <2>1. UNCHANGED main
      BY <1>2 DEF Discovery, Load, InitMultiMDNS, WaitEnds, Dial, OpenStream
    <2>2. \/ UNCHANGED todo
          \/ \E s \in {<<"line">>, <<"fatal">>, <<"fatal", "line">>, <<"dev", "line">>} :
                Say("discovery", s)
      BY <1>2 DEF Discovery, Load, InitMultiMDNS, WaitEnds, Dial, OpenStream
    <2>3. CASE UNCHANGED todo
      BY <2>1, <2>3 DEF Queues
    <2>4. CASE \E s \in {<<"line">>, <<"fatal">>, <<"fatal", "line">>, <<"dev", "line">>} :
                Say("discovery", s)
      <3>1. todo' \in [Goroutines -> Short] /\ todo'["main"] = todo["main"]
        BY <1>0, <1>1, <2>4, SayTyped
      <3> QED
        BY <2>1, <3>1 DEF Queues
    <2> QED
      BY <2>2, <2>3, <2>4
  <1>3. ASSUME NEW f \in Goroutines, ~Idle(f), UNCHANGED main,
               todo' = Sent(f) \/ todo' = [Sent(f) EXCEPT !["discovery"] = <<"line">>]
        PROVE  Queues'
    <2>1. /\ Sent(f) \in [Goroutines -> Short]
          /\ f # "main" => Sent(f)["main"] = todo["main"]
      BY <1>0, <1>3, SentTyped
    <2>2. todo' \in [Goroutines -> Short] /\ (f # "main" => todo'["main"] = todo["main"])
      BY <1>0, <1>1, <1>3, <2>1
    <2>3. f = "main" => todo["main"] # <<>>
      BY <1>3 DEF Idle
    <2> QED
      BY <1>3, <2>2, <2>3 DEF Queues
  <1>4. CASE FoundPeer(g)
    <2>1. ~Idle(g) /\ UNCHANGED main
          /\ (todo' = Sent(g) \/ todo' = [Sent(g) EXCEPT !["discovery"] = <<"line">>])
      BY <1>4 DEF FoundPeer, AtSend
    <2> QED
      BY <1>3, <2>1
  <1>5. CASE TakeStop
    <2>1. ~Idle("main") /\ UNCHANGED main
          /\ (todo' = Sent("main") \/ todo' = [Sent("main") EXCEPT !["discovery"] = <<"line">>])
      BY <1>5 DEF TakeStop, AtSend
    <2> QED
      BY <1>0, <1>3, <2>1
  <1>6. CASE g \in Workers /\ Start(g)
    <2>1. PICK s \in Scripts[crew[g]] : Say(g, s)
      BY <1>6 DEF Start
    <2>2. s \in Short /\ g # "main" /\ UNCHANGED main
      BY <1>6, <2>1, ScriptsShort DEF Shape, Start
    <2>3. todo' \in [Goroutines -> Short] /\ todo'["main"] = todo["main"]
      BY <1>0, <2>1, <2>2, SayTyped
    <2> QED
      BY <2>2, <2>3 DEF Queues
  <1> QED
    BY <1>2, <1>4, <1>5, <1>6

(* Every step keeps the types.                                             *)
LEMMA TypeStep == TypeOK /\ [Next]_vars => TypeOK'
  <1> SUFFICES ASSUME Shape, Queues, [Next]_vars PROVE Shape' /\ Queues'
    BY TypeParts, TypePartsNext
  <1>1. CASE Main \/ User
    BY <1>1, MainShape, MainQueues
  <1>2. CASE Discovery \/ TakeStop
    <2>1. "main" \in Goroutines
      BY DEF Goroutines
    <2> QED
      BY <1>2, <2>1, OthersShape, OthersQueues
  <1>3. CASE TakeReport \/ Redraw
    <2>1. "main" \in Goroutines
      BY DEF Goroutines
    <2> QED
      BY <1>3, <2>1, TakeShape, TakeQueues
  <1>4. CASE \E g \in Goroutines : Take(g) \/ Report(g)
    BY <1>4, TakeShape, TakeQueues, OthersShape, OthersQueues DEF Take
  <1>5. CASE \E g \in Workers : Start(g) \/ Pend(g)
    <2>1. PICK g \in Workers : Start(g) \/ Pend(g)
      BY <1>5
    <2>2. g \in Goroutines
      BY DEF Goroutines
    <2> QED
      BY <2>1, <2>2, OthersShape, OthersQueues, TakeQueues
  <1>6. CASE UNCHANGED vars
    BY <1>6 DEF vars, host, Shape, Queues
  <1> QED
    BY <1>1, <1>2, <1>3, <1>4, <1>5, <1>6 DEF Next

(* The first state is typed.                                               *)
LEMMA TypeInit == Init => TypeOK
  <1> SUFFICES ASSUME Init PROVE Shape /\ Queues
    BY TypeParts
  <1>1. Queues
    BY SilentTyped DEF Init, Queues, Goroutines
  <1>2. Shape
    <2>1. 1 \in 1 .. Tries /\ 0 \in 0 .. Cap
      OBVIOUS
    <2>2. discovery \in [pc : {"load", "setup", "select", "wait", "dial", "open", "ended"},
                        try : 1 .. Tries]
      BY <2>1 DEF Init
    <2> QED
      BY <2>1, <2>2 DEF Init, Shape
  <1> QED
    BY <1>1, <1>2

(* Every state is typed: in particular the main goroutine, on which the    *)
(* user answers, sends only where it waits for a receiver.                 *)
THEOREM TypeCorrect == Spec => []TypeOK
  BY TypeInit, TypeStep, PTL DEF Spec

(* In terminal mode the main goroutine, once it has an answer, has to send *)
(* an update.                                                              *)
Stuck == mode = "terminal" /\ main = "answer" => todo["main"] = <<"dev">>

(* Nobody receives the update of the loop that would receive it.           *)
LEMMA StuckStep ==
    ASSUME TypeOK, Stuck, mode = "terminal", main = "answer", [Next]_vars
    PROVE  main' = main /\ todo'["main"] = todo["main"]
  <1>0. Shape /\ Queues /\ "main" \in Goroutines /\ "discovery" \in Goroutines
    BY TypeParts DEF Goroutines
  <1>1. /\ ~Idle("main") /\ ~Listening
        /\ \A K : AtSend("main", K) => "dev" \in K
    BY DEF Stuck, Idle, Listening, AtSend
  <1>2. CASE Main \/ User
    BY <1>1, <1>2 DEF Main, User, StartFileClipboard, ViewStarts, AnswerReturns, HostCloses,
                      Answer, SettingsFail, Stop, Quit
  <1>3. CASE Discovery
    <2>1. main' = main /\ (UNCHANGED todo \/ \E s : Say("discovery", s))
      BY <1>3 DEF Discovery, Load, InitMultiMDNS, WaitEnds, Dial, OpenStream
    <2> QED
      BY <1>0, <2>1 DEF Say, Queues
  <1>4. CASE TakeStop
    BY <1>1, <1>4 DEF TakeStop
  <1>5. CASE TakeReport
    BY <1>1, <1>5 DEF TakeReport
  <1>6. CASE Redraw
    BY <1>6 DEF Redraw
  <1>7. CASE \E g \in Goroutines : Take(g)
    <2>1. PICK g \in Goroutines : FoundPeer(g)
      BY <1>1, <1>7 DEF Take, TakeMessage, TakeUpdate, TakeHistory
    <2>2. g # "main"
      BY <1>1, <2>1 DEF FoundPeer
    <2>3. main' = main /\ ~Idle(g)
          /\ (todo' = Sent(g) \/ todo' = [Sent(g) EXCEPT !["discovery"] = <<"line">>])
      BY <2>1 DEF FoundPeer, AtSend
    <2>4. Sent(g) \in [Goroutines -> Short] /\ Sent(g)["main"] = todo["main"]
      BY <1>0, <2>2, <2>3, SentTyped
    <2> QED
      BY <1>0, <2>3, <2>4
  <1>8. CASE \E g \in Goroutines : Report(g)
    <2>1. PICK g \in Goroutines : Report(g)
      BY <1>8
    <2>2. g # "main"
      BY <1>1, <2>1 DEF Report
    <2>3. main' = main /\ todo' = Sent(g) /\ ~Idle(g)
      BY <2>1 DEF Report, AtSend
    <2> QED
      BY <1>0, <2>2, <2>3, SentTyped
  <1>9. CASE \E g \in Workers : Start(g) \/ Pend(g)
    <2>1. PICK g \in Workers : Start(g) \/ Pend(g)
      BY <1>9
    <2>2. g # "main" /\ g \in Goroutines
      BY DEF Goroutines
    <2>3. main' = main /\ ((~Idle(g) /\ todo' = Sent(g)) \/ \E s : Say(g, s))
      BY <2>1 DEF Start, Pend, AtSend
    <2>4. CASE ~Idle(g) /\ todo' = Sent(g)
      BY <1>0, <2>2, <2>3, <2>4, SentTyped
    <2>5. CASE \E s : Say(g, s)
      BY <1>0, <2>2, <2>3, <2>5 DEF Say, Queues
    <2> QED
      BY <2>3, <2>4, <2>5
  <1>10. CASE UNCHANGED vars
    BY <1>10 DEF vars
  <1> QED
    BY <1>2, <1>3, <1>4, <1>5, <1>6, <1>7, <1>8, <1>9, <1>10 DEF Next, Take

(* The answer of the user is what the main goroutine has to send.          *)
LEMMA StuckKept == TypeOK /\ Stuck /\ [Next]_vars => Stuck'
  <1> SUFFICES ASSUME TypeOK, Stuck, [Next]_vars, mode' = "terminal", main' = "answer"
               PROVE  todo'["main"] = <<"dev">>
    BY DEF Stuck
  <1>1. mode = "terminal" /\ "main" \in Goroutines /\ Queues
    <2>1. mode' = mode
      BY DEF Next, Main, User, StartFileClipboard, ViewStarts, AnswerReturns, HostCloses,
             Answer, SettingsFail, Stop, Quit, Discovery, Load, InitMultiMDNS, WaitEnds, Dial,
             OpenStream, TakeStop, TakeReport, Redraw, Take, TakeMessage, TakeUpdate,
             TakeHistory, FoundPeer, Report, Start, Pend, host, vars
    <2> QED
      BY <2>1, TypeParts DEF Goroutines
  <1>2. CASE main = "answer"
    BY <1>1, <1>2, StuckStep DEF Stuck
  <1>3. CASE main # "answer"
    <2>1. Answer
      BY <1>1, <1>3 DEF Next, Main, User, StartFileClipboard, ViewStarts, AnswerReturns,
             HostCloses, SettingsFail, Stop, Quit, Discovery, Load, InitMultiMDNS, WaitEnds,
             Dial, OpenStream, TakeStop, TakeReport, Redraw, Take, TakeMessage, TakeUpdate,
             TakeHistory, FoundPeer, Report, Start, Pend, End, vars
    <2> QED
      BY <1>1, <2>1 DEF Answer, Say, Queues
  <1> QED
    BY <1>2, <1>3

(* In terminal mode the first answer of the user is the last thing that    *)
(* the main goroutine does, whatever the other goroutines do (main.go:65). *)
THEOREM AnswerIsLast == Spec => FirstAnswerIsLast
  <1>1. Init => Stuck
    BY DEF Init, Stuck
  <1>2. ASSUME TypeOK, Stuck, [Next]_vars
        PROVE  [mode = "terminal" /\ main = "answer" => UNCHANGED main]_vars
    BY <1>2, StuckStep
  <1> QED
    BY <1>1, <1>2, TypeInit, TypeStep, StuckKept, PTL DEF Spec, FirstAnswerIsLast
=============================================================================
