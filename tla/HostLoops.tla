----------------------------- MODULE HostLoops -----------------------------
(***************************************************************************)
(* The goroutines of one host and the channels between them: who waits for *)
(* whom.  LogChan, ErrorChan, DevicesUpdated, ClipboardsHistoryUpdated,    *)
(* the channel of found peers and stopDiscovery have no buffer, so a       *)
(* goroutine that sends waits for a receiver.  In terminal mode the only   *)
(* receiver is the loop in main; with the user interface there is a        *)
(* goroutine for each page, and the UI goroutine, which runs the handlers  *)
(* of buttons and executes queued redraws.                                 *)
(*                                                                         *)
(* todo[g] is what goroutine g still has to send, in order; it waits at    *)
(* the head.  A worker is idle, or part way through one of its Scripts.    *)
(***************************************************************************)
EXTENDS Naturals, Sequences

CONSTANTS
    Workers,    \* goroutines beside main and the discovery loop
    Crews,      \* kinds of the workers that may be at work together
    Cap,        \* places of FileProgressChan
    Tries       \* how often Connect is tried

(* What a goroutine of each kind sends between two points where it waits   *)
(* for the outside, by every path through its code.  A "line" goes to      *)
(* LogChan or ErrorChan, which have the same receivers; lines that follow  *)
(* one another are one.  "pend" is no send: it makes a Device pending.     *)
MdnsScripts == {<<"line">>, <<"line", "peer">>}
HandlerScripts == {<<"line">>, <<"line", "dev", "line">>}
ReaderScripts == {<<"line", "dev", "line">>, <<"hist", "line">>,
                  <<"line", "dev">>, <<"line", "pend", "dev">>}
WriterScripts == {<<"line">>, <<"hist", "line", "dev">>, <<"hist", "dev", "line">>}
WatcherScripts == {<<"line">>}
TransferScripts == {<<"line", "prog", "line">>, <<"line", "prog", "line", "prog">>}

Scripts ==
    [mdns |-> MdnsScripts, handler |-> HandlerScripts, reader |-> ReaderScripts,
     writer |-> WriterScripts, watcher |-> WatcherScripts,
     transfer |-> TransferScripts]

ASSUME LoopsAssumption ==
    /\ Crews \subseteq [Workers -> DOMAIN Scripts]
    /\ {"main", "discovery"} \cap Workers = {}
    /\ Cap \in Nat \ {0}
    /\ Tries \in Nat \ {0}

VARIABLES
    mode,       \* "terminal" or "gui"
    crew,       \* the kind of each worker
    tools,      \* the tools of the file clipboard are installed
    main,       \* where the main (with the GUI: the UI) goroutine is
    discovery,  \* where the discovery loop is, and its count of tries
    todo,       \* what each goroutine still has to send
    pending,    \* a Device is waiting for the user
    prompt,     \* a prompt is on the screen
    redraw,     \* the goroutine of the clipboard table waits for a redraw
    fileSync,   \* the file clipboard is being watched
    progress    \* what FileProgressChan holds

host == <<mode, crew, tools>>
vars == <<host, main, discovery, todo, pending, prompt, redraw,
          fileSync, progress>>

Goroutines == Workers \cup {"main", "discovery"}

(* The process has come to its end.                                        *)
Ended == main \in {"exited", "crashed"}

Sends == {"line", "fatal", "dev", "hist", "prog", "peer", "stop", "pend"}

TypeOK ==
    /\ mode \in {"terminal", "gui"}
    /\ crew \in Crews
    /\ main \in {"start", "noTools", "view", "loop", "prompt", "answer",
                 "stopping", "exited", "crashed"}
    /\ discovery \in [pc : {"load", "setup", "select", "wait", "dial", "open", "ended"},
                      try : 1 .. Tries]
    /\ todo \in [Goroutines -> Seq(Sends)]
    /\ \A g \in Goroutines : Len(todo[g]) <= 5
    /\ {tools, pending, prompt, redraw, fileSync} \subseteq BOOLEAN
    /\ progress \in 0 .. Cap
    /\ prompt => mode = "gui"
    /\ todo["main"] # <<>> => main \in {"noTools", "answer", "stopping"}
    /\ main = "noTools" => ~tools

Idle(g) == todo[g] = <<>>
AtSend(g, kinds) == ~Idle(g) /\ Head(todo[g]) \in kinds
Say(g, sends) == todo' = [todo EXCEPT ![g] = sends]
Sent(g) == [todo EXCEPT ![g] = Tail(@)]
Silent == [g \in Goroutines |-> <<>>]

(* The process ends, and all its goroutines with it.                       *)
End(m) == main' = m /\ todo' = Silent

Goto(pc) == discovery' = [pc |-> pc, try |-> 1]

(* NewCrossClipboard has returned, with the discovery goroutine started.   *)
Init ==
    /\ mode \in {"terminal", "gui"}
    /\ crew \in Crews
    /\ tools \in BOOLEAN
    /\ main = "start"
    /\ discovery = [pc |-> "load", try |-> 1]
    /\ todo = Silent
    /\ pending = FALSE /\ prompt = FALSE /\ redraw = FALSE
    /\ fileSync = FALSE /\ progress = 0
-----------------------------------------------------------------------------
(* The main goroutine.                                                     *)

(* A variant that logs in either case.                                     *)
StartAndLog ==
    /\ main = "start"
    /\ Say("main", <<"line">>)
    /\ main' = "noTools"
    /\ UNCHANGED <<host, discovery, pending, prompt, redraw, fileSync, progress>>

(* StartFileClipboard; without the tools it logs, and the loop that would  *)
(* receive is started only afterwards.                                     *)
StartFileClipboard ==
    /\ main = "start"
    /\ IF tools THEN /\ fileSync' = TRUE
                     /\ main' = IF mode = "gui" THEN "view" ELSE "loop"
                     /\ UNCHANGED todo
                ELSE /\ Say("main", <<"line">>)
                     /\ main' = "noTools"
                     /\ UNCHANGED fileSync
    /\ UNCHANGED <<host, discovery, pending, prompt, redraw, progress>>

(* View.Start makes the application that the goroutines NewView has        *)
(* started already draw on.                                                *)
ViewStarts ==
    /\ main = "view"
    /\ main' = "loop"
    /\ UNCHANGED <<host, discovery, todo, pending, prompt, redraw, fileSync, progress>>

(* The user answers: Trust or Block, then UpdateDevice on this goroutine.  *)
Answer ==
    /\ main = "prompt" \/ (main = "loop" /\ prompt)
    /\ main' = "answer"
    /\ pending' = FALSE
    /\ prompt' = FALSE
    /\ Say("main", <<"dev">>)
    /\ UNCHANGED <<host, discovery, redraw, fileSync, progress>>

(* The settings cannot be saved.                                           *)
SettingsFail ==
    /\ mode = "gui" /\ main = "loop" /\ ~prompt
    /\ main' = "answer"
    /\ Say("main", <<"line">>)
    /\ UNCHANGED <<host, discovery, pending, prompt, redraw, fileSync, progress>>

(* A variant that does not wait for UpdateDevice.                          *)
AnswerReturnsAtOnce ==
    /\ main = "answer"
    /\ main' = "loop"
    /\ UNCHANGED <<host, discovery, todo, pending, prompt, redraw, fileSync, progress>>

AnswerReturns ==
    /\ main = "answer" /\ Idle("main")
    /\ main' = "loop"
    /\ UNCHANGED <<host, discovery, todo, pending, prompt, redraw, fileSync, progress>>

(* CrossClipboard.Stop, on an interrupt or from the settings page: signals *)
(* to the connected devices, one of which may fail, then the stop.  Before *)
(* there is a stream handler there are no signals.                         *)
Stop ==
    /\ main = "loop" /\ ~prompt
    /\ main' = "stopping"
    /\ fileSync' = FALSE
    /\ \/ Say("main", <<"stop">>)
       \/ discovery.pc # "load" /\ Say("main", <<"dev", "line", "stop">>)
    /\ UNCHANGED <<host, discovery, pending, prompt, redraw, progress>>

(* The host is closed: the program exits, or the settings page starts a    *)
(* new host and a new view, without StartFileClipboard.  Goroutines of the *)
(* old host that wait to send wait for ever, as nobody receives from its   *)
(* channels; the module goes on with the new one and forgets them.         *)
HostCloses ==
    /\ main = "stopping" /\ Idle("main")
    /\ \/ /\ End("exited")
          /\ UNCHANGED <<discovery, pending, prompt, redraw, fileSync, progress>>
       \/ /\ mode = "gui"
          /\ main' = "view"
          /\ Goto("load")
          /\ todo' = Silent
          /\ pending' = FALSE /\ prompt' = FALSE /\ redraw' = FALSE
          /\ fileSync' = FALSE /\ progress' = 0
    /\ UNCHANGED host

(* Ctrl-C ends the application without Stop.                               *)
Quit ==
    /\ mode = "gui" /\ main = "loop"
    /\ End("exited")
    /\ UNCHANGED <<host, discovery, pending, prompt, redraw, fileSync, progress>>
-----------------------------------------------------------------------------
(* The receivers.                                                          *)

(* Where messages and updates are received: the loop of terminal mode, or  *)
(* the goroutines that NewView starts and that run from then on.           *)
Listening == IF mode = "terminal" THEN main = "loop"
                                  ELSE main \notin {"start", "noTools"} /\ ~Ended

(* A log or error line; a fatal error ends the process.  The log page      *)
(* draws on an application that View.Start may not have made yet.          *)
TakeMessage(g) ==
    /\ Listening
    /\ AtSend(g, {"line", "fatal"})
    /\ \/ Head(todo[g]) = "line" /\ todo' = Sent(g) /\ UNCHANGED main
       \/ Head(todo[g]) = "fatal" /\ End("exited")
       \/ main = "view" /\ End("crashed")
    /\ UNCHANGED <<host, discovery, pending, prompt, redraw, fileSync, progress>>

(* DevicesUpdated: terminal mode asks about a pending device on the spot,  *)
(* the GUI puts a prompt on the screen.                                    *)
TakeUpdate(g) ==
    /\ Listening
    /\ AtSend(g, {"dev"})
    /\ prompt' = (prompt \/ (mode = "gui" /\ pending))
    /\ \/ /\ todo' = Sent(g)
          /\ main' = IF mode = "terminal" /\ pending THEN "prompt" ELSE main
       \/ main = "view" /\ pending /\ End("crashed")
    /\ UNCHANGED <<host, discovery, pending, redraw, fileSync, progress>>

(* ClipboardsHistoryUpdated; the table then waits for the UI goroutine.    *)
TakeHistory(g) ==
    /\ Listening /\ ~redraw
    /\ AtSend(g, {"hist"})
    /\ redraw' = (mode = "gui")
    /\ \/ todo' = Sent(g) /\ UNCHANGED main
       \/ main = "view" /\ End("crashed")
    /\ UNCHANGED <<host, discovery, pending, prompt, fileSync, progress>>

(* A progress report finds a place in the channel.                         *)
Report(g) ==
    /\ ~Ended
    /\ AtSend(g, {"prog"})
    /\ progress < Cap
    /\ progress' = progress + 1
    /\ todo' = Sent(g)
    /\ UNCHANGED <<host, main, discovery, pending, prompt, redraw, fileSync>>

(* Only the clipboard table receives reports.                              *)
TakeReport ==
    /\ mode = "gui" /\ Listening /\ ~redraw
    /\ progress > 0
    /\ progress' = progress - 1
    /\ redraw' = TRUE
    /\ \/ UNCHANGED <<main, todo>>
       \/ main = "view" /\ End("crashed")
    /\ UNCHANGED <<host, discovery, pending, prompt, fileSync>>

(* The UI goroutine executes the queued redraw between two events.         *)
Redraw ==
    /\ mode = "gui" /\ main = "loop"
    /\ redraw
    /\ redraw' = FALSE
    /\ UNCHANGED <<host, main, discovery, todo, pending, prompt, fileSync, progress>>
-----------------------------------------------------------------------------
(* The discovery loop.                                                     *)

Discovering(pc) == ~Ended /\ Idle("discovery") /\ discovery.pc = pc

(* Load, the stream handlers, the first log line.                          *)
Load ==
    /\ Discovering("load")
    /\ \E sends \in {<<"line">>, <<"fatal", "line">>} : Say("discovery", sends)
    /\ Goto("setup")
    /\ UNCHANGED <<host, main, pending, prompt, redraw, fileSync, progress>>

InitMultiMDNS ==
    /\ Discovering("setup")
    /\ UNCHANGED todo \/ Say("discovery", <<"fatal">>)
    /\ Goto("select")
    /\ UNCHANGED <<host, main, pending, prompt, redraw, fileSync, progress>>

(* A found peer is blocked, must be waited for, is dialled, is connected   *)
(* without a stream, or is served already.                                 *)
FoundPeer(g) ==
    /\ Discovering("select")
    /\ AtSend(g, {"peer"})
    /\ \/ /\ \E pc \in {"select", "wait", "dial"} : Goto(pc)
          /\ todo' = [Sent(g) EXCEPT !["discovery"] = <<"line">>]
       \/ /\ \E pc \in {"select", "open"} : Goto(pc)
          /\ todo' = Sent(g)
    /\ UNCHANGED <<host, main, pending, prompt, redraw, fileSync, progress>>

(* The peer has connected, or 15 seconds have passed.                      *)
WaitEnds ==
    /\ Discovering("wait")
    /\ \/ Goto("select") /\ UNCHANGED todo
       \/ Goto("dial") /\ Say("discovery", <<"line">>)
    /\ UNCHANGED <<host, main, pending, prompt, redraw, fileSync, progress>>

(* A variant that leaves the loop when the peer cannot be reached.         *)
DialOrEnd ==
    /\ Discovering("dial")
    /\ \/ Goto("open") /\ UNCHANGED todo
       \/ Goto("ended") /\ Say("discovery", <<"line">>)
    /\ UNCHANGED <<host, main, pending, prompt, redraw, fileSync, progress>>

Dial ==
    /\ Discovering("dial")
    /\ \/ Goto("open") /\ UNCHANGED todo
       \/ /\ discovery.try < Tries
          /\ discovery' = [discovery EXCEPT !.try = @ + 1]
          /\ Say("discovery", <<"line">>)
       \/ /\ discovery.try = Tries
          /\ Goto("select")
          /\ Say("discovery", <<"line">>)
    /\ UNCHANGED <<host, main, pending, prompt, redraw, fileSync, progress>>

OpenStream ==
    /\ Discovering("open")
    /\ Goto("select")
    /\ \E sends \in {<<"line">>, <<"dev", "line">>} : Say("discovery", sends)
    /\ UNCHANGED <<host, main, pending, prompt, redraw, fileSync, progress>>

(* The stop is received: by the loop, which ends, or while it waits for a  *)
(* peer, and then it goes on.                                              *)
TakeStop ==
    /\ Idle("discovery")
    /\ AtSend("main", {"stop"})
    /\ \/ /\ discovery.pc = "select"
          /\ Goto("ended")
          /\ todo' = [Sent("main") EXCEPT !["discovery"] = <<"line">>]
       \/ /\ discovery.pc = "wait"
          /\ Goto("select")
          /\ todo' = Sent("main")
    /\ UNCHANGED <<host, main, pending, prompt, redraw, fileSync, progress>>
-----------------------------------------------------------------------------
(* The workers run once the stream handlers are set; mDNS is started last, *)
(* and a copied file is seen only while the file clipboard is watched.     *)
Start(g) ==
    /\ ~Ended /\ Idle(g)
    /\ discovery.pc \notin (IF crew[g] = "mdns" THEN {"load", "setup"} ELSE {"load"})
    /\ crew[g] = "watcher" => fileSync
    /\ \E sends \in Scripts[crew[g]] : Say(g, sends)
    /\ UNCHANGED <<host, main, discovery, pending, prompt, redraw, fileSync, progress>>

(* A reader calls a device pending.                                        *)
Pend(g) ==
    /\ ~Ended
    /\ AtSend(g, {"pend"})
    /\ pending' = TRUE
    /\ todo' = Sent(g)
    /\ UNCHANGED <<host, main, discovery, prompt, redraw, fileSync, progress>>

Take(g) == TakeMessage(g) \/ TakeUpdate(g) \/ TakeHistory(g) \/ FoundPeer(g)

Discovery == Load \/ InitMultiMDNS \/ WaitEnds \/ Dial \/ OpenStream

Main == StartFileClipboard \/ ViewStarts \/ AnswerReturns \/ HostCloses

User == Answer \/ SettingsFail \/ Stop \/ Quit

Next ==
    \/ Main \/ User \/ Discovery \/ TakeStop \/ TakeReport \/ Redraw
    \/ \E g \in Goroutines : Take(g) \/ Report(g)
    \/ \E g \in Workers : Start(g) \/ Pend(g)

(* Every goroutine runs.  The goroutines that receive lines and updates do *)
(* nothing else.  The clipboard table, the discovery loop and the UI       *)
(* goroutine come back to several channels, and pass none over for ever:   *)
(* select chooses at random, and redraws queue with the user's events.     *)
Fairness ==
    /\ WF_vars(Main) /\ WF_vars(Discovery) /\ SF_vars(TakeStop)
    /\ SF_vars(Redraw) /\ SF_vars(TakeReport)
    /\ \A g \in Goroutines : WF_vars(TakeMessage(g) \/ TakeUpdate(g) \/ Report(g))
    /\ \A g \in Workers : SF_vars(TakeHistory(g) \/ FoundPeer(g)) /\ WF_vars(Pend(g))

Spec == Init /\ [][Next]_vars /\ Fairness
-----------------------------------------------------------------------------
(* Where the only receiver has gone: the log line of StartFileClipboard,   *)
(* which nobody is there to receive, and in terminal mode the prompt, the  *)
(* update that follows an answer (a send of the loop to itself) and Stop.  *)
Deaf ==
    \/ main = "noTools"
    \/ mode = "terminal" /\ main \in {"prompt", "answer", "stopping"}

(* With the tools installed the program starts, although discovery, the    *)
(* stream handlers and the pages of the user interface send and draw       *)
(* before the main goroutine receives: fileclipboard.go:22, main.go:34-79. *)
StartupEnds ==
    (main = "view" \/ (main = "start" /\ tools)) ~> (main = "loop" \/ Ended)

(* Every goroutine that logs, reports an update or has found a peer goes   *)
(* on, unless the receiver has gone or it is a progress report in terminal *)
(* mode, where nothing receives them (main.go:40-76).                      *)
SendsReturn ==
    \A g \in Goroutines :
        ~Idle(g) ~> \/ Idle(g) \/ Ended \/ Deaf
                    \/ (mode = "terminal" /\ AtSend(g, {"prog"}))

(* In terminal mode nothing is received after the first answer: the loop   *)
(* waits for itself (main.go:65).                                          *)
FirstAnswerIsLast ==
    [][mode = "terminal" /\ main = "answer" => UNCHANGED main]_vars
=============================================================================
