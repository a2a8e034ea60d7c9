--------------------------- MODULE ClipboardSync ---------------------------
(***************************************************************************)
(* Clipboard synchronisation between hosts whose devices are connected.    *)
(* On each host a watcher for texts and one for images look at the system  *)
(* clipboard once a second and hand what has changed to the writer         *)
(* goroutine, which sends it to the other hosts; a reader for each peer    *)
(* records what it receives and puts it on the system clipboard, where the *)
(* watchers find it again.                                                 *)
(***************************************************************************)
EXTENDS Naturals, Sequences, SequencesExt

CONSTANTS
    Groups,     \* the groups of hosts: the operating system of each host,
                \* "linux" or "windows", and what their users copy
    Texts,      \* texts a user copies
    Images,     \* opaque images a user copies, as PNG data
    Reencoded,  \* Reencoded[d]: d after a Windows clipboard has converted it;
                \* converting an opaque image again changes nothing
    Unsent,     \* empty data, file URI lists, and data above max_size
    Limit,      \* max_history
    Nothing     \* no data

ASSUME SyncAssumption ==
    /\ Limit \in Nat \ {0}
    /\ Nothing \notin Texts \cup Images
    /\ Texts \cap Images = {}
    /\ Reencoded \in [Texts \cup Images -> Texts \cup Images]
    /\ \A t \in Texts : Reencoded[t] = t
    /\ \A i \in Images : Reencoded[i] \in Images /\ Reencoded[Reencoded[i]] = Reencoded[i]
    /\ Unsent \subseteq Texts
    /\ \A s \in Groups : s.copies \subseteq Texts \cup Images /\ Nothing \notin DOMAIN s.os

Data == Texts \cup Images
Formats == {"text", "image"}
Format(d) == IF d \in Images THEN "image" ELSE "text"

VARIABLES
    group,      \* the group that is connected
    clip,       \* what is on the system clipboard of each host
    seen,       \* seen[h][f]: what the watcher for f on h last handed over;
                \* on Windows nothing, if the clipboard was written since
    queue,      \* queue[h][f]: handed over; a second value waits for its place
    writer,     \* the call of sendClipboard that is under way
    net,        \* net[h][g]: the frames under way from h to g
    reading,    \* reading[h][g]: received by h from g, not yet on the clipboard
    received,   \* receivedClipboard
    history,    \* ClipboardsHistory
    copied      \* history variable: the last copy, and whether it was noticeable

vars == <<group, clip, seen, queue, writer, net, reading, received, history, copied>>

os == group.os
Hosts == DOMAIN os
Others(h) == Hosts \ {h}

NoWriter == [data |-> Nothing, received |-> FALSE, to |-> {}]

TypeOK ==
    /\ group \in Groups
    /\ clip \in [Hosts -> Data \cup {Nothing}]
    /\ seen \in [Hosts -> [Formats -> Data \cup {Nothing}]]
    /\ queue \in [Hosts -> [Formats -> Seq(Data)]]
    /\ \A h \in Hosts : \A f \in Formats : Len(queue[h][f]) <= 2
    /\ writer \in [Hosts -> [data : Data \cup {Nothing}, received : BOOLEAN,
                          to : SUBSET Hosts]]
    /\ \A h \in Hosts :
          /\ h \notin writer[h].to
          /\ writer[h].to # {} => writer[h].data \in Data
          /\ writer[h].received => received[h].data \in Data
    /\ net \in [Hosts -> [Hosts -> Seq(Data)]]
    /\ reading \in [Hosts -> [Hosts -> Data \cup {Nothing}]]
    /\ received \in [Hosts -> [data : Data \cup {Nothing}, from : Hosts]]
    /\ \A h \in Hosts : received[h].data \in Data => received[h].from # h
    /\ history \in [Hosts -> Seq(Data)]
    /\ \A h \in Hosts : net[h][h] = <<>> /\ Len(history[h]) <= Limit
    /\ copied \in [data : group.copies \cup {Nothing}, by : Hosts \cup {Nothing},
                   missed : BOOLEAN]

Init ==
    /\ group \in Groups
    /\ clip = [h \in Hosts |-> Nothing]
    /\ seen = [h \in Hosts |-> [f \in Formats |-> Nothing]]
    /\ queue = [h \in Hosts |-> [f \in Formats |-> <<>>]]
    /\ writer = [h \in Hosts |-> NoWriter]
    /\ net = [h \in Hosts |-> [g \in Hosts |-> <<>>]]
    /\ reading = [h \in Hosts |-> [g \in Hosts |-> Nothing]]
    /\ received = [h \in Hosts |-> [data |-> Nothing, from |-> h]]
    /\ history = [h \in Hosts |-> <<>>]
    /\ copied = [data |-> Nothing, by |-> Nothing, missed |-> FALSE]
-----------------------------------------------------------------------------
(* The system clipboard: what Read gives, and a write by anyone, which on  *)
(* Windows moves the sequence number the watchers look at.                 *)
Shows(h) == IF clip[h] # Nothing /\ os[h] = "windows" THEN Reencoded[clip[h]] ELSE clip[h]

Put(h, d) ==
    /\ clip' = [clip EXCEPT ![h] = d]
    /\ seen' = IF os[h] = "windows"
               THEN [seen EXCEPT ![h] = [f \in Formats |-> Nothing]] ELSE seen

(* The watcher for f has something to hand over.                           *)
News(h, f) ==
    /\ clip[h] # Nothing /\ Format(Shows(h)) = f
    /\ seen[h][f] # Shows(h)

(* A variant that does not keep what it has handed over.                   *)
WatchForgets(h, f) ==
    /\ clip[h] # Nothing /\ Format(Shows(h)) = f
    /\ Len(queue[h][f]) < 2
    /\ queue' = [queue EXCEPT ![h][f] = Append(@, Shows(h))]
    /\ UNCHANGED <<group, clip, seen, writer, net, reading, received, history, copied>>

(* Watch: once a second.  The channel has one place; while a second value  *)
(* waits the watcher does not look.                                        *)
Watch(h, f) ==
    /\ News(h, f)
    /\ Len(queue[h][f]) < 2
    /\ queue' = [queue EXCEPT ![h][f] = Append(@, Shows(h))]
    /\ seen' = [seen EXCEPT ![h][f] = Shows(h)]
    /\ UNCHANGED <<group, clip, writer, net, reading, received, history, copied>>

(* A variant that makes no room.                                           *)
AppendAll(list, d) == Append(list, d)

(* limitAppend: the oldest entry makes room.                               *)
LimitAppend(list, d) ==
    Append(IF Len(list) >= Limit THEN Tail(list) ELSE list, d)

IsReceived(h, d) == received[h].data = d

(* A variant that records nothing the user has copied.                     *)
WriterTakesUnrecorded(h, f) ==
    /\ writer[h] = NoWriter
    /\ queue[h][f] # <<>>
    /\ queue' = [queue EXCEPT ![h][f] = Tail(@)]
    /\ writer' = [writer EXCEPT ![h] =
          [data |-> Head(queue[h][f]),
           received |-> IsReceived(h, Head(queue[h][f])), to |-> Others(h)]]
    /\ UNCHANGED <<group, clip, seen, net, reading, received, history, copied>>

(* sendClipboard begins: data that is not to be sent is dropped; data that *)
(* was not received is the user's, and goes into the history.              *)
WriterTakes(h, f) ==
    LET d == Head(queue[h][f]) IN
    /\ writer[h] = NoWriter
    /\ queue[h][f] # <<>>
    /\ queue' = [queue EXCEPT ![h][f] = Tail(@)]
    /\ IF d \in Unsent
       THEN UNCHANGED <<writer, history>>
       ELSE /\ writer' = [writer EXCEPT ![h] =
                  [data |-> d, received |-> IsReceived(h, d), to |-> Others(h)]]
            /\ history' = IF IsReceived(h, d) THEN history
                          ELSE [history EXCEPT ![h] = LimitAppend(@, d)]
    /\ UNCHANGED <<group, clip, seen, net, reading, received, copied>>

(* A variant that passes nobody over.                                      *)
WriterSendsToAll(h, g) ==
    /\ g \in writer[h].to
    /\ writer' = [writer EXCEPT ![h] =
          IF @.to = {g} THEN NoWriter ELSE [@ EXCEPT !.to = writer[h].to \ {g}]]
    /\ net' = [net EXCEPT ![h][g] = Append(@, writer[h].data)]
    /\ UNCHANGED <<group, clip, seen, queue, reading, received, history, copied>>

(* A variant that passes the last sender over whatever it sends.           *)
WriterPassesOver(h, g) ==
    /\ g \in writer[h].to
    /\ writer' = [writer EXCEPT ![h] =
          IF @.to = {g} THEN NoWriter ELSE [@ EXCEPT !.to = writer[h].to \ {g}]]
    /\ net' = IF received[h].from = g THEN net
              ELSE [net EXCEPT ![h][g] = Append(@, writer[h].data)]
    /\ UNCHANGED <<group, clip, seen, queue, reading, received, history, copied>>

(* One turn of its loop over the devices, in the order of the map: the     *)
(* device that received data came from, by now, is passed over.            *)
WriterSends(h, g) ==
    /\ g \in writer[h].to
    /\ writer' = [writer EXCEPT ![h] =
          IF @.to = {g} THEN NoWriter ELSE [@ EXCEPT !.to = writer[h].to \ {g}]]
    /\ net' = IF writer[h].received /\ received[h].from = g THEN net
              ELSE [net EXCEPT ![h][g] = Append(@, writer[h].data)]
    /\ UNCHANGED <<group, clip, seen, queue, reading, received, history, copied>>

(* A reader takes a frame and begins WriteClipboard; file URI lists are    *)
(* left to the file clipboard.                                             *)
Receive(h, g) ==
    LET d == Head(net[g][h]) IN
    /\ net[g][h] # <<>>
    /\ reading[h][g] = Nothing
    /\ net' = [net EXCEPT ![g][h] = Tail(@)]
    /\ received' = [received EXCEPT ![h] = [data |-> d, from |-> g]]
    /\ history' = [history EXCEPT ![h] = LimitAppend(@, d)]
    /\ reading' = [reading EXCEPT ![h][g] = d]
    /\ UNCHANGED <<group, clip, seen, queue, writer, copied>>

(* The rest of WriteClipboard, after the history has been reported.        *)
WriteClipboard(h, g) ==
    /\ reading[h][g] # Nothing
    /\ Put(h, reading[h][g])
    /\ reading' = [reading EXCEPT ![h][g] = Nothing]
    /\ UNCHANGED <<group, queue, writer, net, received, history, copied>>
-----------------------------------------------------------------------------
(* Nothing is under way, and no watcher has anything to hand over.         *)
Quiet ==
    \A h \in Hosts :
        /\ writer[h] = NoWriter
        /\ \A f \in Formats : queue[h][f] = <<>> /\ ~News(h, f)
        /\ \A g \in Hosts : net[h][g] = <<>> /\ reading[h][g] = Nothing

(* A user copies, when the last copy has arrived.  It goes unnoticed if    *)
(* the watcher for its format has seen the same before; it is not sent if  *)
(* it is not to be, nor to the device that this host last received it from.*)
Copy(h, d) ==
    /\ Quiet
    /\ Put(h, d)
    /\ UNCHANGED <<group, queue, writer, net, reading, received, history>>
    /\ copied' = [data |-> d, by |-> h,
                  missed |-> \/ ~News(h, Format(d))'
                             \/ d \in Unsent \/ IsReceived(h, Shows(h)')]

Work(h) ==
    \/ \E f \in Formats : Watch(h, f) \/ WriterTakes(h, f)
    \/ \E g \in Others(h) : WriterSends(h, g) \/ Receive(h, g) \/ WriteClipboard(h, g)

Next == \E h \in Hosts : Work(h) \/ \E d \in group.copies : Copy(h, d)

(* The timers, the goroutines and the connections keep going.              *)
AllHosts == UNION {DOMAIN s.os : s \in Groups}
Fairness ==
    /\ \A h \in AllHosts, f \in Formats :
          WF_vars(h \in Hosts /\ Watch(h, f)) /\ WF_vars(h \in Hosts /\ WriterTakes(h, f))
    /\ \A h, g \in AllHosts :
          WF_vars({h, g} \subseteq Hosts /\ h # g
                  /\ (WriterSends(h, g) \/ Receive(h, g) \/ WriteClipboard(h, g)))

Spec == Init /\ [][Next]_vars /\ Fairness
-----------------------------------------------------------------------------
(* What the proofs rest on.                                                *)

(* No clipboard of the group converts what is copied: there is none of     *)
(* Windows, or only texts are copied.                                      *)
Unconverted ==
    \A h \in Hosts : os[h] = "windows" => \A d \in group.copies : Reencoded[d] = d

Looks(d) == IF d = Nothing THEN Nothing ELSE Reencoded[d]
Alike(d) == d = copied.data \/ (~Unconverted /\ Looks(d) = Looks(copied.data))

(* What h reads of d, and what it sends of the copy.                       *)
AsRead(h, d) == IF os[h] = "windows" THEN Reencoded[d] ELSE d
Sent(h) == AsRead(h, copied.data)

(* All that is under way is the last copy, or what it has been converted to.*)
Recorded(h) == history[h] # <<>> /\ Alike(Last(history[h]))

OnlyReported ==
    \A h \in Hosts : \A f \in Formats :
        /\ News(h, f) => Alike(clip[h])
        /\ \A i \in 1 .. Len(queue[h][f]) : Alike(queue[h][f][i])
OnlySent == \A h \in Hosts : writer[h].to # {} => Alike(writer[h].data)
OnlyInFrames ==
    \A h, g \in Hosts : \A i \in 1 .. Len(net[h][g]) : Alike(net[h][g][i])
OnlyArriving ==
    \A h, g \in Hosts : reading[h][g] # Nothing => Alike(reading[h][g]) /\ Recorded(h)
OnlyShown == copied.data = Nothing => \A h \in Hosts : clip[h] = Nothing

OnlyTheCopy == OnlyReported /\ OnlySent /\ OnlyInFrames /\ OnlyArriving /\ OnlyShown

(* The copy that was noticed is about to be taken by the writer of its     *)
(* host, and nothing else is under way; or each of the other hosts is yet  *)
(* to get it from there, or has recorded it and shows or will show it.     *)
Untaken ==
    LET a == copied.by IN
    /\ clip[a] = copied.data
    /\ Sent(a) \notin Unsent /\ ~IsReceived(a, Sent(a))
    /\ \E f \in Formats : News(a, f) \/ queue[a][f] # <<>>
    /\ \A f \in Formats : \A i \in 1 .. Len(queue[a][f]) : queue[a][f][i] = Sent(a)
    /\ \A h \in Hosts :
          /\ writer[h] = NoWriter
          /\ \A g \in Hosts : net[h][g] = <<>> /\ reading[h][g] = Nothing
          /\ h # a => \A f \in Formats : queue[h][f] = <<>> /\ ~News(h, f)

Comes(h) ==
    LET a == copied.by IN
    \/ h \in writer[a].to /\ ~writer[a].received
    \/ net[a][h] # <<>>
    \/ Recorded(h) /\ (Alike(clip[h]) \/ \E g \in Hosts : reading[h][g] # Nothing)

Spreads ==
    copied.data # Nothing /\ ~copied.missed =>
        /\ copied.by \in Hosts /\ Alike(clip[copied.by])
        /\ \/ Untaken
           \/ Recorded(copied.by) /\ \A h \in Others(copied.by) : Comes(h)

(* Of two hosts, a, whose user has copied, takes nothing but what it sends *)
(* for its user's; b reports what it reads of that, which it knows to be   *)
(* received unless it has converted it.                                    *)
SentOn(a, b) == AsRead(b, Sent(a))
Converted(a, b, v) == v = SentOn(a, b) /\ v # Sent(a)

ReportsOf(a, b) ==
    LET Known(v) == v = Sent(a) \/ (Converted(a, b, v) /\ IsReceived(a, v))
    IN  \A f \in Formats :
            /\ News(a, f) => Known(Shows(a))
            /\ \A i \in 1 .. Len(queue[a][f]) : Known(queue[a][f][i])

AnswersOf(a, b) ==
    \A f \in Formats :
        /\ News(b, f) => Shows(b) = SentOn(a, b)
        /\ \A i \in 1 .. Len(queue[b][f]) : queue[b][f][i] = SentOn(a, b)
        /\ News(b, f) \/ queue[b][f] # <<>> => IsReceived(b, Sent(a))

WritersOf(a, b) ==
    /\ writer[a].to # {} => writer[a].data = Sent(a) \/ writer[a].received
    /\ writer[b].to # {} => Converted(a, b, writer[b].data) \/ writer[b].received

FramesOf(a, b) ==
    /\ \A i \in 1 .. Len(net[a][b]) : net[a][b][i] = Sent(a)
    /\ \A i \in 1 .. Len(net[b][a]) : Converted(a, b, net[b][a][i])

ArrivalsOf(a, b) ==
    /\ reading[b][a] # Nothing => reading[b][a] = Sent(a) /\ IsReceived(b, Sent(a))
    /\ reading[a][b] # Nothing =>
          Converted(a, b, reading[a][b]) /\ IsReceived(a, reading[a][b])

OneWayOfTwo ==
    \A a, b \in Hosts : a # b /\ Hosts = {a, b} /\ copied.by = a =>
        /\ copied.data # Nothing
        /\ ReportsOf(a, b) /\ AnswersOf(a, b)
        /\ WritersOf(a, b) /\ FramesOf(a, b) /\ ArrivalsOf(a, b)

(* Two hosts send nothing back: what the user of one has copied does not   *)
(* come to it as a frame from the other (writer.go:86).  The re-encoded    *)
(* form of an image does, because it is not recognised as received.        *)
NoEcho ==
    \A h, g \in Hosts :
        Hosts = {h, g} /\ copied.by = g => \A i \in 1 .. Len(net[h][g]) : net[h][g][i] # copied.data

(* When all is quiet, the newest entry of every history is what the host   *)
(* shows: copies are recorded once by the sender and by each receiver,     *)
(* although the watchers of the receivers report them again.               *)
HistoryUpToDate ==
    Quiet /\ copied.data # Nothing /\ ~copied.missed =>
        \A h \in Hosts : history[h] # <<>> /\ Last(history[h]) = Shows(h)

(* Every copy stops going round, although every host that receives it      *)
(* passes it on: on Linux with any number of hosts, on Windows with two.   *)
Quiesces == []<>Quiet

(* Every host comes to show every copy that is noticed, and shows it until *)
(* the next one.                                                           *)
Promise == INSTANCE SharedClipboard WITH
    Host <- AllHosts, Value <- {Looks(d) : d \in Data} \cup {Nothing},
    value <- Looks(copied.data),
    shown <- {h \in AllHosts : h \in Hosts => Looks(clip[h]) = Looks(copied.data)},
    missed <- copied.missed
Shares == Promise!Spec
=============================================================================
