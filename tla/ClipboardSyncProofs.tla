------------------------ MODULE ClipboardSyncProofs ------------------------
(* Theorems about ClipboardSync for any groups of hosts, any data and any  *)
(* length of the history.                                                  *)
EXTENDS ClipboardSync, SequenceTheorems, TLAPS

(* An entry is recorded as the newest one, and the history stays short.    *)
LEMMA LimitAppended ==
    ASSUME NEW list \in Seq(Data), NEW d \in Data, Len(list) <= Limit
    PROVE  /\ LimitAppend(list, d) \in Seq(Data)
           /\ LimitAppend(list, d) # <<>>
           /\ Last(LimitAppend(list, d)) = d
           /\ Len(LimitAppend(list, d)) <= Limit
  <1> DEFINE kept == IF Len(list) >= Limit THEN Tail(list) ELSE list
  <1>1. Limit \in Nat \ {0} /\ Len(list) \in Nat
    BY SyncAssumption, LenProperties
  <1>2. kept \in Seq(Data) /\ Len(kept) < Limit
    <2>1. CASE Len(list) >= Limit
      <3>1. list # <<>>
        BY <1>1, <2>1, EmptySeq
      <3> QED
        BY <1>1, <2>1, <3>1, HeadTailProperties
    <2>2. CASE ~(Len(list) >= Limit)
      BY <1>1, <2>2
    <2> QED
      BY <2>1, <2>2
  <1> HIDE DEF kept
  <1>3. /\ Append(kept, d) \in Seq(Data) /\ Append(kept, d) # <<>>
        /\ Len(Append(kept, d)) = Len(kept) + 1
        /\ Append(kept, d)[Len(kept) + 1] = d
    BY <1>2, AppendProperties
  <1>4. Len(kept) \in Nat
    BY <1>2, LenProperties
  <1> QED
    BY <1>1, <1>2, <1>3, <1>4 DEF LimitAppend, kept, Last

(* Updates of functions and of functions of functions.                     *)
LEMMA Update1 ==
    ASSUME NEW X, NEW S, NEW F \in [X -> S], NEW x \in X, NEW v \in S,
           NEW G, G = [F EXCEPT ![x] = v]
    PROVE  /\ G \in [X -> S] /\ G[x] = v
           /\ \A k \in X : k # x => G[k] = F[k]
  OBVIOUS

LEMMA Update2 ==
    ASSUME NEW X, NEW Y, NEW S, NEW F \in [X -> [Y -> S]], NEW x \in X, NEW y \in Y,
           NEW v \in S, NEW G, G = [F EXCEPT ![x][y] = v]
    PROVE  /\ G \in [X -> [Y -> S]] /\ G[x][y] = v
           /\ \A k \in X, l \in Y : k # x \/ l # y => G[k][l] = F[k][l]
  OBVIOUS

(* What does not change with the connected hosts.                          *)
LEMMA SameHosts ==
    ASSUME group' = group
    PROVE  /\ os' = os /\ Hosts' = Hosts /\ \A h : Others(h)' = Others(h)
           /\ \A h, d : AsRead(h, d)' = AsRead(h, d)
           /\ Unconverted' <=> Unconverted
  BY DEF os, Hosts, Others, AsRead, Unconverted

(* What a clipboard shows.                                                 *)
LEMMA Shown ==
    ASSUME TypeOK, NEW h \in Hosts, clip[h] # Nothing
    PROVE  clip[h] \in Data /\ Shows(h) = AsRead(h, clip[h]) /\ Shows(h) \in Data
  <1>1. clip[h] \in Data
    BY DEF TypeOK
  <1> QED
    BY <1>1, SyncAssumption DEF Shows, AsRead, Data

(* A clipboard that is written; the others, and their watchers, see nothing*)
(* of it.                                                                  *)
LEMMA PutDoes ==
    ASSUME TypeOK, group' = group, NEW h \in Hosts, NEW d \in Data, Put(h, d)
    PROVE  /\ clip' \in [Hosts -> Data \cup {Nothing}]
           /\ seen' \in [Hosts -> [Formats -> Data \cup {Nothing}]]
           /\ clip'[h] = d /\ Shows(h)' = AsRead(h, d)
           /\ \A k \in Hosts : k # h =>
                 /\ clip'[k] = clip[k] /\ Shows(k)' = Shows(k)
                 /\ \A f \in Formats : News(k, f)' <=> News(k, f)
  <1>1. /\ clip \in [Hosts -> Data \cup {Nothing}]
        /\ seen \in [Hosts -> [Formats -> Data \cup {Nothing}]]
    BY DEF TypeOK
  <1>2. clip' = [clip EXCEPT ![h] = d]
    BY DEF Put
  <1>3. /\ clip' \in [Hosts -> Data \cup {Nothing}] /\ clip'[h] = d
        /\ \A k \in Hosts : k # h => clip'[k] = clip[k]
    BY <1>1, <1>2
  <1>4. /\ seen' \in [Hosts -> [Formats -> Data \cup {Nothing}]]
        /\ \A k \in Hosts : k # h => seen'[k] = seen[k]
    <2>1. CASE os[h] = "windows"
      <3> DEFINE none == [f \in Formats |-> Nothing]
      <3>1. seen' = [seen EXCEPT ![h] = none] /\ none \in [Formats -> Data \cup {Nothing}]
        BY <2>1 DEF Put
      <3> HIDE DEF none
      <3> QED
        BY <1>1, <3>1
    <2>2. CASE os[h] # "windows"
      BY <1>1, <2>2 DEF Put
    <2> QED
      BY <2>1, <2>2
  <1>5. Shows(h)' = AsRead(h, d)
    BY <1>3, SyncAssumption DEF Shows, AsRead, Data, os
  <1>6. ASSUME NEW k \in Hosts, k # h
        PROVE  /\ Shows(k)' = Shows(k)
               /\ \A f \in Formats : News(k, f)' <=> News(k, f)
    <2>1. clip'[k] = clip[k] /\ seen'[k] = seen[k]
      BY <1>3, <1>4, <1>6
    <2>2. Shows(k)' = Shows(k)
      BY <2>1 DEF Shows, os
    <2> QED
      BY <2>1, <2>2 DEF News
  <1> QED
    BY <1>3, <1>4, <1>5, <1>6

(* Watchers that see the same report the same.                             *)
LEMMA SameNews ==
    ASSUME group' = group, clip' = clip, NEW h
    PROVE  /\ Shows(h)' = Shows(h)
           /\ seen'[h] = seen[h] => \A f : News(h, f)' <=> News(h, f)
           /\ \A f : seen'[h][f] = seen[h][f] => (News(h, f)' <=> News(h, f))
  BY DEF Shows, News, os

(* What a queue holds after a value has been put in or taken out.          *)
LEMMA Appended ==
    ASSUME NEW S, NEW q \in Seq(S), NEW v \in S
    PROVE  /\ Append(q, v) \in Seq(S) /\ Append(q, v) # <<>>
           /\ Len(q) \in Nat /\ Len(Append(q, v)) = Len(q) + 1
           /\ \A i \in 1..Len(Append(q, v)) :
                 Append(q, v)[i] = v \/ \E j \in 1..Len(q) : Append(q, v)[i] = q[j]
  <1>1. Len(q) \in Nat
    BY LenProperties
  <1>2. /\ Append(q, v) \in Seq(S) /\ Append(q, v) # <<>>
        /\ Len(Append(q, v)) = Len(q) + 1
        /\ \A i \in 1..Len(q) : Append(q, v)[i] = q[i]
        /\ Append(q, v)[Len(q) + 1] = v
    BY AppendProperties
  <1>3. ASSUME NEW i \in 1..Len(Append(q, v))
        PROVE  Append(q, v)[i] = v \/ \E j \in 1..Len(q) : Append(q, v)[i] = q[j]
    <2>1. i \in 1..Len(q) \/ i = Len(q) + 1
      BY <1>1, <1>2
    <2> QED
      BY <1>2, <2>1
  <1> QED
    BY <1>1, <1>2, <1>3

LEMMA Taken ==
    ASSUME NEW S, NEW q \in Seq(S), q # <<>>
    PROVE  /\ Head(q) \in S /\ Tail(q) \in Seq(S)
           /\ \E j \in 1..Len(q) : Head(q) = q[j]
           /\ Len(q) \in Nat /\ Len(Tail(q)) = Len(q) - 1
           /\ \A i \in 1..Len(Tail(q)) : \E j \in 1..Len(q) : Tail(q)[i] = q[j]
  <1>1. Len(q) \in Nat \ {0}
    BY EmptySeq, LenProperties
  <1>2. /\ Head(q) \in S /\ Tail(q) \in Seq(S) /\ Len(Tail(q)) = Len(q) - 1
        /\ \A i \in 1..Len(Tail(q)) : Tail(q)[i] = q[i + 1]
    BY HeadTailProperties
  <1>3. ASSUME NEW i \in 1..Len(Tail(q))
        PROVE  \E j \in 1..Len(q) : Tail(q)[i] = q[j]
    <2>1. i + 1 \in 1..Len(q)
      BY <1>1, <1>2
    <2>2. Tail(q)[i] = q[i + 1]
      BY <1>2
    <2> QED
      BY <2>1, <2>2
  <1>4. 1 \in 1..Len(q) /\ Head(q) = q[1]
    <2>1. SubSeq(q, 1, Len(q)) = q
      BY SubSeqFull
    <2>2. Head(SubSeq(q, 1, Len(q))) = q[1]
      BY <1>1, HeadTailOfSubSeq
    <2> QED
      BY <1>1, <2>1, <2>2
  <1> QED
    BY <1>1, <1>2, <1>3, <1>4

-----------------------------------------------------------------------------
(* The steps, by the places they change.                                   *)
QueueType == [Hosts -> [Formats -> Seq(Data)]]
NetType == [Hosts -> [Hosts -> Seq(Data)]]
WriterType == [Hosts -> [data : Data \cup {Nothing}, received : BOOLEAN, to : SUBSET Hosts]]
ReadingType == [Hosts -> [Hosts -> Data \cup {Nothing}]]
ReceivedType == [Hosts -> [data : Data \cup {Nothing}, from : Hosts]]

LEMMA Typed ==
    ASSUME TypeOK
    PROVE  /\ queue \in QueueType /\ net \in NetType /\ writer \in WriterType
           /\ reading \in ReadingType /\ received \in ReceivedType
           /\ history \in [Hosts -> Seq(Data)]
           /\ \A h \in Hosts, g \in Hosts : net[h][g] \in Seq(Data)
           /\ \A h \in Hosts, f \in Formats : queue[h][f] \in Seq(Data)
           /\ \A h \in Hosts : /\ writer[h].to \subseteq Others(h)
                               /\ Len(history[h]) <= Limit
                               /\ history[h] \in Seq(Data)
  BY DEF TypeOK, QueueType, NetType, WriterType, ReadingType, ReceivedType, Others

LEMMA WatchDoes ==
    ASSUME TypeOK, NEW h \in Hosts, NEW f \in Formats, Watch(h, f)
    PROVE  /\ UNCHANGED <<group, clip, writer, net, reading, received, history, copied>>
           /\ News(h, f) /\ clip[h] # Nothing /\ Shows(h) \in Data
           /\ queue' \in QueueType
           /\ \A k \in Hosts, x \in Formats :
                 k # h \/ x # f => queue'[k][x] = queue[k][x]
           /\ Len(queue'[h][f]) <= 2 /\ queue'[h][f] # <<>>
           /\ \A i \in 1..Len(queue'[h][f]) :
                 \/ queue'[h][f][i] = Shows(h)
                 \/ \E j \in 1..Len(queue[h][f]) : queue'[h][f][i] = queue[h][f][j]
           /\ seen' \in [Hosts -> [Formats -> Data \cup {Nothing}]]
           /\ \A k \in Hosts : Shows(k)' = Shows(k)
           /\ \A k \in Hosts, x \in Formats : News(k, x)' => News(k, x)
  <1>1. /\ News(h, f) /\ clip[h] # Nothing /\ Len(queue[h][f]) < 2
        /\ queue' = [queue EXCEPT ![h][f] = Append(queue[h][f], Shows(h))]
        /\ seen' = [seen EXCEPT ![h][f] = Shows(h)]
        /\ UNCHANGED <<group, clip, writer, net, reading, received, history, copied>>
    BY DEF Watch, News
  <1>2. Shows(h) \in Data
    BY <1>1, Shown
  <1>3. queue \in QueueType /\ queue[h][f] \in Seq(Data)
    BY Typed
  <1>4. /\ Append(queue[h][f], Shows(h)) \in Seq(Data)
        /\ Append(queue[h][f], Shows(h)) # <<>>
        /\ Len(queue[h][f]) \in Nat
        /\ Len(Append(queue[h][f], Shows(h))) = Len(queue[h][f]) + 1
        /\ \A i \in 1..Len(Append(queue[h][f], Shows(h))) :
              \/ Append(queue[h][f], Shows(h))[i] = Shows(h)
              \/ \E j \in 1..Len(queue[h][f]) :
                    Append(queue[h][f], Shows(h))[i] = queue[h][f][j]
    BY <1>2, <1>3, Appended
  <1>5. /\ queue' \in QueueType
        /\ queue'[h][f] = Append(queue[h][f], Shows(h))
        /\ \A k \in Hosts, x \in Formats : k # h \/ x # f => queue'[k][x] = queue[k][x]
    BY <1>1, <1>3, <1>4, Update2 DEF QueueType
  <1>6. /\ seen' \in [Hosts -> [Formats -> Data \cup {Nothing}]]
        /\ seen'[h][f] = Shows(h)
        /\ \A k \in Hosts, x \in Formats : k # h \/ x # f => seen'[k][x] = seen[k][x]
    BY <1>1, <1>2, Update2 DEF TypeOK
  <1>7. \A k \in Hosts : Shows(k)' = Shows(k)
    BY <1>1, SameNews
  <1>8. ASSUME NEW k \in Hosts, NEW x \in Formats, News(k, x)' PROVE News(k, x)
    <2>1. CASE k # h \/ x # f
      <3>1. seen'[k][x] = seen[k][x]
        BY <1>6, <2>1
      <3> QED
        BY <1>1, <1>8, <3>1, SameNews
    <2>2. CASE k = h /\ x = f
      BY <1>1, <2>2
    <2> QED
      BY <2>1, <2>2
  <1>9. Len(queue'[h][f]) <= 2
    BY <1>1, <1>4, <1>5
  <1> QED
    BY <1>1, <1>2, <1>4, <1>5, <1>6, <1>7, <1>8, <1>9

LEMMA WriterTakesDoes ==
    ASSUME TypeOK, NEW h \in Hosts, NEW f \in Formats, WriterTakes(h, f)
    PROVE  /\ UNCHANGED <<group, clip, seen, net, reading, received, copied>>
           /\ writer[h] = NoWriter /\ queue[h][f] # <<>>
           /\ queue' \in QueueType
           /\ \A k \in Hosts, x \in Formats :
                 k # h \/ x # f => queue'[k][x] = queue[k][x]
           /\ Len(queue'[h][f]) <= 2
           /\ \A i \in 1..Len(queue'[h][f]) :
                 \E j \in 1..Len(queue[h][f]) : queue'[h][f][i] = queue[h][f][j]
           /\ history' \in [Hosts -> Seq(Data)] /\ Len(history'[h]) <= Limit
           /\ \A k \in Hosts : k # h => writer'[k] = writer[k] /\ history'[k] = history[k]
           /\ \E j \in 1..Len(queue[h][f]) :
                 /\ queue[h][f][j] \in Data
                 /\ \/ queue[h][f][j] \in Unsent /\ UNCHANGED <<writer, history>>
                    \/ /\ queue[h][f][j] \notin Unsent
                       /\ writer'[h] = [data |-> queue[h][f][j],
                                        received |-> IsReceived(h, queue[h][f][j]),
                                        to |-> Others(h)]
                       /\ IF IsReceived(h, queue[h][f][j])
                          THEN history' = history
                          ELSE history'[h] # <<>> /\ Last(history'[h]) = queue[h][f][j]
           /\ writer' \in WriterType
  <1> DEFINE d == Head(queue[h][f])
  <1>1. queue \in QueueType /\ queue[h][f] \in Seq(Data) /\ queue[h][f] # <<>>
    BY Typed DEF WriterTakes
  <1>2. /\ d \in Data /\ Tail(queue[h][f]) \in Seq(Data)
        /\ \E j \in 1..Len(queue[h][f]) : d = queue[h][f][j]
        /\ Len(queue[h][f]) \in Nat /\ Len(Tail(queue[h][f])) = Len(queue[h][f]) - 1
        /\ \A i \in 1..Len(Tail(queue[h][f])) :
              \E j \in 1..Len(queue[h][f]) : Tail(queue[h][f])[i] = queue[h][f][j]
    BY <1>1, Taken
  <1> HIDE DEF d
  <1>3. /\ writer[h] = NoWriter
        /\ queue' = [queue EXCEPT ![h][f] = Tail(queue[h][f])]
        /\ IF d \in Unsent
           THEN UNCHANGED <<writer, history>>
           ELSE /\ writer' = [writer EXCEPT ![h] =
                      [data |-> d, received |-> IsReceived(h, d), to |-> Others(h)]]
                /\ history' = IF IsReceived(h, d) THEN history
                              ELSE [history EXCEPT ![h] = LimitAppend(history[h], d)]
        /\ UNCHANGED <<group, clip, seen, net, reading, received, copied>>
    BY DEF WriterTakes, d
  <1>4. /\ queue' \in QueueType /\ queue'[h][f] = Tail(queue[h][f])
        /\ \A k \in Hosts, x \in Formats : k # h \/ x # f => queue'[k][x] = queue[k][x]
    BY <1>1, <1>2, <1>3, Update2 DEF QueueType
  <1>5. /\ Len(queue[h][f]) <= 2
        /\ history \in [Hosts -> Seq(Data)] /\ Len(history[h]) <= Limit
        /\ writer \in WriterType
    BY Typed DEF TypeOK
  <1>6. Len(queue'[h][f]) <= 2
    BY <1>2, <1>4, <1>5
  <1>7. /\ LimitAppend(history[h], d) \in Seq(Data)
        /\ LimitAppend(history[h], d) # <<>>
        /\ Last(LimitAppend(history[h], d)) = d
        /\ Len(LimitAppend(history[h], d)) <= Limit
    BY <1>2, <1>5, LimitAppended
  <1>8. CASE d \in Unsent
    <2>1. UNCHANGED <<writer, history>>
      BY <1>3, <1>8
    <2> QED
      BY <1>1, <1>2, <1>3, <1>4, <1>5, <1>6, <1>8, <2>1
  <1>9. CASE d \notin Unsent
    <2> DEFINE w == [data |-> d, received |-> IsReceived(h, d), to |-> Others(h)]
    <2>1. w \in [data : Data \cup {Nothing}, received : BOOLEAN, to : SUBSET Hosts]
      BY <1>2 DEF Others, IsReceived
    <2>2. writer' = [writer EXCEPT ![h] = w]
      BY <1>3, <1>9
    <2> HIDE DEF w
    <2>3. /\ writer' \in WriterType /\ writer'[h] = w
          /\ \A k \in Hosts : k # h => writer'[k] = writer[k]
      BY <1>5, <2>1, <2>2, Update1 DEF WriterType
    <2>4. CASE IsReceived(h, d)
      <3>1. history' = history
        BY <1>3, <1>9, <2>4
      <3>2. PICK j \in 1..Len(queue[h][f]) : d = queue[h][f][j]
        BY <1>2
      <3>3. /\ queue[h][f][j] \in Data /\ queue[h][f][j] \notin Unsent
            /\ writer'[h] = [data |-> queue[h][f][j],
                             received |-> IsReceived(h, queue[h][f][j]),
                             to |-> Others(h)]
            /\ IsReceived(h, queue[h][f][j])
        BY <1>2, <1>9, <2>3, <2>4, <3>2 DEF w
      <3>4. \E m \in 1..Len(queue[h][f]) :
               /\ queue[h][f][m] \in Data
               /\ \/ queue[h][f][m] \in Unsent /\ UNCHANGED <<writer, history>>
                  \/ /\ queue[h][f][m] \notin Unsent
                     /\ writer'[h] = [data |-> queue[h][f][m],
                                      received |-> IsReceived(h, queue[h][f][m]),
                                      to |-> Others(h)]
                     /\ IF IsReceived(h, queue[h][f][m])
                        THEN history' = history
                        ELSE history'[h] # <<>> /\ Last(history'[h]) = queue[h][f][m]
        BY <3>1, <3>3, Zenon
      <3>5. /\ history' \in [Hosts -> Seq(Data)] /\ Len(history'[h]) <= Limit
            /\ \A k \in Hosts : k # h => writer'[k] = writer[k] /\ history'[k] = history[k]
        BY <1>5, <2>3, <3>1
      <3>6. \A i \in 1..Len(queue'[h][f]) :
               \E m \in 1..Len(queue[h][f]) : queue'[h][f][i] = queue[h][f][m]
        BY <1>2, <1>4
      <3> QED
        BY <1>1, <1>3, <1>4, <1>6, <2>3, <3>4, <3>5, <3>6, Zenon
    <2>5. CASE ~IsReceived(h, d)
      <3>1. history' = [history EXCEPT ![h] = LimitAppend(history[h], d)]
        BY <1>3, <1>9, <2>5
      <3>2. /\ history' \in [Hosts -> Seq(Data)]
            /\ history'[h] = LimitAppend(history[h], d)
            /\ \A k \in Hosts : k # h => history'[k] = history[k]
        BY <1>5, <1>7, <3>1, Update1
      <3> QED
        BY <1>1, <1>2, <1>3, <1>4, <1>6, <1>7, <1>9, <2>3, <2>5, <3>2 DEF w
    <2> QED
      BY <2>4, <2>5
  <1> QED
    BY <1>8, <1>9

LEMMA WriterSendsDoes ==
    ASSUME TypeOK, NEW h \in Hosts, NEW g \in Hosts, WriterSends(h, g)
    PROVE  /\ UNCHANGED <<group, clip, seen, queue, reading, received, history, copied>>
           /\ g \in writer[h].to /\ writer[h].data \in Data /\ g # h
           /\ writer' \in WriterType
           /\ \A k \in Hosts : k # h => writer'[k] = writer[k]
           /\ writer'[h].to = writer[h].to \ {g}
           /\ writer'[h].to # {} => /\ writer'[h].data = writer[h].data
                                    /\ writer'[h].received = writer[h].received
           /\ writer'[h].received => writer[h].received
           /\ net' \in NetType
           /\ \A k, x \in Hosts : k # h \/ x # g => net'[k][x] = net[k][x]
           /\ \/ writer[h].received /\ received[h].from = g /\ net' = net
              \/ /\ ~(writer[h].received /\ received[h].from = g)
                 /\ net'[h][g] # <<>>
                 /\ \A i \in 1..Len(net'[h][g]) :
                       \/ net'[h][g][i] = writer[h].data
                       \/ \E j \in 1..Len(net[h][g]) : net'[h][g][i] = net[h][g][j]
  <1>1. /\ writer \in WriterType /\ net \in NetType /\ net[h][g] \in Seq(Data)
        /\ g \in writer[h].to /\ writer[h].data \in Data /\ g # h
    BY Typed DEF TypeOK, WriterSends
  <1> DEFINE w == IF writer[h].to = {g} THEN NoWriter
                  ELSE [writer[h] EXCEPT !.to = writer[h].to \ {g}]
  <1>2. /\ writer' = [writer EXCEPT ![h] = w]
        /\ net' = IF writer[h].received /\ received[h].from = g THEN net
                  ELSE [net EXCEPT ![h][g] = Append(net[h][g], writer[h].data)]
        /\ UNCHANGED <<group, clip, seen, queue, reading, received, history, copied>>
    <2>1. writer' = [writer EXCEPT ![h] = w]
      BY DEF WriterSends
    <2>2. net' = IF writer[h].received /\ received[h].from = g THEN net
                 ELSE [net EXCEPT ![h][g] = Append(net[h][g], writer[h].data)]
      BY DEF WriterSends
    <2>3. UNCHANGED <<group, clip, seen, queue, reading, received, history, copied>>
      BY DEF WriterSends
    <2> QED
      BY <2>1, <2>2, <2>3, Zenon
  <1>3. /\ w \in [data : Data \cup {Nothing}, received : BOOLEAN, to : SUBSET Hosts]
        /\ w.to = writer[h].to \ {g}
        /\ w.to # {} => w.data = writer[h].data /\ w.received = writer[h].received
        /\ w.received => writer[h].received
    <2>1. writer[h] \in [data : Data \cup {Nothing}, received : BOOLEAN, to : SUBSET Hosts]
      BY <1>1 DEF WriterType
    <2>2. CASE writer[h].to = {g}
      <3>1. w = NoWriter
        BY <2>2
      <3>2. writer[h].to \ {g} = {}
        BY <2>2
      <3> HIDE DEF w
      <3> QED
        BY <3>1, <3>2 DEF NoWriter
    <2>3. CASE writer[h].to # {g}
      <3>1. w = [writer[h] EXCEPT !.to = writer[h].to \ {g}]
        BY <2>3
      <3> HIDE DEF w
      <3> QED
        BY <2>1, <3>1
    <2> QED
      BY <2>2, <2>3
  <1> HIDE DEF w
  <1>4. /\ writer' \in WriterType /\ writer'[h] = w
        /\ \A k \in Hosts : k # h => writer'[k] = writer[k]
    BY <1>1, <1>2, <1>3, Update1 DEF WriterType
  <1>5. CASE writer[h].received /\ received[h].from = g
    <2>1. net' = net
      BY <1>2, <1>5
    <2> QED
      BY <1>1, <1>2, <1>3, <1>4, <1>5, <2>1
  <1>6. CASE ~(writer[h].received /\ received[h].from = g)
    <2>1. net' = [net EXCEPT ![h][g] = Append(net[h][g], writer[h].data)]
      BY <1>2, <1>6
    <2>2. /\ Append(net[h][g], writer[h].data) \in Seq(Data)
          /\ Append(net[h][g], writer[h].data) # <<>>
          /\ \A i \in 1..Len(Append(net[h][g], writer[h].data)) :
                \/ Append(net[h][g], writer[h].data)[i] = writer[h].data
                \/ \E j \in 1..Len(net[h][g]) :
                      Append(net[h][g], writer[h].data)[i] = net[h][g][j]
      <3> DEFINE q == net[h][g]
                 v == writer[h].data
      <3>1. q \in Seq(Data) /\ v \in Data
        BY <1>1
      <3> HIDE DEF q, v
      <3>2. /\ Append(q, v) \in Seq(Data) /\ Append(q, v) # <<>>
            /\ \A i \in 1..Len(Append(q, v)) :
                  Append(q, v)[i] = v \/ \E j \in 1..Len(q) : Append(q, v)[i] = q[j]
        BY <3>1, Appended
      <3> QED
        BY <3>2 DEF q, v
    <2>3. /\ net' \in NetType /\ net'[h][g] = Append(net[h][g], writer[h].data)
          /\ \A k \in Hosts, x \in Hosts : k # h \/ x # g => net'[k][x] = net[k][x]
      BY <1>1, <2>1, <2>2, Update2 DEF NetType
    <2> QED
      BY <1>1, <1>2, <1>3, <1>4, <1>6, <2>2, <2>3
  <1> QED
    BY <1>5, <1>6

(* What Receive does, for a frame that is one of those under way.          *)
ReceiveMoves(h, g) ==
    /\ UNCHANGED <<group, clip, seen, queue, writer, copied>>
    /\ net[g][h] # <<>> /\ reading[h][g] = Nothing
    /\ net' \in NetType
    /\ \A k, x \in Hosts : k # g \/ x # h => net'[k][x] = net[k][x]
    /\ \A i \in 1..Len(net'[g][h]) :
          \E j \in 1..Len(net[g][h]) : net'[g][h][i] = net[g][h][j]
    /\ received' \in ReceivedType /\ reading' \in ReadingType
    /\ history' \in [Hosts -> Seq(Data)] /\ Len(history'[h]) <= Limit
    /\ history'[h] # <<>>
    /\ \A k \in Hosts : k # h => /\ received'[k] = received[k]
                                 /\ history'[k] = history[k]
    /\ \A k, x \in Hosts : k # h \/ x # g => reading'[k][x] = reading[k][x]
    /\ received'[h].from = g
    /\ \E j \in 1..Len(net[g][h]) :
          /\ net[g][h][j] \in Data
          /\ received'[h].data = net[g][h][j]
          /\ Last(history'[h]) = net[g][h][j]
          /\ reading'[h][g] = net[g][h][j]

LEMMA ReceiveDoes ==
    ASSUME TypeOK, NEW h \in Hosts, NEW g \in Hosts, Receive(h, g), g # h
    PROVE  ReceiveMoves(h, g)
  <1> DEFINE d == Head(net[g][h])
  <1>1. /\ net \in NetType /\ net[g][h] \in Seq(Data) /\ net[g][h] # <<>>
        /\ received \in ReceivedType /\ reading \in ReadingType
        /\ history \in [Hosts -> Seq(Data)] /\ Len(history[h]) <= Limit
    BY Typed DEF Receive
  <1>2. /\ d \in Data /\ Tail(net[g][h]) \in Seq(Data)
        /\ \E j \in 1..Len(net[g][h]) : d = net[g][h][j]
        /\ \A i \in 1..Len(Tail(net[g][h])) :
              \E j \in 1..Len(net[g][h]) : Tail(net[g][h])[i] = net[g][h][j]
    BY <1>1, Taken
  <1> HIDE DEF d
  <1>3. /\ reading[h][g] = Nothing
        /\ net' = [net EXCEPT ![g][h] = Tail(net[g][h])]
        /\ received' = [received EXCEPT ![h] = [data |-> d, from |-> g]]
        /\ history' = [history EXCEPT ![h] = LimitAppend(history[h], d)]
        /\ reading' = [reading EXCEPT ![h][g] = d]
        /\ UNCHANGED <<group, clip, seen, queue, writer, copied>>
    BY DEF Receive, d
  <1>4. /\ net' \in NetType /\ net'[g][h] = Tail(net[g][h])
        /\ \A k \in Hosts, x \in Hosts : k # g \/ x # h => net'[k][x] = net[k][x]
    BY <1>1, <1>2, <1>3, Update2 DEF NetType
  <1>5. /\ reading' \in ReadingType /\ reading'[h][g] = d
        /\ \A k \in Hosts, x \in Hosts : k # h \/ x # g => reading'[k][x] = reading[k][x]
    BY <1>1, <1>2, <1>3, Update2 DEF ReadingType
  <1>6. [data |-> d, from |-> g] \in [data : Data \cup {Nothing}, from : Hosts]
    BY <1>2
  <1>7. /\ received' \in ReceivedType /\ received'[h].data = d /\ received'[h].from = g
        /\ \A k \in Hosts : k # h => received'[k] = received[k]
    BY <1>1, <1>3, <1>6, Update1 DEF ReceivedType
  <1>8. /\ LimitAppend(history[h], d) \in Seq(Data)
        /\ LimitAppend(history[h], d) # <<>>
        /\ Last(LimitAppend(history[h], d)) = d
        /\ Len(LimitAppend(history[h], d)) <= Limit
    BY <1>1, <1>2, LimitAppended
  <1>9. /\ history' \in [Hosts -> Seq(Data)] /\ history'[h] = LimitAppend(history[h], d)
        /\ \A k \in Hosts : k # h => history'[k] = history[k]
    BY <1>1, <1>3, <1>8, Update1
  <1>10. PICK j \in 1..Len(net[g][h]) : d = net[g][h][j]
    BY <1>2
  <1>11. \E m \in 1..Len(net[g][h]) :
            /\ net[g][h][m] \in Data
            /\ received'[h].data = net[g][h][m]
            /\ Last(history'[h]) = net[g][h][m]
            /\ reading'[h][g] = net[g][h][m]
    BY <1>2, <1>5, <1>7, <1>8, <1>9, <1>10
  <1>12. \A i \in 1..Len(net'[g][h]) :
            \E m \in 1..Len(net[g][h]) : net'[g][h][i] = net[g][h][m]
    BY <1>2, <1>4
  <1>13. history'[h] # <<>> /\ Len(history'[h]) <= Limit
    BY <1>8, <1>9
  <1> QED
    BY <1>1, <1>3, <1>4, <1>5, <1>7, <1>9, <1>11, <1>12, <1>13, Zenon
    DEF ReceiveMoves

LEMMA WriteDoes ==
    ASSUME TypeOK, NEW h \in Hosts, NEW g \in Hosts, WriteClipboard(h, g)
    PROVE  /\ UNCHANGED <<group, queue, writer, net, received, history, copied>>
           /\ reading[h][g] # Nothing /\ reading[h][g] \in Data
           /\ Put(h, reading[h][g])
           /\ reading' \in ReadingType /\ reading'[h][g] = Nothing
           /\ \A k, x \in Hosts : k # h \/ x # g => reading'[k][x] = reading[k][x]
  <1>1. reading \in ReadingType /\ Nothing \in Data \cup {Nothing}
    BY Typed
  <1>2. /\ reading[h][g] # Nothing /\ Put(h, reading[h][g])
        /\ reading' = [reading EXCEPT ![h][g] = Nothing]
        /\ UNCHANGED <<group, queue, writer, net, received, history, copied>>
    BY DEF WriteClipboard
  <1>3. /\ reading' \in ReadingType /\ reading'[h][g] = Nothing
        /\ \A k \in Hosts, x \in Hosts : k # h \/ x # g => reading'[k][x] = reading[k][x]
    BY <1>1, <1>2, Update2 DEF ReadingType
  <1> QED
    BY <1>1, <1>2, <1>3 DEF ReadingType

LEMMA CopyDoes ==
    ASSUME TypeOK, NEW h \in Hosts, NEW d \in group.copies, Copy(h, d)
    PROVE  /\ UNCHANGED <<group, queue, writer, net, reading, received, history>>
           /\ Quiet /\ d \in Data /\ Put(h, d)
           /\ copied'.data = d /\ copied'.by = h
           /\ copied'.missed = \/ ~News(h, Format(d))' \/ d \in Unsent
                               \/ IsReceived(h, Shows(h)')
           /\ copied' \in [data : group.copies \cup {Nothing}, by : Hosts \cup {Nothing},
                           missed : BOOLEAN]
  <1>1. group \in Groups
    BY DEF TypeOK
  <1>2. d \in Data
    BY <1>1, SyncAssumption DEF Data
  <1> QED
    BY <1>2 DEF Copy, News, IsReceived

(* Every step is one of these.                                             *)
LEMMA Steps ==
    ASSUME TypeOK, [Next]_vars
    PROVE  \/ \E h \in Hosts : \E f \in Formats : Watch(h, f)
           \/ \E h \in Hosts : \E f \in Formats : WriterTakes(h, f)
           \/ \E h \in Hosts : \E g \in Hosts : WriterSends(h, g)
           \/ \E h \in Hosts : \E g \in Hosts : g # h /\ Receive(h, g)
           \/ \E h \in Hosts : \E g \in Hosts : g # h /\ WriteClipboard(h, g)
           \/ \E h \in Hosts : \E d \in group.copies : Copy(h, d)
           \/ UNCHANGED vars
  BY DEF Next, Work, Others

-----------------------------------------------------------------------------
(* Type correctness.                                                       *)
LEMMA InitTyped ==
    ASSUME Init PROVE TypeOK
  <1>1. Limit \in Nat \ {0}
    BY SyncAssumption
  <1>2. /\ group \in Groups
        /\ clip = [h \in Hosts |-> Nothing]
        /\ seen = [h \in Hosts |-> [f \in Formats |-> Nothing]]
        /\ queue = [h \in Hosts |-> [f \in Formats |-> <<>>]]
        /\ writer = [h \in Hosts |-> NoWriter]
        /\ net = [h \in Hosts |-> [g \in Hosts |-> <<>>]]
        /\ reading = [h \in Hosts |-> [g \in Hosts |-> Nothing]]
        /\ received = [h \in Hosts |-> [data |-> Nothing, from |-> h]]
        /\ history = [h \in Hosts |-> <<>>]
        /\ copied = [data |-> Nothing, by |-> Nothing, missed |-> FALSE]
    BY DEF Init
  <1>3. \A S : <<>> \in Seq(S)
    OBVIOUS
  <1>4. Len(<<>>) = 0
    OBVIOUS
  <1>5. /\ queue \in [Hosts -> [Formats -> Seq(Data)]]
        /\ \A h \in Hosts : \A f \in Formats : Len(queue[h][f]) <= 2
    BY <1>2, <1>3, <1>4
  <1>6. /\ net \in [Hosts -> [Hosts -> Seq(Data)]]
        /\ history \in [Hosts -> Seq(Data)]
        /\ \A h \in Hosts : net[h][h] = <<>> /\ Len(history[h]) <= Limit
    BY <1>1, <1>2, <1>3, <1>4
  <1>7. /\ NoWriter \in [data : Data \cup {Nothing}, received : BOOLEAN, to : SUBSET Hosts]
        /\ NoWriter.to = {} /\ NoWriter.received = FALSE
    BY DEF NoWriter
  <1>8. /\ writer \in [Hosts -> [data : Data \cup {Nothing}, received : BOOLEAN,
                                to : SUBSET Hosts]]
        /\ \A h \in Hosts : writer[h] = NoWriter
    BY <1>2, <1>7
  <1>9. /\ received \in [Hosts -> [data : Data \cup {Nothing}, from : Hosts]]
        /\ \A h \in Hosts : received[h].data \notin Data
    BY <1>2, SyncAssumption DEF Data
  <1>10. /\ clip \in [Hosts -> Data \cup {Nothing}]
         /\ seen \in [Hosts -> [Formats -> Data \cup {Nothing}]]
         /\ reading \in [Hosts -> [Hosts -> Data \cup {Nothing}]]
         /\ copied \in [data : group.copies \cup {Nothing}, by : Hosts \cup {Nothing},
                        missed : BOOLEAN]
    BY <1>2
  <1> QED
    BY <1>2, <1>5, <1>6, <1>7, <1>8, <1>9, <1>10 DEF TypeOK

LEMMA TypeStep ==
    ASSUME TypeOK, [Next]_vars
    PROVE  TypeOK'
  <1>1. ASSUME NEW h \in Hosts, NEW f \in Formats, Watch(h, f) PROVE TypeOK'
    <2>1. /\ UNCHANGED <<group, clip, writer, net, reading, received, history, copied>>
          /\ queue' \in QueueType
          /\ \A k \in Hosts, x \in Formats : k # h \/ x # f => queue'[k][x] = queue[k][x]
          /\ Len(queue'[h][f]) <= 2
          /\ seen' \in [Hosts -> [Formats -> Data \cup {Nothing}]]
      BY <1>1, WatchDoes
    <2>2. \A k \in Hosts : \A x \in Formats : Len(queue'[k][x]) <= 2
      BY <2>1 DEF TypeOK
    <2> QED
      BY <2>1, <2>2, SameHosts
      DEF TypeOK, QueueType, NetType, WriterType, ReadingType, ReceivedType
  <1>2. ASSUME NEW h \in Hosts, NEW f \in Formats, WriterTakes(h, f) PROVE TypeOK'
    <2>1. /\ UNCHANGED <<group, clip, seen, net, reading, received, copied>>
          /\ writer[h] = NoWriter
          /\ queue' \in QueueType
          /\ \A k \in Hosts, x \in Formats : k # h \/ x # f => queue'[k][x] = queue[k][x]
          /\ Len(queue'[h][f]) <= 2
          /\ history' \in [Hosts -> Seq(Data)] /\ Len(history'[h]) <= Limit
          /\ \A k \in Hosts : k # h => writer'[k] = writer[k] /\ history'[k] = history[k]
          /\ writer' \in WriterType
      BY <1>2, WriterTakesDoes
    <2>2. PICK j \in 1..Len(queue[h][f]) :
             /\ queue[h][f][j] \in Data
             /\ \/ UNCHANGED writer
                \/ writer'[h] = [data |-> queue[h][f][j],
                                 received |-> IsReceived(h, queue[h][f][j]),
                                 to |-> Others(h)]
      BY <1>2, WriterTakesDoes
    <2>3. \A k \in Hosts : \A x \in Formats : Len(queue'[k][x]) <= 2
      BY <2>1 DEF TypeOK
    <2>4. /\ h \notin writer'[h].to
          /\ writer'[h].to # {} => writer'[h].data \in Data
          /\ writer'[h].received => received[h].data \in Data
      <3>1. CASE UNCHANGED writer
        BY <2>1, <3>1 DEF NoWriter
      <3>2. CASE writer'[h] = [data |-> queue[h][f][j],
                               received |-> IsReceived(h, queue[h][f][j]),
                               to |-> Others(h)]
        <4>1. /\ writer'[h].to = Others(h) /\ writer'[h].data = queue[h][f][j]
              /\ writer'[h].received = IsReceived(h, queue[h][f][j])
          BY <3>2
        <4> QED
          BY <2>2, <4>1 DEF Others, IsReceived
      <3> QED
        BY <2>2, <3>1, <3>2
    <2> QED
      BY <2>1, <2>3, <2>4, SameHosts
      DEF TypeOK, QueueType, NetType, WriterType, ReadingType, ReceivedType
  <1>3. ASSUME NEW h \in Hosts, NEW g \in Hosts, WriterSends(h, g) PROVE TypeOK'
    <2>1. /\ UNCHANGED <<group, clip, seen, queue, reading, received, history, copied>>
          /\ writer[h].data \in Data /\ g # h
          /\ writer' \in WriterType
          /\ \A k \in Hosts : k # h => writer'[k] = writer[k]
          /\ writer'[h].to = writer[h].to \ {g}
          /\ writer'[h].to # {} => writer'[h].data = writer[h].data
          /\ writer'[h].received => writer[h].received
          /\ net' \in NetType
          /\ \A k, x \in Hosts : k # h \/ x # g => net'[k][x] = net[k][x]
      BY <1>3, WriterSendsDoes
    <2>2. \A k \in Hosts : /\ k \notin writer'[k].to
                           /\ writer'[k].to # {} => writer'[k].data \in Data
                           /\ writer'[k].received => received[k].data \in Data
      BY <2>1 DEF TypeOK
    <2>3. ASSUME NEW k \in Hosts PROVE net'[k][k] = <<>>
      <3>1. net'[k][k] = net[k][k]
        <4>1. k # h \/ k # g
          BY <2>1
        <4> QED
          BY <2>1, <4>1
      <3> QED
        BY <3>1 DEF TypeOK
    <2> QED
      BY <2>1, <2>2, <2>3, SameHosts
      DEF TypeOK, QueueType, NetType, WriterType, ReadingType, ReceivedType
  <1>4. ASSUME NEW h \in Hosts, NEW g \in Hosts, g # h, Receive(h, g) PROVE TypeOK'
    <2>1. /\ UNCHANGED <<group, clip, seen, queue, writer, copied>>
          /\ net' \in NetType
          /\ \A k, x \in Hosts : k # g \/ x # h => net'[k][x] = net[k][x]
          /\ received' \in ReceivedType /\ reading' \in ReadingType
          /\ history' \in [Hosts -> Seq(Data)] /\ Len(history'[h]) <= Limit
          /\ \A k \in Hosts : k # h => /\ received'[k] = received[k]
                                       /\ history'[k] = history[k]
          /\ received'[h].from = g
          /\ \E j \in 1..Len(net[g][h]) :
                net[g][h][j] \in Data /\ received'[h].data = net[g][h][j]
      BY <1>4, ReceiveDoes DEF ReceiveMoves
    <2>2. received'[h].data \in Data
      BY <2>1
    <2>3. \A k \in Hosts : /\ received'[k].data \in Data => received'[k].from # k
                           /\ writer[k].received => received'[k].data \in Data
      BY <1>4, <2>1, <2>2 DEF TypeOK
    <2>4. ASSUME NEW k \in Hosts PROVE net'[k][k] = <<>> /\ Len(history'[k]) <= Limit
      <3>1. net'[k][k] = net[k][k]
        <4>1. k # g \/ k # h
          BY <1>4
        <4> QED
          BY <2>1, <4>1
      <3>2. CASE k = h
        BY <2>1, <3>1, <3>2 DEF TypeOK
      <3>3. CASE k # h
        BY <2>1, <3>1, <3>3 DEF TypeOK
      <3> QED
        BY <3>2, <3>3
    <2>5. /\ group' = group /\ clip' = clip /\ seen' = seen /\ queue' = queue
          /\ writer' = writer /\ copied' = copied /\ Hosts' = Hosts
      BY <2>1, SameHosts
    <2>6. \A k \in Hosts : /\ k \notin writer'[k].to
                           /\ writer'[k].to # {} => writer'[k].data \in Data
                           /\ writer'[k].received => received'[k].data \in Data
      BY <2>3, <2>5 DEF TypeOK
    <2>7. /\ group \in Groups
          /\ clip \in [Hosts -> Data \cup {Nothing}]
          /\ seen \in [Hosts -> [Formats -> Data \cup {Nothing}]]
          /\ queue \in [Hosts -> [Formats -> Seq(Data)]]
          /\ \A k \in Hosts : \A f \in Formats : Len(queue[k][f]) <= 2
          /\ writer \in [Hosts -> [data : Data \cup {Nothing}, received : BOOLEAN,
                                  to : SUBSET Hosts]]
          /\ copied \in [data : group.copies \cup {Nothing}, by : Hosts \cup {Nothing},
                         missed : BOOLEAN]
      BY DEF TypeOK
    <2>8. \A k \in Hosts : received'[k].data \in Data => received'[k].from # k
      BY <2>3
    <2> QED
      BY <2>1, <2>4, <2>5, <2>6, <2>7, <2>8 DEF TypeOK, NetType, ReadingType, ReceivedType
  <1>5. ASSUME NEW h \in Hosts, NEW g \in Hosts, WriteClipboard(h, g) PROVE TypeOK'
    <2>1. /\ UNCHANGED <<group, queue, writer, net, received, history, copied>>
          /\ reading[h][g] \in Data /\ Put(h, reading[h][g])
          /\ reading' \in ReadingType
      BY <1>5, WriteDoes
    <2>2. /\ clip' \in [Hosts -> Data \cup {Nothing}]
          /\ seen' \in [Hosts -> [Formats -> Data \cup {Nothing}]]
      BY <2>1, PutDoes
    <2> QED
      BY <2>1, <2>2, SameHosts
      DEF TypeOK, QueueType, NetType, WriterType, ReadingType, ReceivedType
  <1>6. ASSUME NEW h \in Hosts, NEW d \in group.copies, Copy(h, d) PROVE TypeOK'
    <2>1. /\ UNCHANGED <<group, queue, writer, net, reading, received, history>>
          /\ d \in Data /\ Put(h, d)
          /\ copied' \in [data : group.copies \cup {Nothing}, by : Hosts \cup {Nothing},
                          missed : BOOLEAN]
      BY <1>6, CopyDoes
    <2>2. /\ clip' \in [Hosts -> Data \cup {Nothing}]
          /\ seen' \in [Hosts -> [Formats -> Data \cup {Nothing}]]
      BY <2>1, PutDoes
    <2> QED
      BY <2>1, <2>2, SameHosts
      DEF TypeOK, QueueType, NetType, WriterType, ReadingType, ReceivedType
  <1>7. CASE UNCHANGED vars
    BY <1>7 DEF vars, Hosts, os, TypeOK
  <1> QED
    BY <1>1, <1>2, <1>3, <1>4, <1>5, <1>6, <1>7, Steps

(* The channels of the watchers hold no more than one value and one that   *)
(* waits, no history grows past max_history, and no host receives from     *)
(* itself or counts itself among those it sends to.                        *)
THEOREM TypeCorrect == Spec => []TypeOK
  BY InitTyped, TypeStep, PTL DEF Spec

-----------------------------------------------------------------------------
(* What goes between two hosts after one of them has copied.               *)
LEMMA Reread ==
    ASSUME NEW a \in Hosts, NEW b \in Hosts, copied.data \in Data
    PROVE  /\ Sent(a) \in Data /\ SentOn(a, b) \in Data
           /\ SentOn(a, b) # Sent(a) => Sent(a) = copied.data /\ os[a] # "windows"
           /\ AsRead(b, Sent(a)) = SentOn(a, b)
  <1>1. \A d \in Data : Reencoded[d] \in Data /\ Reencoded[Reencoded[d]] = Reencoded[d]
    BY SyncAssumption DEF Data
  <1> QED
    BY <1>1 DEF Sent, SentOn, AsRead

LEMMA SameCopy ==
    ASSUME group' = group, copied' = copied, NEW a, NEW b
    PROVE  /\ Sent(a)' = Sent(a) /\ SentOn(a, b)' = SentOn(a, b)
           /\ \A v : Converted(a, b, v)' <=> Converted(a, b, v)
  BY DEF Sent, SentOn, Converted, AsRead, os

LEMMA SameReports ==
    ASSUME group' = group, copied' = copied, NEW a, NEW b, ReportsOf(a, b),
           \A v : Converted(a, b, v) /\ IsReceived(a, v) => IsReceived(a, v)',
           Shows(a)' = Shows(a), queue'[a] = queue[a],
           \A f \in Formats : News(a, f)' => News(a, f)
    PROVE  ReportsOf(a, b)'
  BY SameCopy DEF ReportsOf

LEMMA SameAnswers ==
    ASSUME group' = group, copied' = copied, NEW a, NEW b, AnswersOf(a, b),
           IsReceived(b, Sent(a)) => IsReceived(b, Sent(a))',
           Shows(b)' = Shows(b), queue'[b] = queue[b],
           \A f \in Formats : News(b, f)' => News(b, f)
    PROVE  AnswersOf(a, b)'
  BY SameCopy DEF AnswersOf

LEMMA SameWriters ==
    ASSUME group' = group, copied' = copied, writer' = writer, NEW a, NEW b,
           WritersOf(a, b)
    PROVE  WritersOf(a, b)'
  BY SameCopy DEF WritersOf

LEMMA SameFrames ==
    ASSUME group' = group, copied' = copied, net' = net, NEW a, NEW b, FramesOf(a, b)
    PROVE  FramesOf(a, b)'
  BY SameCopy DEF FramesOf

LEMMA SameArrivals ==
    ASSUME group' = group, copied' = copied, reading' = reading, received' = received,
           NEW a, NEW b, ArrivalsOf(a, b)
    PROVE  ArrivalsOf(a, b)'
  BY SameCopy DEF ArrivalsOf, IsReceived

(* A step of one of the two hosts after the copy.                          *)
LEMMA OneWayWatch ==
    ASSUME TypeOK, NEW a \in Hosts, NEW b \in Hosts, a # b, copied.by = a,
           ReportsOf(a, b), AnswersOf(a, b),
           NEW h \in {a, b}, NEW f \in Formats, Watch(h, f)
    PROVE  ReportsOf(a, b)' /\ AnswersOf(a, b)'
  <1>1. /\ UNCHANGED <<group, clip, writer, net, reading, received, history, copied>>
        /\ News(h, f)
        /\ queue' \in QueueType
        /\ \A k \in Hosts, x \in Formats : k # h \/ x # f => queue'[k][x] = queue[k][x]
        /\ \A i \in 1..Len(queue'[h][f]) :
              \/ queue'[h][f][i] = Shows(h)
              \/ \E j \in 1..Len(queue[h][f]) : queue'[h][f][i] = queue[h][f][j]
        /\ \A k \in Hosts : Shows(k)' = Shows(k)
        /\ \A k \in Hosts, x \in Formats : News(k, x)' => News(k, x)
    BY WatchDoes
  <1>2. /\ \A v : Converted(a, b, v)' <=> Converted(a, b, v)
        /\ Sent(a)' = Sent(a) /\ SentOn(a, b)' = SentOn(a, b)
        /\ \A k, v : IsReceived(k, v)' <=> IsReceived(k, v)
    BY <1>1, SameCopy DEF IsReceived
  <1>3. \A k \in Hosts : k # h => queue'[k] = queue[k]
    BY <1>1, Typed DEF QueueType
  <1>4. CASE h = a
    <2>1. AnswersOf(a, b)'
      BY <1>1, <1>2, <1>3, <1>4, SameAnswers
    <2>2. ASSUME NEW x \in Formats
          PROVE  /\ News(a, x)' => \/ Shows(a)' = Sent(a)'
                                   \/ Converted(a, b, Shows(a))' /\ IsReceived(a, Shows(a))'
                 /\ \A i \in 1..Len(queue'[a][x]) :
                       \/ queue'[a][x][i] = Sent(a)'
                       \/ /\ Converted(a, b, queue'[a][x][i])
                          /\ IsReceived(a, queue'[a][x][i])
      <3>1. CASE x = f
        BY <1>1, <1>2, <1>4, <3>1 DEF ReportsOf, IsReceived, Converted
      <3>2. CASE x # f
        BY <1>1, <1>2, <1>4, <3>2 DEF ReportsOf, IsReceived, Converted
      <3> QED
        BY <3>1, <3>2
    <2> QED
      BY <1>2, <2>1, <2>2 DEF ReportsOf, IsReceived, Converted
  <1>5. CASE h = b
    <2>1. ReportsOf(a, b)'
      BY <1>1, <1>2, <1>3, <1>5, SameReports
    <2>2. ASSUME NEW x \in Formats
          PROVE  /\ News(b, x)' => Shows(b)' = SentOn(a, b)
                 /\ \A i \in 1..Len(queue'[b][x]) : queue'[b][x][i] = SentOn(a, b)
                 /\ News(b, x)' \/ queue'[b][x] # <<>> => IsReceived(b, Sent(a))
      BY <1>1, <1>5 DEF AnswersOf
    <2> QED
      BY <1>2, <2>1, <2>2 DEF AnswersOf, IsReceived
  <1> QED
    BY <1>4, <1>5

LEMMA OneWayTakes ==
    ASSUME TypeOK, NEW a \in Hosts, NEW b \in Hosts, a # b, copied.by = a,
           ReportsOf(a, b), AnswersOf(a, b), WritersOf(a, b),
           NEW h \in {a, b}, NEW f \in Formats, WriterTakes(h, f)
    PROVE  ReportsOf(a, b)' /\ AnswersOf(a, b)' /\ WritersOf(a, b)'
  <1> h \in Hosts
    OBVIOUS
  <1>1. /\ UNCHANGED <<group, clip, seen, net, reading, received, copied>>
        /\ writer[h] = NoWriter /\ queue[h][f] # <<>>
        /\ queue' \in QueueType
        /\ \A k \in Hosts, x \in Formats : k # h \/ x # f => queue'[k][x] = queue[k][x]
        /\ \A i \in 1..Len(queue'[h][f]) :
              \E j \in 1..Len(queue[h][f]) : queue'[h][f][i] = queue[h][f][j]
        /\ \A k \in Hosts : k # h => writer'[k] = writer[k]
    BY WriterTakesDoes
  <1>2. PICK j \in 1..Len(queue[h][f]) :
           \/ writer' = writer
           \/ writer'[h] = [data |-> queue[h][f][j],
                            received |-> IsReceived(h, queue[h][f][j]),
                            to |-> Others(h)]
    <2>1. \E j \in 1..Len(queue[h][f]) :
             /\ queue[h][f][j] \in Data
             /\ \/ queue[h][f][j] \in Unsent /\ UNCHANGED <<writer, history>>
                \/ /\ queue[h][f][j] \notin Unsent
                   /\ writer'[h] = [data |-> queue[h][f][j],
                                    received |-> IsReceived(h, queue[h][f][j]),
                                    to |-> Others(h)]
                   /\ IF IsReceived(h, queue[h][f][j])
                      THEN history' = history
                      ELSE history'[h] # <<>> /\ Last(history'[h]) = queue[h][f][j]
      BY WriterTakesDoes, Zenon
    <2> QED
      BY <2>1
  <1>3. /\ \A v : Converted(a, b, v)' <=> Converted(a, b, v)
        /\ Sent(a)' = Sent(a) /\ SentOn(a, b)' = SentOn(a, b)
        /\ \A k, v : IsReceived(k, v)' <=> IsReceived(k, v)
    BY <1>1, SameCopy DEF IsReceived
  <1>4. \A k \in Hosts : Shows(k)' = Shows(k) /\ \A x : News(k, x)' <=> News(k, x)
    BY <1>1, SameNews
  <1>5. \A k \in Hosts : k # h => queue'[k] = queue[k]
    BY <1>1, Typed DEF QueueType
  <1>6. CASE h = a
    <2>1. AnswersOf(a, b)'
      BY <1>1, <1>3, <1>4, <1>5, <1>6, SameAnswers
    <2>2. ASSUME NEW x \in Formats
          PROVE  /\ News(a, x)' => \/ Shows(a)' = Sent(a)
                                   \/ Converted(a, b, Shows(a)') /\ IsReceived(a, Shows(a)')
                 /\ \A i \in 1..Len(queue'[a][x]) :
                       \/ queue'[a][x][i] = Sent(a)
                       \/ /\ Converted(a, b, queue'[a][x][i])
                          /\ IsReceived(a, queue'[a][x][i])
      <3>1. CASE x = f
        BY <1>1, <1>4, <1>6, <3>1 DEF ReportsOf, IsReceived, Converted
      <3>2. CASE x # f
        BY <1>1, <1>4, <1>6, <3>2 DEF ReportsOf, IsReceived, Converted
      <3> QED
        BY <3>1, <3>2
    <2>3. \/ writer'[a] = writer[a]
          \/ /\ writer'[a].data = queue[a][f][j]
             /\ writer'[a].received = IsReceived(a, queue[a][f][j])
      BY <1>2, <1>6
    <2>4. queue[a][f][j] = Sent(a) \/ IsReceived(a, queue[a][f][j])
      BY <1>6 DEF ReportsOf
    <2>5. writer'[a].to # {} => writer'[a].data = Sent(a) \/ writer'[a].received
      BY <2>3, <2>4 DEF WritersOf
    <2>6. writer'[b] = writer[b]
      BY <1>1, <1>6
    <2>7. WritersOf(a, b)'
      BY <1>3, <2>5, <2>6 DEF WritersOf
    <2>8. ReportsOf(a, b)'
      BY <1>1, <1>3, <2>2 DEF ReportsOf, IsReceived, Converted
    <2> QED
      BY <2>1, <2>7, <2>8
  <1>7. CASE h = b
    <2>1. ReportsOf(a, b)'
      BY <1>1, <1>3, <1>4, <1>5, <1>7, SameReports
    <2>2. ASSUME NEW x \in Formats
          PROVE  /\ News(b, x)' => Shows(b)' = SentOn(a, b)
                 /\ \A i \in 1..Len(queue'[b][x]) : queue'[b][x][i] = SentOn(a, b)
                 /\ News(b, x)' \/ queue'[b][x] # <<>> => IsReceived(b, Sent(a))
      BY <1>1, <1>4, <1>7 DEF AnswersOf
    <2>3. AnswersOf(a, b)'
      BY <1>1, <1>3, <2>2 DEF AnswersOf, IsReceived
    <2>4. \/ writer'[b] = writer[b]
          \/ /\ writer'[b].data = queue[b][f][j]
             /\ writer'[b].received = IsReceived(b, queue[b][f][j])
      BY <1>2, <1>7
    <2>5. queue[b][f][j] = SentOn(a, b) /\ IsReceived(b, Sent(a))
      BY <1>1, <1>7 DEF AnswersOf
    <2>6. Converted(a, b, queue[b][f][j]) \/ IsReceived(b, queue[b][f][j])
      BY <2>5 DEF Converted
    <2>7. writer'[b].to # {} => Converted(a, b, writer'[b].data) \/ writer'[b].received
      BY <2>4, <2>6 DEF WritersOf
    <2>8. writer'[a] = writer[a]
      BY <1>1, <1>7
    <2>9. WritersOf(a, b)'
      BY <1>3, <2>7, <2>8 DEF WritersOf, Converted
    <2> QED
      BY <2>1, <2>3, <2>9
  <1> QED
    BY <1>6, <1>7

LEMMA OneWaySends ==
    ASSUME TypeOK, NEW a \in Hosts, NEW b \in Hosts, a # b, \A k \in Hosts : k \in {a, b},
           copied.by = a,
           WritersOf(a, b), FramesOf(a, b),
           NEW h \in Hosts, NEW g \in Hosts, WriterSends(h, g)
    PROVE  WritersOf(a, b)' /\ FramesOf(a, b)'
  <1>1. /\ UNCHANGED <<group, clip, seen, queue, reading, received, history, copied>>
        /\ g \in writer[h].to /\ g # h
        /\ \A k \in Hosts : k # h => writer'[k] = writer[k]
        /\ writer'[h].to = writer[h].to \ {g}
        /\ writer'[h].to # {} => /\ writer'[h].data = writer[h].data
                                 /\ writer'[h].received = writer[h].received
        /\ \A k, x \in Hosts : k # h \/ x # g => net'[k][x] = net[k][x]
        /\ \/ writer[h].received /\ received[h].from = g /\ net' = net
           \/ /\ ~(writer[h].received /\ received[h].from = g)
              /\ \A i \in 1..Len(net'[h][g]) :
                    \/ net'[h][g][i] = writer[h].data
                    \/ \E j \in 1..Len(net[h][g]) : net'[h][g][i] = net[h][g][j]
    BY WriterSendsDoes
  <1>2. /\ \A v : Converted(a, b, v)' <=> Converted(a, b, v)
        /\ Sent(a)' = Sent(a)
    BY <1>1, SameCopy
  <1>3. writer[h].received => received[h].from = g
    <2>1. writer[h].received => received[h].from # h /\ received[h].from \in Hosts
      BY DEF TypeOK
    <2> QED
      BY <1>1, <2>1
  <1>4. WritersOf(a, b)'
    <2>1. writer'[a].to # {} => writer'[a].data = Sent(a) \/ writer'[a].received
      BY <1>1 DEF WritersOf
    <2>2. writer'[b].to # {} => Converted(a, b, writer'[b].data) \/ writer'[b].received
      BY <1>1 DEF WritersOf
    <2> QED
      BY <1>2, <2>1, <2>2 DEF WritersOf, Converted
  <1>5. CASE net' = net
    BY <1>1, <1>4, <1>5, SameFrames
  <1>6. CASE /\ ~writer[h].received
             /\ \A i \in 1..Len(net'[h][g]) :
                   \/ net'[h][g][i] = writer[h].data
                   \/ \E j \in 1..Len(net[h][g]) : net'[h][g][i] = net[h][g][j]
    <2>1. CASE h = a
      <3>1. g = b /\ writer[a].data = Sent(a)
        BY <1>1, <1>6, <2>1 DEF WritersOf
      <3>2. net'[b][a] = net[b][a]
        BY <1>1, <2>1
      <3>3. \A i \in 1..Len(net'[a][b]) : net'[a][b][i] = Sent(a)
        BY <1>6, <2>1, <3>1 DEF FramesOf
      <3>4. \A i \in 1..Len(net'[b][a]) : Converted(a, b, net'[b][a][i])
        BY <3>2 DEF FramesOf
      <3>5. FramesOf(a, b)'
        BY <1>2, <3>3, <3>4 DEF FramesOf, Converted
      <3> QED
        BY <1>4, <3>5
    <2>2. CASE h = b
      <3>1. g = a /\ Converted(a, b, writer[b].data)
        BY <1>1, <1>6, <2>2 DEF WritersOf
      <3>2. net'[a][b] = net[a][b]
        BY <1>1, <2>2
      <3>3. \A i \in 1..Len(net'[a][b]) : net'[a][b][i] = Sent(a)
        BY <3>2 DEF FramesOf
      <3>4. \A i \in 1..Len(net'[b][a]) : Converted(a, b, net'[b][a][i])
        BY <1>6, <2>2, <3>1 DEF FramesOf
      <3>5. FramesOf(a, b)'
        BY <1>2, <3>3, <3>4 DEF FramesOf, Converted
      <3> QED
        BY <1>4, <3>5
    <2> QED
      BY <2>1, <2>2
  <1> QED
    BY <1>1, <1>3, <1>5, <1>6

LEMMA OneWayReceives ==
    ASSUME TypeOK, NEW a \in Hosts, NEW b \in Hosts, a # b, \A k \in Hosts : k \in {a, b},
           copied.by = a,
           ReportsOf(a, b), AnswersOf(a, b), WritersOf(a, b), FramesOf(a, b), ArrivalsOf(a, b),
           NEW h \in Hosts, NEW g \in Hosts, g # h, Receive(h, g)
    PROVE  /\ ReportsOf(a, b)' /\ AnswersOf(a, b)'
           /\ WritersOf(a, b)' /\ FramesOf(a, b)' /\ ArrivalsOf(a, b)'
  <1>0. ReceiveMoves(h, g)
    BY ReceiveDoes
  <1>1. /\ UNCHANGED <<group, clip, seen, queue, writer, copied>>
        /\ \A k, x \in Hosts : k # g \/ x # h => net'[k][x] = net[k][x]
        /\ \A i \in 1..Len(net'[g][h]) :
              \E j \in 1..Len(net[g][h]) : net'[g][h][i] = net[g][h][j]
        /\ \A k \in Hosts : k # h => received'[k] = received[k]
        /\ \A k, x \in Hosts : k # h \/ x # g => reading'[k][x] = reading[k][x]
    BY <1>0 DEF ReceiveMoves
  <1>2. PICK j \in 1..Len(net[g][h]) :
              received'[h].data = net[g][h][j] /\ reading'[h][g] = net[g][h][j]
    <2>1. \E j \in 1..Len(net[g][h]) :
             /\ net[g][h][j] \in Data
             /\ received'[h].data = net[g][h][j]
             /\ Last(history'[h]) = net[g][h][j]
             /\ reading'[h][g] = net[g][h][j]
      BY <1>0, Zenon DEF ReceiveMoves
    <2> QED
      BY <2>1
  <1>3. /\ \A v : Converted(a, b, v)' <=> Converted(a, b, v)
        /\ Sent(a)' = Sent(a) /\ SentOn(a, b)' = SentOn(a, b)
    <2>1. group' = group /\ copied' = copied
      BY <1>1
    <2> QED
      BY <2>1, SameCopy
  <1>4. \A k \in Hosts : Shows(k)' = Shows(k) /\ \A x : News(k, x)' <=> News(k, x)
    BY <1>1, SameNews
  <1>5. WritersOf(a, b)'
    BY <1>1, SameWriters
  <1>6. CASE h = a
    <2>1. g = b
      BY <1>6
    <2>2. Converted(a, b, net[b][a][j])
      BY <1>6, <2>1 DEF FramesOf
    <2>3. received'[a].data = SentOn(a, b)
      BY <1>2, <1>6, <2>1, <2>2 DEF Converted
    <2>4. ReportsOf(a, b)'
      BY <1>1, <1>4, <2>3, SameReports DEF Converted, IsReceived
    <2>5. AnswersOf(a, b)'
      BY <1>1, <1>3, <1>4, <1>6, SameAnswers DEF IsReceived
    <2>6. \A i \in 1..Len(net'[b][a]) : Converted(a, b, net'[b][a][i])
      BY <1>1, <1>6, <2>1 DEF FramesOf
    <2>7. \A i \in 1..Len(net'[a][b]) : net'[a][b][i] = Sent(a)
      <3>1. net'[a][b] = net[a][b]
        BY <1>1, <1>6
      <3> QED
        BY <3>1 DEF FramesOf
    <2>8. FramesOf(a, b)'
      BY <1>3, <2>6, <2>7 DEF FramesOf, Converted
    <2>9. reading'[b][a] = reading[b][a] /\ received'[b] = received[b]
      BY <1>1, <1>6
    <2>10. Converted(a, b, reading'[a][b]) /\ received'[a].data = reading'[a][b]
      BY <1>2, <1>6, <2>1, <2>2
    <2>11. ArrivalsOf(a, b)'
      BY <1>3, <2>9, <2>10 DEF ArrivalsOf, Converted, IsReceived
    <2> QED
      BY <1>5, <2>4, <2>5, <2>8, <2>11
  <1>7. CASE h = b
    <2>1. g = a
      BY <1>7
    <2>2. net[a][b][j] = Sent(a)
      BY <1>7, <2>1 DEF FramesOf
    <2>3. received'[b].data = Sent(a) /\ reading'[b][a] = Sent(a)
      BY <1>2, <1>7, <2>1, <2>2
    <2>4. ReportsOf(a, b)'
      BY <1>1, <1>4, <1>7, SameReports DEF IsReceived
    <2>5. AnswersOf(a, b)'
      BY <1>1, <1>3, <1>4, <2>3, SameAnswers DEF IsReceived
    <2>6. \A i \in 1..Len(net'[a][b]) : net'[a][b][i] = Sent(a)
      BY <1>1, <1>7, <2>1 DEF FramesOf
    <2>7. \A i \in 1..Len(net'[b][a]) : Converted(a, b, net'[b][a][i])
      <3>1. net'[b][a] = net[b][a]
        BY <1>1, <1>7
      <3> QED
        BY <3>1 DEF FramesOf
    <2>8. FramesOf(a, b)'
      BY <1>3, <2>6, <2>7 DEF FramesOf, Converted
    <2>9. reading'[a][b] = reading[a][b] /\ received'[a] = received[a]
      BY <1>1, <1>7
    <2>10. ArrivalsOf(a, b)'
      BY <1>3, <2>3, <2>9 DEF ArrivalsOf, Converted, IsReceived
    <2> QED
      BY <1>5, <2>4, <2>5, <2>8, <2>10
  <1> QED
    BY <1>6, <1>7

LEMMA OneWayWrites ==
    ASSUME TypeOK, NEW a \in Hosts, NEW b \in Hosts, a # b, \A k \in Hosts : k \in {a, b},
           copied.by = a,
           copied.data \in Data,
           ReportsOf(a, b), AnswersOf(a, b), WritersOf(a, b), FramesOf(a, b), ArrivalsOf(a, b),
           NEW h \in Hosts, NEW g \in Hosts, g # h, WriteClipboard(h, g)
    PROVE  /\ ReportsOf(a, b)' /\ AnswersOf(a, b)'
           /\ WritersOf(a, b)' /\ FramesOf(a, b)' /\ ArrivalsOf(a, b)'
  <1>1. /\ UNCHANGED <<group, queue, writer, net, received, history, copied>>
        /\ reading[h][g] # Nothing /\ reading[h][g] \in Data
        /\ Put(h, reading[h][g])
        /\ reading'[h][g] = Nothing
        /\ \A k, x \in Hosts : k # h \/ x # g => reading'[k][x] = reading[k][x]
    BY WriteDoes
  <1>2. /\ Shows(h)' = AsRead(h, reading[h][g])
        /\ \A k \in Hosts : k # h =>
              /\ Shows(k)' = Shows(k)
              /\ \A f \in Formats : News(k, f)' <=> News(k, f)
    BY <1>1, PutDoes
  <1>3. /\ \A v : Converted(a, b, v)' <=> Converted(a, b, v)
        /\ Sent(a)' = Sent(a) /\ SentOn(a, b)' = SentOn(a, b)
        /\ \A k, v : IsReceived(k, v)' <=> IsReceived(k, v)
    BY <1>1, SameCopy DEF IsReceived
  <1>4. WritersOf(a, b)' /\ FramesOf(a, b)'
    BY <1>1, SameWriters, SameFrames
  <1>5. ArrivalsOf(a, b)'
    <2>1. \A k, x \in Hosts : reading'[k][x] # Nothing => reading'[k][x] = reading[k][x]
      BY <1>1
    <2> QED
      BY <1>3, <2>1 DEF ArrivalsOf, Converted, IsReceived
  <1>6. CASE h = a
    <2>1. /\ g = b /\ Converted(a, b, reading[a][b])
          /\ IsReceived(a, reading[a][b])
      BY <1>1, <1>6 DEF ArrivalsOf
    <2>2. AsRead(a, reading[a][b]) = reading[a][b]
      BY <2>1, Reread DEF AsRead, Converted
    <2>3. Shows(a)' = reading[a][b]
      BY <1>2, <1>6, <2>1, <2>2
    <2>4. ReportsOf(a, b)'
      BY <1>1, <1>3, <2>1, <2>3 DEF ReportsOf, Converted, IsReceived
    <2>5. AnswersOf(a, b)'
      BY <1>1, <1>2, <1>3, <1>6, SameAnswers
    <2> QED
      BY <1>4, <1>5, <2>4, <2>5
  <1>7. CASE h = b
    <2>1. g = a /\ reading[b][a] = Sent(a) /\ IsReceived(b, Sent(a))
      BY <1>1, <1>7 DEF ArrivalsOf
    <2>2. Shows(b)' = SentOn(a, b)
      BY <1>2, <1>7, <2>1 DEF SentOn
    <2>3. ReportsOf(a, b)'
      BY <1>1, <1>2, <1>3, <1>7, SameReports
    <2>4. AnswersOf(a, b)'
      BY <1>1, <1>3, <2>1, <2>2 DEF AnswersOf, IsReceived
    <2> QED
      BY <1>4, <1>5, <2>3, <2>4
  <1> QED
    BY <1>6, <1>7

(* A copy, when nothing is under way.                                      *)
LEMMA QuietHosts ==
    ASSUME Quiet, NEW h \in Hosts
    PROVE  /\ writer[h] = NoWriter /\ writer[h].to = {}
           /\ \A f \in Formats : queue[h][f] = <<>> /\ ~News(h, f)
           /\ \A g \in Hosts : net[h][g] = <<>> /\ reading[h][g] = Nothing
  <1>1. /\ writer[h] = NoWriter
        /\ \A f \in Formats : queue[h][f] = <<>> /\ ~News(h, f)
        /\ \A g \in Hosts : net[h][g] = <<>> /\ reading[h][g] = Nothing
    BY Zenon DEF Quiet
  <1>2. NoWriter.to = {}
    BY DEF NoWriter
  <1> QED
    BY <1>1, <1>2

LEMMA OneWayCopy ==
    ASSUME TypeOK, NEW a \in Hosts, NEW b \in Hosts, a # b, NEW d \in group.copies,
           Copy(a, d)
    PROVE  /\ copied'.data # Nothing
           /\ ReportsOf(a, b)' /\ AnswersOf(a, b)'
           /\ WritersOf(a, b)' /\ FramesOf(a, b)' /\ ArrivalsOf(a, b)'
  <1>1. /\ UNCHANGED <<group, queue, writer, net, reading, received, history>>
        /\ Quiet /\ d \in Data /\ Put(a, d)
        /\ copied'.data = d
    BY CopyDoes
  <1>2. /\ Shows(a)' = AsRead(a, d)
        /\ \A f \in Formats : News(b, f)' <=> News(b, f)
    BY <1>1, PutDoes
  <1>3. Sent(a)' = AsRead(a, d)
    BY <1>1 DEF Sent, AsRead, os
  <1>4. d # Nothing
    BY <1>1, SyncAssumption DEF Data
  <1>5. \A k \in {a, b} : /\ writer'[k].to = {}
                          /\ \A f \in Formats : queue'[k][f] = <<>>
                          /\ \A x \in {a, b} : net'[k][x] = <<>> /\ reading'[k][x] = Nothing
    BY <1>1, QuietHosts
  <1>6. \A f \in Formats : ~News(b, f)'
    BY <1>1, <1>2, QuietHosts
  <1>7. Len(<<>>) = 0
    OBVIOUS
  <1>8. ReportsOf(a, b)'
    BY <1>2, <1>3, <1>5, <1>7 DEF ReportsOf
  <1>9. AnswersOf(a, b)'
    BY <1>5, <1>6, <1>7 DEF AnswersOf
  <1>10. WritersOf(a, b)' /\ ArrivalsOf(a, b)'
    BY <1>5 DEF WritersOf, ArrivalsOf
  <1>11. FramesOf(a, b)'
    BY <1>5, <1>7 DEF FramesOf
  <1> QED
    BY <1>1, <1>4, <1>8, <1>9, <1>10, <1>11

LEMMA OneWayStep ==
    ASSUME TypeOK, OneWayOfTwo, [Next]_vars
    PROVE  OneWayOfTwo'
  <1> DEFINE Goal(a, b) ==
        /\ copied'.data # Nothing
        /\ ReportsOf(a, b)' /\ AnswersOf(a, b)'
        /\ WritersOf(a, b)' /\ FramesOf(a, b)' /\ ArrivalsOf(a, b)'
  <1>0. group' = group
    BY DEF Next, Work, Watch, WriterTakes, WriterSends, Receive, WriteClipboard, Copy, vars
  <1>1. SUFFICES ASSUME NEW a \in Hosts, NEW b \in Hosts, a # b, Hosts = {a, b},
                        copied'.by = a
                 PROVE  Goal(a, b)
    BY <1>0, SameHosts DEF OneWayOfTwo
  <1>2. ASSUME copied' = copied
        PROVE  /\ copied.by = a /\ copied.data \in Data /\ copied'.data # Nothing
               /\ ReportsOf(a, b) /\ AnswersOf(a, b)
               /\ WritersOf(a, b) /\ FramesOf(a, b) /\ ArrivalsOf(a, b)
    <2>1. /\ copied.by = a /\ copied.data # Nothing
          /\ ReportsOf(a, b) /\ AnswersOf(a, b)
          /\ WritersOf(a, b) /\ FramesOf(a, b) /\ ArrivalsOf(a, b)
      BY <1>1, <1>2 DEF OneWayOfTwo
    <2>2. copied.data \in group.copies \cup {Nothing} /\ group \in Groups
      BY DEF TypeOK
    <2>3. copied.data \in Data
      BY <2>1, <2>2, SyncAssumption DEF Data
    <2> QED
      BY <1>2, <2>1, <2>3
  <1>3. ASSUME NEW h \in Hosts, NEW f \in Formats, Watch(h, f) PROVE Goal(a, b)
    <2>1. UNCHANGED <<group, clip, writer, net, reading, received, copied>>
      BY <1>3, WatchDoes
    <2>2. ReportsOf(a, b)' /\ AnswersOf(a, b)'
      BY <1>1, <1>2, <1>3, <2>1, OneWayWatch
    <2> QED
      BY <1>2, <2>1, <2>2, SameWriters, SameFrames, SameArrivals
  <1>4. ASSUME NEW h \in Hosts, NEW f \in Formats, WriterTakes(h, f) PROVE Goal(a, b)
    <2>1. UNCHANGED <<group, clip, seen, net, reading, received, copied>>
      BY <1>4, WriterTakesDoes
    <2>2. ReportsOf(a, b)' /\ AnswersOf(a, b)' /\ WritersOf(a, b)'
      BY <1>1, <1>2, <1>4, <2>1, OneWayTakes
    <2> QED
      BY <1>2, <2>1, <2>2, SameFrames, SameArrivals
  <1>5. ASSUME NEW h \in Hosts, NEW g \in Hosts, WriterSends(h, g) PROVE Goal(a, b)
    <2>1. UNCHANGED <<group, clip, seen, queue, reading, received, history, copied>>
      BY <1>5, WriterSendsDoes
    <2>2. WritersOf(a, b)' /\ FramesOf(a, b)'
      BY <1>1, <1>2, <1>5, <2>1, OneWaySends
    <2>3. /\ \A k \in Hosts : Shows(k)' = Shows(k) /\ \A x : News(k, x)' <=> News(k, x)
          /\ \A k, v : IsReceived(k, v)' <=> IsReceived(k, v)
      BY <2>1, SameNews DEF IsReceived
    <2>4. ReportsOf(a, b)' /\ AnswersOf(a, b)'
      BY <1>2, <2>1, <2>3, SameReports, SameAnswers, SameCopy
    <2> QED
      BY <1>2, <2>1, <2>2, <2>4, SameArrivals
  <1>6. ASSUME NEW h \in Hosts, NEW g \in Hosts, g # h, Receive(h, g) PROVE Goal(a, b)
    <2>1. copied' = copied
      BY <1>6, ReceiveDoes DEF ReceiveMoves
    <2> QED
      BY <1>1, <1>2, <1>6, <2>1, OneWayReceives
  <1>7. ASSUME NEW h \in Hosts, NEW g \in Hosts, g # h, WriteClipboard(h, g)
        PROVE  Goal(a, b)
    <2>1. copied' = copied
      BY <1>7, WriteDoes
    <2> QED
      BY <1>1, <1>2, <1>7, <2>1, OneWayWrites
  <1>8. ASSUME NEW h \in Hosts, NEW d \in group.copies, Copy(h, d) PROVE Goal(a, b)
    <2>1. copied'.by = h
      BY <1>8, CopyDoes
    <2>2. Copy(a, d)
      BY <1>1, <1>8, <2>1
    <2> QED
      BY <1>1, <2>2, OneWayCopy
  <1>9. CASE UNCHANGED vars
    <2>1. UNCHANGED <<group, clip, seen, queue, writer, net, reading, received, history,
                      copied>>
      BY <1>9 DEF vars
    <2>2. /\ \A k \in Hosts : Shows(k)' = Shows(k) /\ \A x : News(k, x)' <=> News(k, x)
          /\ \A k, v : IsReceived(k, v)' <=> IsReceived(k, v)
      BY <2>1, SameNews DEF IsReceived
    <2> QED
      BY <1>2, <2>1, <2>2, SameReports, SameAnswers, SameCopy, SameWriters, SameFrames,
         SameArrivals
  <1> QED
    BY <1>3, <1>4, <1>5, <1>6, <1>7, <1>8, <1>9, Steps

(* Of two hosts, the one whose user has copied never gets the copy back.   *)
THEOREM NothingComesBack == Spec => []NoEcho
  <1>1. Init => OneWayOfTwo
    <2>1. ASSUME Init, NEW a \in Hosts PROVE copied.by # a
      <3>1. copied.by = Nothing /\ group \in Groups
        BY <2>1 DEF Init
      <3>2. Nothing \notin Hosts
        BY <3>1, SyncAssumption DEF Hosts, os
      <3> QED
        BY <3>1, <3>2
    <2> QED
      BY <2>1 DEF OneWayOfTwo
  <1>2. TypeOK /\ OneWayOfTwo => NoEcho
    <2> SUFFICES ASSUME TypeOK, OneWayOfTwo, NEW h \in Hosts, NEW g \in Hosts,
                        Hosts = {h, g}, copied.by = g,
                        NEW i \in 1 .. Len(net[h][g])
                 PROVE  net[h][g][i] # copied.data
      BY DEF NoEcho
    <2>1. h # g
      <3>1. net[g][g] = <<>> /\ Len(<<>>) = 0
        BY DEF TypeOK
      <3> QED
        BY <3>1
    <2>2. copied.data # Nothing /\ Converted(g, h, net[h][g][i])
      BY <2>1 DEF OneWayOfTwo, FramesOf
    <2>3. copied.data \in Data
      BY <2>2, SyncAssumption DEF TypeOK, Data
    <2> QED
      BY <2>2, <2>3, Reread DEF Converted
  <1> QED
    BY <1>1, <1>2, OneWayStep, TypeCorrect, PTL DEF Spec

-----------------------------------------------------------------------------
(* All that is under way is the last copy, or what became of it.           *)
LEMMA AlikeRead ==
    ASSUME TypeOK, NEW h \in Hosts, NEW d \in Data, Alike(d)
    PROVE  Alike(AsRead(h, d))
  <1>1. /\ Reencoded[d] \in Data /\ Reencoded[Reencoded[d]] = Reencoded[d]
        /\ Nothing \notin Data
    BY SyncAssumption DEF Data
  <1>2. CASE d = copied.data /\ Unconverted
    <2>1. d \in group.copies
      BY <1>1, <1>2 DEF TypeOK
    <2>2. AsRead(h, d) = d
      BY <1>2, <2>1 DEF AsRead, Unconverted
    <2> QED
      BY <2>2
  <1>3. CASE ~Unconverted
    BY <1>1, <1>3 DEF AsRead, Alike, Looks
  <1> QED
    BY <1>2, <1>3 DEF Alike

LEMMA SameAlike ==
    ASSUME group' = group, copied' = copied
    PROVE  /\ \A d : Alike(d)' <=> Alike(d)
           /\ \A h : Sent(h)' = Sent(h)
  BY DEF Alike, Unconverted, Looks, Sent, AsRead, Hosts, os

LEMMA StillRecorded ==
    ASSUME group' = group, copied' = copied, NEW h,
           history'[h] = history[h] \/ (history'[h] # <<>> /\ Alike(Last(history'[h])))
    PROVE  Recorded(h) => Recorded(h)'
  BY SameAlike DEF Recorded

(* The histories change by nothing else.                                   *)
LEMMA TakesTheCopy ==
    ASSUME TypeOK, OnlyReported, NEW h \in Hosts, NEW f \in Formats, WriterTakes(h, f)
    PROVE  /\ \A k \in Hosts : Recorded(k) => Recorded(k)'
           /\ \E j \in 1..Len(queue[h][f]) :
                 /\ Alike(queue[h][f][j])
                 /\ \/ queue[h][f][j] \in Unsent /\ writer' = writer
                    \/ /\ queue[h][f][j] \notin Unsent
                       /\ writer'[h] = [data |-> queue[h][f][j],
                                        received |-> IsReceived(h, queue[h][f][j]),
                                        to |-> Others(h)]
                       /\ ~IsReceived(h, queue[h][f][j]) => Recorded(h)'
  <1>1. /\ group' = group /\ copied' = copied /\ received' = received
        /\ \A k \in Hosts : k # h => history'[k] = history[k]
    BY WriterTakesDoes
  <1>2. PICK j \in 1..Len(queue[h][f]) :
           /\ queue[h][f][j] \in Data
           /\ \/ queue[h][f][j] \in Unsent /\ UNCHANGED <<writer, history>>
              \/ /\ queue[h][f][j] \notin Unsent
                 /\ writer'[h] = [data |-> queue[h][f][j],
                                  received |-> IsReceived(h, queue[h][f][j]),
                                  to |-> Others(h)]
                 /\ IF IsReceived(h, queue[h][f][j])
                    THEN history' = history
                    ELSE history'[h] # <<>> /\ Last(history'[h]) = queue[h][f][j]
    BY WriterTakesDoes, Zenon
  <1>3. Alike(queue[h][f][j])
    BY DEF OnlyReported
  <1>4. history' = history \/ (history'[h] # <<>> /\ Alike(Last(history'[h])))
    BY <1>2, <1>3
  <1>5. \A k \in Hosts : Recorded(k) => Recorded(k)'
    BY <1>1, <1>4, StillRecorded
  <1>6. history'[h] # <<>> /\ Last(history'[h]) = queue[h][f][j] => Recorded(h)'
    BY <1>1, <1>3, SameAlike DEF Recorded
  <1>7. \/ queue[h][f][j] \in Unsent /\ writer' = writer
        \/ /\ queue[h][f][j] \notin Unsent
           /\ writer'[h] = [data |-> queue[h][f][j],
                            received |-> IsReceived(h, queue[h][f][j]),
                            to |-> Others(h)]
           /\ ~IsReceived(h, queue[h][f][j]) => Recorded(h)'
    BY <1>2, <1>6
  <1> QED
    BY <1>3, <1>5, <1>7, Zenon

LEMMA ReceivesTheCopy ==
    ASSUME TypeOK, OnlyInFrames, NEW h \in Hosts, NEW g \in Hosts, g # h, Receive(h, g)
    PROVE  /\ \A k \in Hosts : Recorded(k) => Recorded(k)'
           /\ Recorded(h)' /\ Alike(reading'[h][g]) /\ reading'[h][g] # Nothing
  <1>1. ReceiveMoves(h, g)
    BY ReceiveDoes
  <1>2. /\ group' = group /\ copied' = copied /\ history'[h] # <<>>
        /\ \A k \in Hosts : k # h => history'[k] = history[k]
    BY <1>1 DEF ReceiveMoves
  <1>3. PICK j \in 1..Len(net[g][h]) :
           /\ net[g][h][j] \in Data
           /\ Last(history'[h]) = net[g][h][j]
           /\ reading'[h][g] = net[g][h][j]
    BY <1>1 DEF ReceiveMoves
  <1>4. Alike(net[g][h][j]) /\ net[g][h][j] # Nothing
    BY <1>3, SyncAssumption DEF OnlyInFrames, Data
  <1>5. Alike(Last(history'[h]))
    BY <1>3, <1>4
  <1>6. \A k \in Hosts : Recorded(k) => Recorded(k)'
    BY <1>2, <1>5, StillRecorded
  <1>7. Recorded(h)'
    BY <1>2, <1>5, SameAlike DEF Recorded
  <1> QED
    BY <1>3, <1>4, <1>6, <1>7

LEMMA OnlyTheCopyStep ==
    ASSUME TypeOK, OnlyTheCopy, [Next]_vars
    PROVE  OnlyTheCopy'
  <1>0. group' = group /\ Hosts' = Hosts /\ (Unconverted' <=> Unconverted)
    <2>1. group' = group
      BY DEF Next, Work, Watch, WriterTakes, WriterSends, Receive, WriteClipboard, Copy, vars
    <2> QED
      BY <2>1, SameHosts
  <1>1. OnlyReported /\ OnlySent /\ OnlyInFrames /\ OnlyArriving /\ OnlyShown
    BY DEF OnlyTheCopy
  <1>2. ASSUME copied' = copied, writer' = writer PROVE OnlySent'
    BY <1>0, <1>1, <1>2 DEF OnlySent, Alike
  <1>3. ASSUME copied' = copied, net' = net PROVE OnlyInFrames'
    BY <1>0, <1>1, <1>3 DEF OnlyInFrames, Alike
  <1>4. ASSUME copied' = copied, reading' = reading,
               \A k \in Hosts : Recorded(k) => Recorded(k)'
        PROVE  OnlyArriving'
    BY <1>0, <1>1, <1>4 DEF OnlyArriving, Alike
  <1>5. ASSUME copied' = copied, clip' = clip PROVE OnlyShown'
    BY <1>0, <1>1, <1>5 DEF OnlyShown
  <1>6. ASSUME copied' = copied, clip' = clip, seen' = seen, queue' = queue
        PROVE  OnlyReported'
    <2>1. \A k \in Hosts : \A x : News(k, x)' <=> News(k, x)
      BY <1>0, <1>6, SameNews
    <2> QED
      BY <1>0, <1>1, <1>6, <2>1 DEF OnlyReported, Alike
  <1>7. ASSUME copied' = copied, history' = history
        PROVE  \A k \in Hosts : Recorded(k) => Recorded(k)'
    BY <1>0, <1>7, StillRecorded
  <1>8. ASSUME NEW h \in Hosts, NEW f \in Formats, Watch(h, f) PROVE OnlyTheCopy'
    <2>1. /\ UNCHANGED <<group, clip, writer, net, reading, received, history, copied>>
          /\ News(h, f)
          /\ \A k \in Hosts, x \in Formats : k # h \/ x # f => queue'[k][x] = queue[k][x]
          /\ \A i \in 1..Len(queue'[h][f]) :
                \/ queue'[h][f][i] = Shows(h)
                \/ \E j \in 1..Len(queue[h][f]) : queue'[h][f][i] = queue[h][f][j]
          /\ \A k \in Hosts, x \in Formats : News(k, x)' => News(k, x)
      BY <1>8, WatchDoes
    <2>2. Alike(clip[h])
      BY <1>1, <2>1 DEF OnlyReported
    <2>3. Alike(Shows(h))
      BY <2>1, <2>2, Shown, AlikeRead DEF News
    <2>4. ASSUME NEW k \in Hosts, NEW x \in Formats
          PROVE  /\ News(k, x)' => Alike(clip'[k])
                 /\ \A i \in 1..Len(queue'[k][x]) : Alike(queue'[k][x][i])
      <3>1. CASE k = h /\ x = f
        BY <1>1, <2>1, <2>3, <3>1 DEF OnlyReported
      <3>2. CASE k # h \/ x # f
        BY <1>1, <2>1, <3>2 DEF OnlyReported
      <3> QED
        BY <3>1, <3>2
    <2>5. OnlyReported'
      BY <1>0, <2>1, <2>4 DEF OnlyReported, Alike
    <2> QED
      BY <1>2, <1>3, <1>4, <1>5, <1>7, <2>1, <2>5 DEF OnlyTheCopy
  <1>9. ASSUME NEW h \in Hosts, NEW f \in Formats, WriterTakes(h, f) PROVE OnlyTheCopy'
    <2>1. /\ UNCHANGED <<group, clip, seen, net, reading, received, copied>>
          /\ \A k \in Hosts, x \in Formats : k # h \/ x # f => queue'[k][x] = queue[k][x]
          /\ \A i \in 1..Len(queue'[h][f]) :
                \E j \in 1..Len(queue[h][f]) : queue'[h][f][i] = queue[h][f][j]
          /\ \A k \in Hosts : k # h => writer'[k] = writer[k]
      BY <1>9, WriterTakesDoes
    <2>2. /\ \A k \in Hosts : Recorded(k) => Recorded(k)'
          /\ writer' = writer \/ Alike(writer'[h].data)
      <3>1. /\ \A k \in Hosts : Recorded(k) => Recorded(k)'
            /\ \E j \in 1..Len(queue[h][f]) :
                  /\ Alike(queue[h][f][j])
                  /\ \/ writer' = writer
                     \/ writer'[h] = [data |-> queue[h][f][j],
                                      received |-> IsReceived(h, queue[h][f][j]),
                                      to |-> Others(h)]
        BY <1>1, <1>9, TakesTheCopy, Zenon
      <3> QED
        BY <3>1
    <2>3. \A k \in Hosts : \A x : News(k, x)' <=> News(k, x)
      BY <2>1, SameNews
    <2>4. ASSUME NEW k \in Hosts, NEW x \in Formats
          PROVE  /\ News(k, x)' => Alike(clip'[k])
                 /\ \A i \in 1..Len(queue'[k][x]) : Alike(queue'[k][x][i])
      <3>1. CASE k = h /\ x = f
        BY <1>1, <2>1, <2>3, <3>1 DEF OnlyReported
      <3>2. CASE k # h \/ x # f
        BY <1>1, <2>1, <2>3, <3>2 DEF OnlyReported
      <3> QED
        BY <3>1, <3>2
    <2>5. OnlyReported'
      BY <1>0, <2>1, <2>4 DEF OnlyReported, Alike
    <2>6. OnlySent'
      BY <1>0, <1>1, <2>1, <2>2 DEF OnlySent, Alike
    <2> QED
      BY <1>3, <1>4, <1>5, <2>1, <2>2, <2>5, <2>6 DEF OnlyTheCopy
  <1>10. ASSUME NEW h \in Hosts, NEW g \in Hosts, WriterSends(h, g) PROVE OnlyTheCopy'
    <2>1. /\ UNCHANGED <<group, clip, seen, queue, reading, received, history, copied>>
          /\ g \in writer[h].to
          /\ \A k \in Hosts : k # h => writer'[k] = writer[k]
          /\ writer'[h].to # {} => writer'[h].data = writer[h].data
          /\ \A k, x \in Hosts : k # h \/ x # g => net'[k][x] = net[k][x]
          /\ \/ net' = net
             \/ \A i \in 1..Len(net'[h][g]) :
                   \/ net'[h][g][i] = writer[h].data
                   \/ \E j \in 1..Len(net[h][g]) : net'[h][g][i] = net[h][g][j]
      BY <1>10, WriterSendsDoes
    <2>2. Alike(writer[h].data)
      BY <1>1, <2>1 DEF OnlySent
    <2>3. OnlySent'
      BY <1>0, <1>1, <2>1, <2>2 DEF OnlySent, Alike
    <2>4. ASSUME NEW k \in Hosts, NEW x \in Hosts, NEW i \in 1..Len(net'[k][x])
          PROVE  Alike(net'[k][x][i])
      <3>1. CASE net' = net
        BY <1>1, <2>4, <3>1 DEF OnlyInFrames
      <3>2. CASE k # h \/ x # g
        BY <1>1, <2>1, <2>4, <3>2 DEF OnlyInFrames
      <3>3. CASE net' # net /\ k = h /\ x = g
        BY <1>1, <2>1, <2>2, <2>4, <3>3 DEF OnlyInFrames
      <3> QED
        BY <3>1, <3>2, <3>3
    <2>5. OnlyInFrames'
      BY <1>0, <2>1, <2>4 DEF OnlyInFrames, Alike
    <2> QED
      BY <1>4, <1>5, <1>6, <1>7, <2>1, <2>3, <2>5 DEF OnlyTheCopy
  <1>11. ASSUME NEW h \in Hosts, NEW g \in Hosts, g # h, Receive(h, g) PROVE OnlyTheCopy'
    <2>1. /\ UNCHANGED <<group, clip, seen, queue, writer, copied>>
          /\ \A k, x \in Hosts : k # g \/ x # h => net'[k][x] = net[k][x]
          /\ \A i \in 1..Len(net'[g][h]) :
                \E j \in 1..Len(net[g][h]) : net'[g][h][i] = net[g][h][j]
          /\ \A k, x \in Hosts : k # h \/ x # g => reading'[k][x] = reading[k][x]
      BY <1>11, ReceiveDoes DEF ReceiveMoves
    <2>2. /\ \A k \in Hosts : Recorded(k) => Recorded(k)'
          /\ Recorded(h)' /\ Alike(reading'[h][g])
      BY <1>1, <1>11, ReceivesTheCopy
    <2>3. ASSUME NEW k \in Hosts, NEW x \in Hosts, NEW i \in 1..Len(net'[k][x])
          PROVE  Alike(net'[k][x][i])
      <3>1. CASE k = g /\ x = h
        BY <1>1, <2>1, <2>3, <3>1 DEF OnlyInFrames
      <3>2. CASE k # g \/ x # h
        BY <1>1, <2>1, <2>3, <3>2 DEF OnlyInFrames
      <3> QED
        BY <3>1, <3>2
    <2>4. OnlyInFrames'
      BY <1>0, <2>1, <2>3 DEF OnlyInFrames, Alike
    <2>5. ASSUME NEW k \in Hosts, NEW x \in Hosts, reading'[k][x] # Nothing
          PROVE  Alike(reading'[k][x]) /\ Recorded(k)'
      <3>1. CASE k = h /\ x = g
        BY <2>2, <3>1
      <3>2. CASE k # h \/ x # g
        BY <1>1, <2>1, <2>2, <2>5, <3>2 DEF OnlyArriving
      <3> QED
        BY <3>1, <3>2
    <2>6. OnlyArriving'
      BY <1>0, <2>1, <2>5 DEF OnlyArriving, Alike
    <2> QED
      BY <1>2, <1>5, <1>6, <2>1, <2>4, <2>6 DEF OnlyTheCopy
  <1>12. ASSUME NEW h \in Hosts, NEW g \in Hosts, WriteClipboard(h, g) PROVE OnlyTheCopy'
    <2>1. /\ UNCHANGED <<group, queue, writer, net, received, history, copied>>
          /\ reading[h][g] # Nothing /\ reading[h][g] \in Data
          /\ Put(h, reading[h][g])
          /\ reading'[h][g] = Nothing
          /\ \A k, x \in Hosts : k # h \/ x # g => reading'[k][x] = reading[k][x]
      BY <1>12, WriteDoes
    <2>2. Alike(reading[h][g])
      BY <1>1, <2>1 DEF OnlyArriving
    <2>3. /\ clip'[h] = reading[h][g]
          /\ \A k \in Hosts : k # h => /\ clip'[k] = clip[k]
                                       /\ \A x \in Formats : News(k, x)' <=> News(k, x)
      BY <1>0, <2>1, PutDoes
    <2>4. OnlyReported'
      BY <1>0, <1>1, <2>1, <2>2, <2>3 DEF OnlyReported, Alike
    <2>5. OnlyShown'
      <3>1. reading[h][g] # Nothing /\ Looks(reading[h][g]) # Nothing
        BY <2>1, SyncAssumption DEF Looks, Data
      <3>2. copied.data # Nothing
        BY <2>2, <3>1 DEF Alike, Looks
      <3> QED
        BY <2>1, <3>2 DEF OnlyShown
    <2>6. \A k \in Hosts : Recorded(k)' <=> Recorded(k)
      BY <1>0, <2>1, SameAlike DEF Recorded
    <2>7. OnlyArriving'
      BY <1>0, <1>1, <2>1, <2>6 DEF OnlyArriving, Alike
    <2> QED
      BY <1>2, <1>3, <2>1, <2>4, <2>5, <2>7 DEF OnlyTheCopy
  <1>13. ASSUME NEW h \in Hosts, NEW d \in group.copies, Copy(h, d) PROVE OnlyTheCopy'
    <2>1. /\ UNCHANGED <<group, queue, writer, net, reading, received, history>>
          /\ Quiet /\ d \in Data /\ Put(h, d)
          /\ copied'.data = d
      BY <1>13, CopyDoes
    <2>2. /\ clip'[h] = d
          /\ \A k \in Hosts : k # h => \A x \in Formats : News(k, x)' <=> News(k, x)
      BY <1>0, <2>1, PutDoes
    <2>3. \A k \in Hosts : /\ writer'[k].to = {}
                           /\ \A x \in Formats : queue'[k][x] = <<>> /\ ~News(k, x)
                           /\ \A x \in Hosts : net'[k][x] = <<>> /\ reading'[k][x] = Nothing
      BY <2>1, QuietHosts
    <2>4. Len(<<>>) = 0 /\ d # Nothing
      BY <2>1, SyncAssumption DEF Data
    <2>5. OnlyReported'
      BY <1>0, <2>1, <2>2, <2>3, <2>4 DEF OnlyReported, Alike
    <2>6. OnlySent' /\ OnlyArriving' /\ OnlyShown'
      BY <1>0, <2>1, <2>3, <2>4 DEF OnlySent, OnlyArriving, OnlyShown, Alike
    <2>7. OnlyInFrames'
      BY <1>0, <2>3, <2>4 DEF OnlyInFrames, Alike
    <2> QED
      BY <2>5, <2>6, <2>7 DEF OnlyTheCopy
  <1>14. CASE UNCHANGED vars
    BY <1>2, <1>3, <1>4, <1>5, <1>6, <1>7, <1>14 DEF OnlyTheCopy, vars
  <1> QED
    BY <1>8, <1>9, <1>10, <1>11, <1>12, <1>13, <1>14, Steps

-----------------------------------------------------------------------------
(* The copy that is noticed spreads.                                       *)
LEMMA SpreadsStep ==
    ASSUME TypeOK, OnlyTheCopy, Spreads, [Next]_vars
    PROVE  Spreads'
  <1> DEFINE a == copied.by
             Spreading == Recorded(a) /\ \A h \in Others(a) : Comes(h)
  <1>0. /\ group' = group /\ Hosts' = Hosts /\ \A h : Others(h)' = Others(h)
        /\ Unconverted' <=> Unconverted
    <2>1. group' = group
      BY DEF Next, Work, Watch, WriterTakes, WriterSends, Receive, WriteClipboard, Copy, vars
    <2> QED
      BY <2>1, SameHosts
  <1>1. OnlyReported /\ OnlySent /\ OnlyInFrames /\ OnlyArriving
    BY DEF OnlyTheCopy
  <1>2. ASSUME copied' = copied, clip' = clip, copied.data # Nothing, ~copied.missed,
               Untaken' \/ (Recorded(a)' /\ \A h \in Others(a) : Comes(h)')
        PROVE  Spreads'
    BY <1>0, <1>2 DEF Spreads, Alike
  <1>3. ASSUME copied.data # Nothing, ~copied.missed
        PROVE  a \in Hosts /\ Alike(clip[a]) /\ (Untaken \/ Spreading)
    BY <1>3 DEF Spreads, Alike
  <1>4. ASSUME copied' = copied, copied.data = Nothing \/ copied.missed PROVE Spreads'
    BY <1>4 DEF Spreads, Alike
  <1>5. ASSUME NEW h \in Hosts, NEW f \in Formats, Watch(h, f) PROVE Spreads'
    <2>1. /\ UNCHANGED <<group, clip, writer, net, reading, received, history, copied>>
          /\ News(h, f)
          /\ \A k \in Hosts, x \in Formats : k # h \/ x # f => queue'[k][x] = queue[k][x]
          /\ queue'[h][f] # <<>>
          /\ \A i \in 1..Len(queue'[h][f]) :
                \/ queue'[h][f][i] = Shows(h)
                \/ \E j \in 1..Len(queue[h][f]) : queue'[h][f][i] = queue[h][f][j]
          /\ \A k \in Hosts, x \in Formats : News(k, x)' => News(k, x)
      BY <1>5, WatchDoes
    <2> SUFFICES ASSUME copied.data # Nothing, ~copied.missed PROVE Spreads'
      BY <1>4, <2>1
    <2>2. a \in Hosts
      BY <1>3
    <2>3. CASE Untaken
      <3>1. h = a
        BY <2>1, <2>3 DEF Untaken
      <3>2. Sent(a)' = Sent(a) /\ Shows(a) = Sent(a)
        BY <1>0, <2>1, <2>3, <3>1, SameAlike DEF Untaken, Sent, AsRead, Shows, News
      <3>3. \A x \in Formats : \A i \in 1..Len(queue'[a][x]) : queue'[a][x][i] = Sent(a)
        BY <2>1, <2>2, <2>3, <3>1, <3>2 DEF Untaken
      <3>4. /\ clip'[a] = copied.data
            /\ Sent(a) \notin Unsent /\ ~IsReceived(a, Sent(a))
            /\ queue'[a][f] # <<>>
            /\ \A k \in Hosts :
                  /\ writer'[k] = NoWriter
                  /\ \A g \in Hosts : net'[k][g] = <<>> /\ reading'[k][g] = Nothing
                  /\ k # a => \A x \in Formats : queue'[k][x] = <<>> /\ ~News(k, x)'
        BY <2>1, <2>2, <2>3, <3>1 DEF Untaken
      <3>5. Untaken'
        BY <1>0, <2>1, <3>2, <3>3, <3>4 DEF Untaken, IsReceived
      <3> QED
        BY <1>2, <2>1, <3>5
    <2>4. CASE Spreading
      <3>1. Recorded(a)'
        BY <1>0, <2>1, <2>4 DEF Recorded, Alike
      <3>2. \A k \in Others(a) : Comes(k)'
        BY <1>0, <2>1, <2>4 DEF Comes, Recorded, Alike
      <3> QED
        BY <1>2, <2>1, <3>1, <3>2
    <2> QED
      BY <1>3, <2>3, <2>4
  <1>6. ASSUME NEW h \in Hosts, NEW f \in Formats, WriterTakes(h, f) PROVE Spreads'
    <2>1. /\ UNCHANGED <<group, clip, seen, net, reading, received, copied>>
          /\ writer[h] = NoWriter /\ queue[h][f] # <<>>
          /\ \A k \in Hosts : k # h => writer'[k] = writer[k]
      BY <1>6, WriterTakesDoes
    <2>2. \A k \in Hosts : Recorded(k) => Recorded(k)'
      BY <1>1, <1>6, TakesTheCopy, Zenon
    <2> SUFFICES ASSUME copied.data # Nothing, ~copied.missed PROVE Spreads'
      BY <1>4, <2>1
    <2>3. a \in Hosts
      BY <1>3
    <2>4. CASE Untaken
      <3>1. h = a /\ Sent(a) \notin Unsent /\ ~IsReceived(a, Sent(a))
        BY <2>1, <2>4 DEF Untaken
      <3>2. PICK j \in 1..Len(queue[h][f]) :
               \/ queue[h][f][j] \in Unsent /\ writer' = writer
               \/ /\ queue[h][f][j] \notin Unsent
                  /\ writer'[h] = [data |-> queue[h][f][j],
                                   received |-> IsReceived(h, queue[h][f][j]),
                                   to |-> Others(h)]
                  /\ ~IsReceived(h, queue[h][f][j]) => Recorded(h)'
        BY <1>1, <1>6, TakesTheCopy, Zenon
      <3>3. /\ writer'[h] = [data |-> queue[h][f][j],
                             received |-> IsReceived(h, queue[h][f][j]),
                             to |-> Others(h)]
            /\ Recorded(h)' /\ ~IsReceived(h, queue[h][f][j])
        <4>1. queue[h][f][j] = Sent(a)
          BY <2>4, <3>1 DEF Untaken
        <4> QED
          BY <3>1, <3>2, <4>1
      <3>4. writer'[a].to = Others(a) /\ ~writer'[a].received
        BY <3>1, <3>3
      <3>5. \A k \in Others(a) : Comes(k)'
        BY <2>1, <3>4 DEF Comes
      <3>6. Recorded(a)'
        BY <2>1, <3>1, <3>3 DEF Recorded, Alike
      <3> QED
        BY <1>2, <2>1, <3>5, <3>6
    <2>5. CASE Spreading
      <3>1. ASSUME NEW k \in Others(a) PROVE Comes(k)'
        <4>1. Comes(k) /\ k \in Hosts
          BY <2>5 DEF Others
        <4>2. CASE k \in writer[a].to /\ ~writer[a].received
          <5>1. a # h
            BY <2>1, <4>2 DEF NoWriter
          <5> QED
            BY <2>1, <2>3, <4>2, <5>1 DEF Comes, Alike
        <4>3. CASE net[a][k] # <<>>
          BY <2>1, <4>3 DEF Comes, Alike
        <4>4. CASE Recorded(k) /\ (Alike(clip[k]) \/ \E g \in Hosts : reading[k][g] # Nothing)
          BY <1>0, <2>1, <2>2, <4>1, <4>4 DEF Comes, Alike
        <4> QED
          BY <4>1, <4>2, <4>3, <4>4 DEF Comes, Alike
      <3>2. Recorded(a)'
        BY <2>1, <2>2, <2>3, <2>5 DEF Recorded, Alike
      <3> QED
        BY <1>2, <2>1, <3>1, <3>2
    <2> QED
      BY <1>3, <2>4, <2>5
  <1>7. ASSUME NEW h \in Hosts, NEW g \in Hosts, WriterSends(h, g) PROVE Spreads'
    <2>1. /\ UNCHANGED <<group, clip, seen, queue, reading, received, history, copied>>
          /\ g \in writer[h].to
          /\ \A k \in Hosts : k # h => writer'[k] = writer[k]
          /\ writer'[h].to = writer[h].to \ {g}
          /\ writer'[h].to # {} => writer'[h].received = writer[h].received
          /\ \A k, x \in Hosts : k # h \/ x # g => net'[k][x] = net[k][x]
          /\ \/ writer[h].received /\ net' = net
             \/ net'[h][g] # <<>>
      BY <1>7, WriterSendsDoes
    <2> SUFFICES ASSUME copied.data # Nothing, ~copied.missed PROVE Spreads'
      BY <1>4, <2>1
    <2>2. a \in Hosts
      BY <1>3
    <2>3. ~Untaken
      BY <2>1 DEF Untaken, NoWriter
    <2>4. Spreading
      BY <1>3, <2>3
    <2>5. ASSUME NEW k \in Others(a) PROVE Comes(k)'
      <3>1. Comes(k) /\ k \in Hosts
        BY <2>4 DEF Others
      <3>2. CASE k \in writer[a].to /\ ~writer[a].received
        <4>1. CASE h = a /\ g = k
          BY <2>1, <3>2, <4>1 DEF Comes, Alike
        <4>2. CASE h = a /\ g # k
          BY <2>1, <3>2, <4>2 DEF Comes, Alike
        <4>3. CASE h # a
          BY <2>1, <2>2, <3>2, <4>3 DEF Comes, Alike
        <4> QED
          BY <4>1, <4>2, <4>3
      <3>3. CASE net[a][k] # <<>>
        <4>1. net'[a][k] # <<>>
          BY <2>1, <2>2, <3>1, <3>3
        <4> QED
          BY <2>1, <4>1 DEF Comes, Alike
      <3>4. CASE Recorded(k) /\ (Alike(clip[k]) \/ \E x \in Hosts : reading[k][x] # Nothing)
        BY <1>0, <2>1, <3>4 DEF Comes, Recorded, Alike
      <3> QED
        BY <3>1, <3>2, <3>3, <3>4 DEF Comes, Alike
    <2>6. Recorded(a)'
      BY <1>0, <2>1, <2>4 DEF Recorded, Alike
    <2> QED
      BY <1>2, <2>1, <2>5, <2>6
  <1>8. ASSUME NEW h \in Hosts, NEW g \in Hosts, g # h, Receive(h, g) PROVE Spreads'
    <2>1. /\ UNCHANGED <<group, clip, seen, queue, writer, copied>>
          /\ net[g][h] # <<>>
          /\ \A k, x \in Hosts : k # g \/ x # h => net'[k][x] = net[k][x]
          /\ \A k, x \in Hosts : k # h \/ x # g => reading'[k][x] = reading[k][x]
      BY <1>8, ReceiveDoes DEF ReceiveMoves
    <2>2. /\ \A k \in Hosts : Recorded(k) => Recorded(k)'
          /\ Recorded(h)' /\ reading'[h][g] # Nothing
      BY <1>1, <1>8, ReceivesTheCopy
    <2> SUFFICES ASSUME copied.data # Nothing, ~copied.missed PROVE Spreads'
      BY <1>4, <2>1
    <2>3. a \in Hosts
      BY <1>3
    <2>4. Spreading
      <3>1. ~Untaken
        BY <2>1 DEF Untaken
      <3> QED
        BY <1>3, <3>1
    <2>5. ASSUME NEW k \in Others(a) PROVE Comes(k)'
      <3>1. Comes(k) /\ k \in Hosts
        BY <2>4 DEF Others
      <3>2. CASE k = h
        <4>1. Recorded(h)' /\ \E x \in Hosts : reading'[h][x] # Nothing
          BY <2>2
        <4> QED
          BY <1>0, <2>1, <3>2, <4>1 DEF Comes, Alike
      <3>3. CASE k # h /\ net[a][k] # <<>>
        BY <2>1, <2>3, <3>1, <3>3 DEF Comes, Alike
      <3>4. CASE k \in writer[a].to /\ ~writer[a].received
        BY <2>1, <3>4 DEF Comes, Alike
      <3>5. CASE /\ k # h /\ Recorded(k)
                 /\ Alike(clip[k]) \/ \E x \in Hosts : reading[k][x] # Nothing
        <4>1. \A x \in Hosts : reading'[k][x] = reading[k][x]
          BY <2>1, <3>1, <3>5
        <4>2. Recorded(k)'
          BY <2>2, <3>1, <3>5
        <4> QED
          BY <1>0, <2>1, <3>5, <4>1, <4>2 DEF Comes, Alike
      <3> QED
        BY <3>1, <3>2, <3>3, <3>4, <3>5 DEF Comes, Alike
    <2>6. Recorded(a)'
      BY <2>1, <2>2, <2>3, <2>4 DEF Recorded, Alike
    <2> QED
      BY <1>2, <2>1, <2>5, <2>6
  <1>9. ASSUME NEW h \in Hosts, NEW g \in Hosts, WriteClipboard(h, g) PROVE Spreads'
    <2>1. /\ UNCHANGED <<group, queue, writer, net, received, history, copied>>
          /\ reading[h][g] # Nothing /\ reading[h][g] \in Data
          /\ Put(h, reading[h][g])
          /\ \A k, x \in Hosts : k # h \/ x # g => reading'[k][x] = reading[k][x]
      BY <1>9, WriteDoes
    <2> SUFFICES ASSUME copied.data # Nothing, ~copied.missed PROVE Spreads'
      BY <1>4, <2>1
    <2>2. a \in Hosts /\ Alike(clip[a])
      BY <1>3
    <2>3. Spreading
      <3>1. ~Untaken
        BY <2>1 DEF Untaken
      <3> QED
        BY <1>3, <3>1
    <2>4. Alike(reading[h][g])
      BY <1>1, <2>1 DEF OnlyArriving
    <2>5. Alike(clip'[h]) /\ \A k \in Hosts : k # h => clip'[k] = clip[k]
      BY <1>0, <2>1, <2>4, PutDoes
    <2>6. \A k \in Hosts : Recorded(k)' <=> Recorded(k)
      BY <1>0, <2>1 DEF Recorded, Alike
    <2>7. ASSUME NEW k \in Others(a) PROVE Comes(k)'
      <3>1. Comes(k) /\ k \in Hosts
        BY <2>3 DEF Others
      <3>2. CASE k \in writer[a].to /\ ~writer[a].received
        BY <2>1, <3>2 DEF Comes, Alike
      <3>3. CASE net[a][k] # <<>>
        BY <2>1, <3>3 DEF Comes, Alike
      <3>4. CASE /\ Recorded(k)
                 /\ Alike(clip[k]) \/ \E x \in Hosts : reading[k][x] # Nothing
        <4>1. CASE k = h
          BY <1>0, <2>1, <2>5, <2>6, <3>1, <3>4, <4>1 DEF Comes, Alike
        <4>2. CASE k # h
          <5>1. clip'[k] = clip[k] /\ \A x \in Hosts : reading'[k][x] = reading[k][x]
            BY <2>1, <2>5, <3>1, <4>2
          <5> QED
            BY <1>0, <2>1, <2>6, <3>1, <3>4, <5>1 DEF Comes, Alike
        <4> QED
          BY <4>1, <4>2
      <3> QED
        BY <3>1, <3>2, <3>3, <3>4 DEF Comes, Alike
    <2>8. Recorded(a)' /\ Alike(clip'[a])
      BY <2>1, <2>2, <2>3, <2>5, <2>6 DEF Recorded, Alike
    <2> QED
      BY <1>0, <2>1, <2>2, <2>7, <2>8 DEF Spreads, Alike
  <1>10. ASSUME NEW h \in Hosts, NEW d \in group.copies, Copy(h, d) PROVE Spreads'
    <2>1. /\ UNCHANGED <<group, queue, writer, net, reading, received, history>>
          /\ Quiet /\ d \in Data /\ Put(h, d)
          /\ copied'.data = d /\ copied'.by = h
          /\ copied'.missed = \/ ~News(h, Format(d))' \/ d \in Unsent
                              \/ IsReceived(h, Shows(h)')
      BY <1>10, CopyDoes
    <2> SUFFICES ASSUME ~copied'.missed PROVE Spreads'
      BY DEF Spreads, Alike
    <2>2. /\ clip'[h] = d /\ Shows(h)' = AsRead(h, d)
          /\ \A k \in Hosts : k # h => \A x \in Formats : News(k, x)' <=> News(k, x)
      BY <1>0, <2>1, PutDoes
    <2>3. Sent(h)' = AsRead(h, d) /\ AsRead(h, d) \notin Unsent
      <3>1. d \notin Unsent
        BY <2>1
      <3> QED
        BY <3>1, <1>0, <2>1, SyncAssumption DEF Sent, AsRead, os, Data
    <2>4. News(h, Format(d))' /\ ~IsReceived(h, AsRead(h, d))
      BY <2>1, <2>2
    <2>5. Format(d) \in Formats
      BY DEF Format, Formats
    <2>6. \A k \in Hosts : /\ writer'[k] = NoWriter
                           /\ \A x \in Formats : queue'[k][x] = <<>> /\ ~News(k, x)
                           /\ \A x \in Hosts : net'[k][x] = <<>> /\ reading'[k][x] = Nothing
      BY <2>1, QuietHosts
    <2>7. \E x \in Formats : News(h, x)'
      BY <2>4, <2>5
    <2>8. \A x \in Formats : \A i \in 1..Len(queue'[h][x]) : queue'[h][x][i] = Sent(h)'
      <3>1. Len(<<>>) = 0
        OBVIOUS
      <3> QED
        BY <2>6, <3>1
    <2>9. Untaken'
      BY <1>0, <2>1, <2>2, <2>3, <2>4, <2>6, <2>7, <2>8 DEF Untaken, IsReceived
    <2> QED
      BY <1>0, <2>1, <2>2, <2>9 DEF Spreads, Alike
  <1>11. CASE UNCHANGED vars
    <2>1. UNCHANGED <<group, clip, seen, queue, writer, net, reading, received, history,
                      copied>>
      BY <1>11 DEF vars
    <2>2. \A k, x : News(k, x)' <=> News(k, x)
      BY <2>1, SameNews
    <2>3. (Untaken' <=> Untaken) /\ \A k : Recorded(k)' <=> Recorded(k)
      BY <1>0, <2>1, <2>2, SameAlike DEF Untaken, IsReceived, Recorded
    <2>4. \A k : Comes(k)' <=> Comes(k)
      BY <1>0, <2>1, <2>3 DEF Comes, Alike
    <2> QED
      BY <1>0, <2>1, <2>3, <2>4 DEF Spreads, Alike
  <1> QED
    BY <1>5, <1>6, <1>7, <1>8, <1>9, <1>10, <1>11, Steps

SpreadInv == TypeOK /\ OnlyTheCopy /\ Spreads

LEMMA SpreadAlways == Spec => []SpreadInv
  <1>1. Init => OnlyTheCopy /\ Spreads
    <2> SUFFICES ASSUME Init PROVE OnlyTheCopy /\ Spreads
      OBVIOUS
    <2>1. /\ copied.data = Nothing /\ Len(<<>>) = 0 /\ NoWriter.to = {}
          /\ \A h \in Hosts : /\ clip[h] = Nothing /\ writer[h] = NoWriter
                              /\ \A f \in Formats : queue[h][f] = <<>>
                              /\ \A g \in Hosts : net[h][g] = <<>> /\ reading[h][g] = Nothing
      BY DEF Init, NoWriter
    <2>2. OnlyReported
      BY <2>1 DEF OnlyReported, News
    <2>3. OnlySent /\ OnlyArriving /\ OnlyShown
      BY <2>1 DEF OnlySent, OnlyArriving, OnlyShown
    <2>4. OnlyInFrames
      BY <2>1 DEF OnlyInFrames
    <2> QED
      BY <2>1, <2>2, <2>3, <2>4 DEF OnlyTheCopy, Spreads
  <1> QED
    BY <1>1, InitTyped, TypeStep, OnlyTheCopyStep, SpreadsStep, PTL DEF Spec, SpreadInv

(* When nothing is under way, every host has recorded the copy that was    *)
(* noticed, and shows it.                                                  *)
LEMMA SpreadWhenQuiet ==
    ASSUME SpreadInv, Quiet, copied.data # Nothing, ~copied.missed, NEW h \in Hosts
    PROVE  Recorded(h) /\ Alike(clip[h])
  <1> DEFINE a == copied.by
  <1>1. /\ a \in Hosts /\ Alike(clip[a])
        /\ Untaken \/ (Recorded(a) /\ \A k \in Others(a) : Comes(k))
    BY DEF SpreadInv, Spreads
  <1>2. \A k \in Hosts : /\ writer[k].to = {}
                         /\ \A f \in Formats : queue[k][f] = <<>> /\ ~News(k, f)
                         /\ \A g \in Hosts : net[k][g] = <<>> /\ reading[k][g] = Nothing
    BY QuietHosts
  <1>3. ~Untaken
    BY <1>1, <1>2 DEF Untaken
  <1>4. CASE h = a
    BY <1>1, <1>3, <1>4
  <1>5. CASE h # a
    <2>1. Comes(h)
      BY <1>1, <1>3, <1>5 DEF Others
    <2> QED
      BY <1>1, <1>2, <2>1 DEF Comes
  <1> QED
    BY <1>4, <1>5

(* Where no clipboard converts what is copied, the newest entry of every   *)
(* history is what the host shows, whenever all is quiet: with any number  *)
(* of hosts, although every host that receives a copy passes it on and its *)
(* own watchers report it again.                                           *)
THEOREM HistoriesFollow == Spec => [](Unconverted => HistoryUpToDate)
  <1>1. SpreadInv /\ Unconverted => HistoryUpToDate
    <2> SUFFICES ASSUME SpreadInv, Unconverted, Quiet, copied.data # Nothing,
                        ~copied.missed, NEW h \in Hosts
                 PROVE  history[h] # <<>> /\ Last(history[h]) = Shows(h)
      BY DEF HistoryUpToDate
    <2>1. /\ history[h] # <<>> /\ Last(history[h]) = copied.data
          /\ clip[h] = copied.data
      BY SpreadWhenQuiet DEF Recorded, Alike
    <2>2. copied.data \in group.copies
      BY DEF SpreadInv, TypeOK
    <2> QED
      BY <2>1, <2>2 DEF Unconverted, Shows
  <1> QED
    BY <1>1, SpreadAlways, PTL

-----------------------------------------------------------------------------
(* The steps keep the promise.                                             *)
Showing == {h \in AllHosts : h \in Hosts => Looks(clip[h]) = Looks(copied.data)}

LEMMA PromiseStep ==
    ASSUME SpreadInv, SpreadInv', [Next]_vars
    PROVE  [Promise!Next]_(Promise!vars)
  <1> USE DEF Promise!vars, Promise!Next, Promise!Copy, Promise!Spread, Promise!Settled
  <1>0. TypeOK /\ OnlyTheCopy /\ Spreads
    BY DEF SpreadInv
  <1>1. group' = group /\ Hosts' = Hosts
    <2>1. group' = group
      BY DEF Next, Work, Watch, WriterTakes, WriterSends, Receive, WriteClipboard, Copy, vars
    <2> QED
      BY <2>1, SameHosts
  <1>2. Hosts \subseteq AllHosts
    BY <1>0 DEF TypeOK, AllHosts, Hosts, os
  <1>3. \A d : Alike(d) => Looks(d) = Looks(copied.data)
    BY DEF Alike
  <1>4. copied.missed \in BOOLEAN /\ copied'.missed \in BOOLEAN
    BY DEF SpreadInv, TypeOK
  <1>5. \A d \in Data \cup {Nothing} : Looks(d) \in {Looks(x) : x \in Data} \cup {Nothing}
    BY DEF Looks
  <1>6. ASSUME UNCHANGED <<group, clip, copied>> PROVE UNCHANGED Promise!vars
    BY <1>1, <1>6
  <1>7. ASSUME NEW h \in Hosts, NEW g \in Hosts, WriteClipboard(h, g)
        PROVE  Promise!Next
    <2>1. /\ copied' = copied /\ reading[h][g] # Nothing /\ Put(h, reading[h][g])
          /\ reading[h][g] \in Data
      BY <1>0, <1>7, WriteDoes
    <2>2. /\ clip'[h] = reading[h][g]
          /\ \A k \in Hosts : k # h => clip'[k] = clip[k]
      BY <1>0, <1>1, <2>1, PutDoes
    <2>3. Looks(clip'[h]) = Looks(copied.data)
      BY <1>0, <1>3, <2>1, <2>2 DEF OnlyTheCopy, OnlyArriving
    <2>4. Showing' = Showing \cup {h}
      BY <1>1, <1>2, <2>1, <2>2, <2>3 DEF Showing, AllHosts
    <2>5. copied.data \in Data \cup {Nothing}
      BY <1>0, SyncAssumption DEF TypeOK, Data
    <2>6. CASE ~copied.missed
      <3>1. Promise!Spread(h)
        BY <2>1, <2>4, <2>6 DEF Showing
      <3> QED
        BY <1>2, <3>1
    <2>7. CASE copied.missed
      <3>1. Promise!Copy(h)
        BY <1>2, <1>4, <1>5, <2>1, <2>4, <2>5, <2>7 DEF Showing
      <3> QED
        BY <1>2, <3>1
    <2> QED
      BY <2>6, <2>7
  <1>8. ASSUME NEW h \in Hosts, NEW d \in group.copies, Copy(h, d)
        PROVE  Promise!Next
    <2>1. Quiet /\ d \in Data /\ Put(h, d) /\ copied'.data = d
      BY <1>0, <1>8, CopyDoes
    <2>2. clip'[h] = d
      BY <1>0, <1>1, <2>1, PutDoes
    <2>3. Showing = AllHosts \/ copied.missed
      <3> SUFFICES ASSUME ~copied.missed, NEW k \in Hosts
                   PROVE  Looks(clip[k]) = Looks(copied.data)
        BY DEF Showing
      <3>1. CASE copied.data = Nothing
        BY <1>0, <3>1 DEF OnlyTheCopy, OnlyShown
      <3>2. CASE copied.data # Nothing
        BY <1>3, <2>1, <3>2, SpreadWhenQuiet
      <3> QED
        BY <3>1, <3>2
    <2>4. h \in Showing' /\ Showing' \subseteq AllHosts
      BY <1>1, <1>2, <2>1, <2>2 DEF Showing, AllHosts
    <2>5. Promise!Copy(h)
      BY <1>4, <1>5, <2>1, <2>3, <2>4 DEF Showing
    <2> QED
      BY <1>2, <2>5
  <1>9. \/ UNCHANGED <<group, clip, copied>>
        \/ \E h \in Hosts : \E g \in Hosts : WriteClipboard(h, g)
        \/ \E h \in Hosts : \E d \in group.copies : Copy(h, d)
    BY <1>0, Steps DEF Watch, WriterTakes, WriterSends, Receive, vars
  <1> QED
    BY <1>6, <1>7, <1>8, <1>9

(* Every step keeps the promise of SharedClipboard, with any number of     *)
(* hosts of any systems: a copy that is noticed puts nothing else on any   *)
(* clipboard, and when it has come to rest every host shows it, as it is   *)
(* or as a clipboard has converted it.  That each host comes to show it    *)
(* needs the fairness, and is left to the runs.                            *)
THEOREM SharesStepByStep == Spec => Promise!Init /\ [][Promise!Next]_(Promise!vars)
  <1>1. Init => Promise!Init
    <2> SUFFICES ASSUME Init PROVE Promise!Init
      OBVIOUS
    <2>1. /\ copied.data = Nothing /\ copied.missed = FALSE
          /\ \A h \in Hosts : clip[h] = Nothing
      BY DEF Init
    <2> QED
      BY <2>1 DEF Promise!Init, Looks
  <1> QED
    BY <1>1, PromiseStep, SpreadAlways, PTL DEF Spec
=============================================================================
