------------------------- MODULE FileTransferProofs -------------------------
(* Theorems about FileTransfer for any contents, chunk size, size limit    *)
(* and channel capacity.                                                   *)
EXTENDS FileTransfer, SequenceTheorems, TLAPS

(* The only message of a queue is its head, and nothing follows it.        *)
LEMMA LastMessage ==
    ASSUME NEW S, NEW queue \in Seq(S), queue # <<>>, Len(queue) <= 1
    PROVE  /\ Tail(queue) = <<>>
           /\ Head(queue) = queue[1] /\ Head(queue) \in S /\ 1 \in 1..Len(queue)
           /\ Len(queue) = 1
  <1>1. Len(queue) = 1
    <2>1. Len(queue) \in Nat \ {0}
      BY EmptySeq
    <2> QED
      BY <2>1
  <1>2. Head(queue) \in S /\ Tail(queue) \in Seq(S) /\ Len(Tail(queue)) = 0
    BY <1>1, HeadTailProperties
  <1>3. Tail(queue) = <<>>
    <2>1. Tail(queue) # <<>> => Len(Tail(queue)) \in Nat \ {0}
      BY <1>2, EmptySeq
    <2> QED
      BY <1>2, <2>1
  <1>4. Head(queue) = queue[1]
    <2>1. SubSeq(queue, 1, 1) = queue
      BY <1>1, SubSeqFull
    <2>2. Head(SubSeq(queue, 1, 1)) = queue[1]
      BY <1>1, HeadTailOfSubSeq
    <2> QED
      BY <2>1, <2>2
  <1> QED
    BY <1>1, <1>2, <1>3, <1>4

(* A message posted to an empty queue is alone in it, or lost.             *)
LEMMA PostedAlone ==
    ASSUME NEW S, NEW msg \in S, NEW e
    PROVE  /\ Post(<<>>, msg, e) \in Seq(S)
           /\ Len(Post(<<>>, msg, e)) <= 1
           /\ \A i \in 1..Len(Post(<<>>, msg, e)) : Post(<<>>, msg, e)[i] = msg
  BY DEF Post

(* The messages have their types.                                          *)
LEMMA MessageTypes ==
    /\ \A n \in Nat : MetaData(n) \in Requests /\ MetaData(n).type = "meta"
    /\ \A b \in Seq(Nat) : /\ Chunk(b) \in Requests
                           /\ Chunk(b).type = "chunk" /\ Chunk(b).bytes = b
    /\ \A t \in {"ACCEPT", "REJECT", "VALIDATE_ERROR", "RECEIVED_CHUNK"} :
          Event(t) \in Answers /\ Event(t).type = t
    /\ \A m \in Requests : /\ m.type = "meta" => m.size \in Nat
                           /\ m.type = "chunk" => m.bytes \in Seq(Nat)
                           /\ m.type \in {"meta", "chunk"}
  BY DEF MetaData, Chunk, Event, Requests, Answers

(* The shape of the conversation, inductive by itself.                     *)
Shape == TypeOK /\ StopAndWait /\ SenderTurn /\ MetaDataFirst /\ OpenWhileReceiving

(* SendChunk's chunk is the next piece of the source.                      *)
LEMMA ChunkLength ==
    ASSUME NEW s \in Seq(Nat), NEW off \in Nat, off < Len(s),
           NEW upto, upto = IF off + ChunkSize < Len(s) THEN off + ChunkSize ELSE Len(s)
    PROVE  /\ upto \in Nat /\ off < upto /\ upto <= Len(s)
           /\ SubSeq(s, off + 1, upto) \in Seq(Nat)
           /\ Len(SubSeq(s, off + 1, upto)) = upto - off
           /\ StandsAt(SubSeq(s, off + 1, upto), s, off)
  <1>1. upto \in Nat /\ off < upto /\ upto <= Len(s) /\ Len(s) \in Nat
    BY TransferAssumption, LenProperties
  <1> DEFINE t == SubSeq(s, off + 1, upto)
  <1>2. off + 1 \in Int /\ upto \in Int /\ \A i \in off + 1..upto : s[i] \in Nat
    BY <1>1, ElementOfSeq
  <1>3. /\ t \in Seq(Nat) /\ Len(t) = IF off + 1 <= upto THEN upto - (off + 1) + 1 ELSE 0
        /\ \A i \in 1..upto - (off + 1) + 1 : t[i] = s[off + 1 + i - 1]
    BY <1>2, SubSeqProperties
  <1> HIDE DEF t
  <1>4. Len(t) = upto - off
    BY <1>1, <1>3
  <1>5. ASSUME NEW j \in 1..Len(t) PROVE t[j] = s[off + j]
    <2>1. j \in 1..upto - (off + 1) + 1 /\ off + 1 + j - 1 = off + j
      BY <1>1, <1>4
    <2> QED
      BY <1>3, <2>1
  <1> QED
    BY <1>1, <1>3, <1>4, <1>5 DEF t, StandsAt

(* What the queues hold, as every step that takes a message needs it.      *)
LEMMA UnderWay ==
    ASSUME Shape
    PROVE  /\ toRecv # <<>> =>
                 /\ Tail(toRecv) = <<>> /\ toSend = <<>>
                 /\ Head(toRecv) = toRecv[1] /\ Head(toRecv) \in Requests
                 /\ 1 \in 1..Len(toRecv)
           /\ toSend # <<>> =>
                 /\ Tail(toSend) = <<>> /\ toRecv = <<>>
                 /\ Head(toSend) = toSend[1] /\ Head(toSend) \in Answers
                 /\ 1 \in 1..Len(toSend)
  <1>1. /\ toRecv \in Seq(Requests) /\ toSend \in Seq(Answers)
        /\ Len(toRecv) + Len(toSend) <= 1
    BY DEF Shape, TypeOK, StopAndWait
  <1>2. /\ Len(toRecv) \in Nat /\ toRecv # <<>> => Len(toRecv) \in Nat \ {0}
    BY <1>1, LenProperties, EmptySeq
  <1>3. /\ Len(toSend) \in Nat /\ toSend # <<>> => Len(toSend) \in Nat \ {0}
    BY <1>1, LenProperties, EmptySeq
  <1>4. toRecv # <<>> => toSend = <<>>
    BY <1>1, <1>2, <1>3
  <1>5. Len(toRecv) <= 1 /\ Len(toSend) <= 1
    BY <1>1, <1>2, <1>3
  <1>6. ASSUME toRecv # <<>>
        PROVE  /\ Tail(toRecv) = <<>> /\ Head(toRecv) = toRecv[1]
               /\ Head(toRecv) \in Requests /\ 1 \in 1..Len(toRecv)
    BY <1>1, <1>5, <1>6, LastMessage
  <1>7. ASSUME toSend # <<>>
        PROVE  /\ Tail(toSend) = <<>> /\ Head(toSend) = toSend[1]
               /\ Head(toSend) \in Answers /\ 1 \in 1..Len(toSend)
    BY <1>1, <1>5, <1>7, LastMessage
  <1> QED
    BY <1>4, <1>6, <1>7

LEMMA ShapeInit == Init => Shape
  <1> SUFFICES ASSUME Init PROVE Shape
    OBVIOUS
  <1>1. /\ toRecv = <<>> /\ toSend = <<>>
        /\ toRecv \in Seq(Requests) /\ toSend \in Seq(Answers)
        /\ Len(toRecv) = 0 /\ Len(toSend) = 0
    BY EmptySeq DEF Init
  <1>2. TypeOK
    BY <1>1 DEF Init, TypeOK, Ends, Outcomes, Senders, Receivers
  <1>3. StopAndWait /\ SenderTurn /\ MetaDataFirst /\ OpenWhileReceiving
    BY <1>1 DEF Init, StopAndWait, SenderTurn, MetaDataFirst, OpenWhileReceiving,
                Receiving
  <1> QED
    BY <1>2, <1>3 DEF Shape

(* A step of the sender keeps the shape.                                   *)
LEMMA ShapeSender ==
    ASSUME Shape, Sender
    PROVE  Shape'
  <1> USE DEF Shape, TypeOK, StopAndWait, SenderTurn, MetaDataFirst,
              OpenWhileReceiving
  <1>empty. Len(<<>>) = 0 /\ <<>> \in Seq(Requests) /\ <<>> \in Seq(Answers)
    BY EmptySeq
  <1>1. CASE SendMetaData
    <2>1. /\ toRecv = <<>> /\ toSend = <<>> /\ source \in Seq(Nat)
          /\ Len(source) \in Nat
      BY <1>1, LenProperties, TransferAssumption DEF SendMetaData
    <2>2. MetaData(Len(source)) \in Requests /\ MetaData(Len(source)).type = "meta"
      BY <2>1, MessageTypes
    <2>3. /\ toRecv' \in Seq(Requests) /\ Len(toRecv') <= 1
          /\ \A i \in 1..Len(toRecv') : toRecv'[i].type = "meta"
      BY <1>1, <2>1, <2>2, PostedAlone DEF SendMetaData
    <2>4. Len(toRecv') \in Nat
      BY <2>3, LenProperties
    <2>typed. snd' \in Senders
      BY <1>1, <1>empty, <2>1, <2>3, <2>4 DEF SendMetaData, Senders, Outcomes
    <2>type. TypeOK'
      BY <1>1, <1>empty, <2>1, <2>3, <2>4, <2>typed DEF SendMetaData, Ends
    <2>turn. StopAndWait' /\ SenderTurn'
      BY <1>1, <1>empty, <2>1, <2>3, <2>4 DEF SendMetaData
    <2>order. MetaDataFirst'
      BY <1>1, <1>empty, <2>1, <2>3, <2>4 DEF SendMetaData
    <2>open. OpenWhileReceiving'
      BY <1>1, <1>empty, <2>1, <2>3, <2>4 DEF SendMetaData, Receiving
    <2> QED
      BY <2>type, <2>turn, <2>order, <2>open
  <1>2. CASE AwaitAccept
    <2>1. toSend # <<>> /\ Tail(toSend) = <<>> /\ toRecv = <<>>
      BY <1>2, UnderWay DEF AwaitAccept
    <2>typed. snd' \in Senders
      BY <1>2, <1>empty, <2>1 DEF AwaitAccept, Senders, Outcomes
    <2>type. TypeOK'
      BY <1>2, <1>empty, <2>1, <2>typed DEF AwaitAccept, Ends
    <2>turn. StopAndWait' /\ SenderTurn'
      BY <1>2, <1>empty, <2>1 DEF AwaitAccept
    <2>order. MetaDataFirst'
      BY <1>2, <1>empty, <2>1 DEF AwaitAccept
    <2>open. OpenWhileReceiving'
      BY <1>2, <1>empty, <2>1 DEF AwaitAccept, Receiving
    <2> QED
      BY <2>type, <2>turn, <2>order, <2>open
  <1>3. CASE SendChunk
    <2> DEFINE upto == IF snd.off + ChunkSize < Len(source)
                       THEN snd.off + ChunkSize ELSE Len(source)
               bytes == SubSeq(source, snd.off + 1, upto)
    <2>1. /\ toRecv = <<>> /\ toSend = <<>> /\ source \in Seq(Nat)
          /\ snd.off \in Nat /\ snd.off < Len(source) /\ snd.pc = "read"
      BY <1>3, TransferAssumption DEF SendChunk, Senders
    <2>2. upto \in Nat /\ bytes \in Seq(Nat)
      BY <2>1, ChunkLength
    <2>3. Chunk(bytes) \in Requests /\ Chunk(bytes).type = "chunk"
      BY <2>2, MessageTypes
    <2>4. /\ toRecv' = Post(toRecv, Chunk(bytes), "recv")
          /\ snd' = [snd EXCEPT !.pc = "ack", !.off = upto]
          /\ UNCHANGED <<source, dest, rcv, toSend, closed, up, progress, setup>>
      BY <1>3 DEF SendChunk
    <2> HIDE DEF upto, bytes
    <2>5. /\ toRecv' \in Seq(Requests) /\ Len(toRecv') <= 1
          /\ \A i \in 1..Len(toRecv') : toRecv'[i].type = "chunk"
      BY <2>1, <2>3, <2>4, PostedAlone
    <2>6. Len(toRecv') \in Nat
      BY <2>5, LenProperties
    <2>typed. snd' \in Senders
      BY <1>empty, <2>1, <2>2, <2>4, <2>5, <2>6 DEF Senders, Outcomes
    <2>type. TypeOK'
      BY <1>empty, <2>1, <2>2, <2>4, <2>5, <2>6, <2>typed DEF Ends
    <2>turn. StopAndWait' /\ SenderTurn'
      BY <1>empty, <2>1, <2>2, <2>4, <2>5, <2>6
    <2>order. MetaDataFirst'
      BY <1>empty, <2>1, <2>2, <2>4, <2>5, <2>6
    <2>open. OpenWhileReceiving'
      BY <1>empty, <2>1, <2>2, <2>4, <2>5, <2>6 DEF Receiving
    <2> QED
      BY <2>type, <2>turn, <2>order, <2>open
  <1>4. ASSUME NEW tick \in BOOLEAN, AwaitAck(tick) PROVE Shape'
    <2>1. toSend # <<>> /\ Tail(toSend) = <<>> /\ toRecv = <<>>
      BY <1>4, UnderWay DEF AwaitAck
    <2>typed. snd' \in Senders
      BY <1>4, <1>empty, <2>1 DEF AwaitAck, Senders, Outcomes
    <2>type. TypeOK'
      BY <1>4, <1>empty, <2>1, <2>typed DEF AwaitAck, Ends
    <2>turn. StopAndWait' /\ SenderTurn'
      BY <1>4, <1>empty, <2>1 DEF AwaitAck
    <2>order. MetaDataFirst'
      BY <1>4, <1>empty, <2>1 DEF AwaitAck
    <2>open. OpenWhileReceiving'
      BY <1>4, <1>empty, <2>1 DEF AwaitAck, Receiving
    <2> QED
      BY <2>type, <2>turn, <2>order, <2>open
  <1>5. CASE ReadEnd
    <2>typed. snd' \in Senders
      BY <1>5 DEF ReadEnd, Senders, Outcomes
    <2>type. TypeOK'
      BY <1>5, <2>typed DEF ReadEnd, Ends
    <2>turn. StopAndWait' /\ SenderTurn'
      BY <1>5 DEF ReadEnd
    <2>order. MetaDataFirst'
      BY <1>5 DEF ReadEnd
    <2>open. OpenWhileReceiving'
      BY <1>5 DEF ReadEnd, Receiving
    <2> QED
      BY <2>type, <2>turn, <2>order, <2>open
  <1>6. CASE SenderFails
    <2>typed. snd' \in Senders
      BY <1>6 DEF SenderFails, Senders, Outcomes
    <2>type. TypeOK'
      BY <1>6, <2>typed DEF SenderFails, Ends
    <2>turn. StopAndWait' /\ SenderTurn'
      BY <1>6 DEF SenderFails
    <2>order. MetaDataFirst'
      BY <1>6 DEF SenderFails
    <2>open. OpenWhileReceiving'
      BY <1>6 DEF SenderFails, Receiving
    <2> QED
      BY <2>type, <2>turn, <2>order, <2>open
  <1>7. CASE SenderReports
    <2>1. progress' \in [Ends -> 0..Capacity]
      BY <1>7, TransferAssumption DEF SenderReports, Ends
    <2>typed. snd' \in Senders
      BY <1>7, <2>1 DEF SenderReports, Senders, Outcomes
    <2>type. TypeOK'
      BY <1>7, <2>1, <2>typed DEF SenderReports, Ends
    <2>turn. StopAndWait' /\ SenderTurn'
      BY <1>7, <2>1 DEF SenderReports
    <2>order. MetaDataFirst'
      BY <1>7, <2>1 DEF SenderReports
    <2>open. OpenWhileReceiving'
      BY <1>7, <2>1 DEF SenderReports, Receiving
    <2> QED
      BY <2>type, <2>turn, <2>order, <2>open
  <1>8. CASE SenderCloses
    <2>typed. snd' \in Senders
      BY <1>8 DEF SenderCloses, Senders, Outcomes
    <2>type. TypeOK'
      BY <1>8, <2>typed DEF SenderCloses, Ends
    <2>turn. StopAndWait' /\ SenderTurn'
      BY <1>8 DEF SenderCloses
    <2>order. MetaDataFirst'
      BY <1>8 DEF SenderCloses
    <2>open. OpenWhileReceiving'
      BY <1>8 DEF SenderCloses, Receiving
    <2> QED
      BY <2>type, <2>turn, <2>order, <2>open
  <1> QED
    BY <1>1, <1>2, <1>3, <1>4, <1>5, <1>6, <1>7, <1>8 DEF Sender

(* A step of the receiver keeps the shape.                                 *)
LEMMA ShapeReceiver ==
    ASSUME Shape, Receiver
    PROVE  Shape'
  <1> USE DEF Shape, TypeOK, StopAndWait, SenderTurn, MetaDataFirst,
              OpenWhileReceiving
  <1>empty. Len(<<>>) = 0 /\ <<>> \in Seq(Requests) /\ <<>> \in Seq(Answers)
    BY EmptySeq
  <1>1. CASE AdmitPeer
    <2>moves. /\ rcv'.open = rcv.open /\ rcv'.pc \in {"meta", "close"}
          /\ rcv.pc = "start"
      BY <1>1 DEF AdmitPeer, Receivers
    <2>typed. rcv' \in Receivers
      BY <1>1, <2>moves DEF AdmitPeer, Receivers, Outcomes
    <2>type. TypeOK'
      BY <1>1, <2>moves, <2>typed DEF AdmitPeer, Ends
    <2>turn. StopAndWait' /\ SenderTurn'
      BY <1>1, <2>moves DEF AdmitPeer
    <2>order. MetaDataFirst'
      BY <1>1, <2>moves DEF AdmitPeer
    <2>open. OpenWhileReceiving'
      BY <1>1, <2>moves DEF AdmitPeer, Receiving
    <2> QED
      BY <2>type, <2>turn, <2>order, <2>open
  <1>2. CASE ReceiveMetaData
    <2> DEFINE size == Head(toRecv).size
               answer == IF TooLarge(size) THEN "VALIDATE_ERROR"
                         ELSE IF setup.autoAccept THEN "ACCEPT" ELSE "REJECT"
    <2>1. /\ toRecv # <<>> /\ Tail(toRecv) = <<>> /\ toSend = <<>> /\ rcv.pc = "meta"
          /\ size \in Nat
      BY <1>2, UnderWay, MessageTypes DEF ReceiveMetaData
    <2>2. Event(answer) \in Answers
      BY MessageTypes
    <2>3. /\ toSend' = Post(toSend, Event(answer), "send") /\ toRecv' = <<>>
          /\ rcv' = IF answer = "ACCEPT"
                    THEN [rcv EXCEPT !.pc = "prepare", !.size = size]
                    ELSE [rcv EXCEPT !.pc = "report", !.size = size,
                                     !.outcome = "failed"]
          /\ UNCHANGED <<source, dest, snd, closed, up, progress, setup>>
      BY <1>2, <2>1 DEF ReceiveMetaData
    <2> HIDE DEF size, answer
    <2>4. toSend' \in Seq(Answers) /\ Len(toSend') <= 1
      BY <2>1, <2>2, <2>3, PostedAlone
    <2>5. Len(toSend') \in Nat
      BY <2>4, LenProperties
    <2>typed. rcv' \in Receivers
      BY <1>empty, <2>1, <2>3, <2>4, <2>5 DEF Receivers, Outcomes
    <2>type. TypeOK'
      BY <1>empty, <2>1, <2>3, <2>4, <2>5, <2>typed DEF Ends
    <2>turn. StopAndWait' /\ SenderTurn'
      BY <1>empty, <2>1, <2>3, <2>4, <2>5
    <2>order. MetaDataFirst'
      BY <1>empty, <2>1, <2>3, <2>4, <2>5
    <2>open. OpenWhileReceiving'
      BY <1>empty, <2>1, <2>3, <2>4, <2>5 DEF Receiving
    <2> QED
      BY <2>type, <2>turn, <2>order, <2>open
  <1>3. CASE Prepare
    <2>moves. \/ /\ rcv'.open = TRUE /\ rcv'.pc = "chunk" /\ dest' = <<>>
          \/ /\ rcv'.open = rcv.open /\ rcv'.pc = "report" /\ dest' = dest
      BY <1>3 DEF Prepare, Receivers
    <2>empty. rcv.pc = "prepare" /\ <<>> \in Seq(Nat)
      BY <1>3, EmptySeq DEF Prepare
    <2>typed. rcv' \in Receivers
      BY <1>3, <1>empty, <2>moves, <2>empty DEF Prepare, Receivers, Outcomes
    <2>type. TypeOK'
      BY <1>3, <1>empty, <2>moves, <2>empty, <2>typed DEF Prepare, Ends
    <2>turn. StopAndWait' /\ SenderTurn'
      BY <1>3, <1>empty, <2>moves, <2>empty DEF Prepare
    <2>order. MetaDataFirst'
      BY <1>3, <1>empty, <2>moves, <2>empty DEF Prepare
    <2>open. OpenWhileReceiving'
      BY <1>3, <1>empty, <2>moves, <2>empty DEF Prepare, Receiving
    <2> QED
      BY <2>type, <2>turn, <2>order, <2>open
  <1>4. ASSUME NEW tick \in BOOLEAN, ReceiveChunk(tick) PROVE Shape'
    <2>1. /\ toRecv # <<>> /\ Tail(toRecv) = <<>> /\ toSend = <<>>
          /\ Head(toRecv).bytes \in Seq(Nat) /\ dest \in Seq(Nat) /\ rcv.open
      BY <1>4, UnderWay, MessageTypes DEF ReceiveChunk, Receiving
    <2>2. Event("RECEIVED_CHUNK") \in Answers
      BY MessageTypes
    <2>3. toSend' \in Seq(Answers) /\ Len(toSend') <= 1
      BY <1>4, <2>1, <2>2, PostedAlone DEF ReceiveChunk
    <2>4. Len(toSend') \in Nat
      BY <2>3, LenProperties
    <2>5. dest' \in Seq(Nat)
      BY <1>4, <2>1, ConcatProperties DEF ReceiveChunk
    <2>6. /\ toRecv' = <<>> /\ rcv.pc = "chunk"
          /\ rcv'.pc \in {"chunk", "progress"} /\ rcv' = [rcv EXCEPT !.pc = rcv'.pc]
          /\ rcv'.open = TRUE
          /\ UNCHANGED <<source, snd, closed, up, progress, setup>>
      BY <1>4, <2>1 DEF ReceiveChunk, Receivers
    <2>typed. rcv' \in Receivers
      BY <1>empty, <2>1, <2>3, <2>4, <2>5, <2>6 DEF Receivers, Outcomes
    <2>type. TypeOK'
      BY <1>empty, <2>1, <2>3, <2>4, <2>5, <2>6, <2>typed DEF Ends
    <2>turn. StopAndWait' /\ SenderTurn'
      BY <1>empty, <2>1, <2>3, <2>4, <2>5, <2>6
    <2>order. MetaDataFirst'
      BY <1>empty, <2>1, <2>3, <2>4, <2>5, <2>6
    <2>open. OpenWhileReceiving'
      BY <1>empty, <2>1, <2>3, <2>4, <2>5, <2>6 DEF Receiving
    <2> QED
      BY <2>type, <2>turn, <2>order, <2>open
  <1>5. CASE DecryptFails
    <2>1. toRecv # <<>> /\ Tail(toRecv) = <<>> /\ toSend = <<>>
      BY <1>5, UnderWay DEF DecryptFails
    <2>2. Event("VALIDATE_ERROR") \in Answers
      BY MessageTypes
    <2>3. toSend' \in Seq(Answers) /\ Len(toSend') <= 1
      BY <1>5, <2>1, <2>2, PostedAlone DEF DecryptFails
    <2>4. Len(toSend') \in Nat
      BY <2>3, LenProperties
    <2>typed. rcv' \in Receivers
      BY <1>5, <1>empty, <2>1, <2>3, <2>4 DEF DecryptFails, Receivers, Outcomes
    <2>type. TypeOK'
      BY <1>5, <1>empty, <2>1, <2>3, <2>4, <2>typed DEF DecryptFails, Ends
    <2>turn. StopAndWait' /\ SenderTurn'
      BY <1>5, <1>empty, <2>1, <2>3, <2>4 DEF DecryptFails
    <2>order. MetaDataFirst'
      BY <1>5, <1>empty, <2>1, <2>3, <2>4 DEF DecryptFails
    <2>open. OpenWhileReceiving'
      BY <1>5, <1>empty, <2>1, <2>3, <2>4 DEF DecryptFails, Receiving
    <2> QED
      BY <2>type, <2>turn, <2>order, <2>open
  <1>6. CASE ChunkFails
    <2>1. /\ toRecv # <<>> /\ Tail(toRecv) = <<>> /\ toSend = <<>>
          /\ Head(toRecv).bytes \in Seq(Nat) /\ dest \in Seq(Nat) /\ rcv.open
      BY <1>6, UnderWay, MessageTypes DEF ChunkFails, Receiving
    <2>2. PICK n \in 0..Len(Head(toRecv).bytes) :
            dest' = dest \o SubSeq(Head(toRecv).bytes, 1, n)
      BY <1>6 DEF ChunkFails
    <2>3. SubSeq(Head(toRecv).bytes, 1, n) \in Seq(Nat)
      BY <2>1, <2>2, LenProperties, ElementOfSeq, SubSeqProperties
    <2>4. dest' \in Seq(Nat)
      BY <2>1, <2>2, <2>3, ConcatProperties
    <2>5. /\ toRecv' = <<>> /\ rcv.pc = "chunk"
          /\ rcv' = [rcv EXCEPT !.pc = "report", !.outcome = "failed"]
          /\ UNCHANGED <<source, snd, toSend, closed, up, progress, setup>>
      BY <1>6, <2>1 DEF ChunkFails
    <2>typed. rcv' \in Receivers
      BY <1>empty, <2>1, <2>4, <2>5 DEF Receivers, Outcomes
    <2>type. TypeOK'
      BY <1>empty, <2>1, <2>4, <2>5, <2>typed DEF Ends
    <2>turn. StopAndWait' /\ SenderTurn'
      BY <1>empty, <2>1, <2>4, <2>5
    <2>order. MetaDataFirst'
      BY <1>empty, <2>1, <2>4, <2>5
    <2>open. OpenWhileReceiving'
      BY <1>empty, <2>1, <2>4, <2>5 DEF Receiving
    <2> QED
      BY <2>type, <2>turn, <2>order, <2>open
  <1>7. CASE FileFails
    <2>typed. rcv' \in Receivers
      BY <1>7 DEF FileFails, Receivers, Outcomes
    <2>type. TypeOK'
      BY <1>7, <2>typed DEF FileFails, Ends
    <2>turn. StopAndWait' /\ SenderTurn'
      BY <1>7 DEF FileFails
    <2>order. MetaDataFirst'
      BY <1>7 DEF FileFails
    <2>open. OpenWhileReceiving'
      BY <1>7 DEF FileFails, Receiving
    <2> QED
      BY <2>type, <2>turn, <2>order, <2>open
  <1>8. CASE Finish
    <2>moves. /\ rcv'.open = rcv.open /\ rcv'.pc = "report" /\ rcv.pc = "finish"
          /\ dest' \in {dest, NoFile} /\ rcv.open = TRUE
      BY <1>8 DEF Finish, Receivers, Receiving
    <2>typed. rcv' \in Receivers
      BY <1>8, <2>moves DEF Finish, Receivers, Outcomes
    <2>type. TypeOK'
      BY <1>8, <2>moves, <2>typed DEF Finish, Ends
    <2>turn. StopAndWait' /\ SenderTurn'
      BY <1>8, <2>moves DEF Finish
    <2>order. MetaDataFirst'
      BY <1>8, <2>moves DEF Finish
    <2>open. OpenWhileReceiving'
      BY <1>8, <2>moves DEF Finish, Receiving
    <2> QED
      BY <2>type, <2>turn, <2>order, <2>open
  <1>9. CASE ReceiverFails
    <2>typed. rcv' \in Receivers
      BY <1>9 DEF ReceiverFails, Receivers, Outcomes
    <2>type. TypeOK'
      BY <1>9, <2>typed DEF ReceiverFails, Ends
    <2>turn. StopAndWait' /\ SenderTurn'
      BY <1>9 DEF ReceiverFails
    <2>order. MetaDataFirst'
      BY <1>9 DEF ReceiverFails
    <2>open. OpenWhileReceiving'
      BY <1>9 DEF ReceiverFails, Receiving
    <2> QED
      BY <2>type, <2>turn, <2>order, <2>open
  <1>10. CASE ReceiverReports
    <2>1. progress' \in [Ends -> 0..Capacity]
      BY <1>10, TransferAssumption DEF ReceiverReports, Ends
    <2>moves. rcv'.open = rcv.open /\ dest' = dest
      BY <1>10 DEF ReceiverReports, Receivers
    <2>typed. rcv' \in Receivers
      BY <1>10, <2>1, <2>moves DEF ReceiverReports, Receivers, Outcomes
    <2>type. TypeOK'
      BY <1>10, <2>1, <2>moves, <2>typed DEF ReceiverReports, Ends
    <2>turn. StopAndWait' /\ SenderTurn'
      BY <1>10, <2>1, <2>moves DEF ReceiverReports
    <2>order. MetaDataFirst'
      BY <1>10, <2>1, <2>moves DEF ReceiverReports
    <2>open. OpenWhileReceiving'
      BY <1>10, <2>1, <2>moves DEF ReceiverReports, Receiving
    <2> QED
      BY <2>type, <2>turn, <2>order, <2>open
  <1>11. CASE FileReceived
    <2>typed. rcv' \in Receivers
      BY <1>11 DEF FileReceived, Receivers, Outcomes
    <2>type. TypeOK'
      BY <1>11, <2>typed DEF FileReceived, Ends
    <2>turn. StopAndWait' /\ SenderTurn'
      BY <1>11 DEF FileReceived
    <2>order. MetaDataFirst'
      BY <1>11 DEF FileReceived
    <2>open. OpenWhileReceiving'
      BY <1>11 DEF FileReceived, Receiving
    <2> QED
      BY <2>type, <2>turn, <2>order, <2>open
  <1>12. CASE ReceiverCloses
    <2>typed. rcv' \in Receivers
      BY <1>12 DEF ReceiverCloses, Receivers, Outcomes
    <2>type. TypeOK'
      BY <1>12, <2>typed DEF ReceiverCloses, Ends
    <2>turn. StopAndWait' /\ SenderTurn'
      BY <1>12 DEF ReceiverCloses
    <2>order. MetaDataFirst'
      BY <1>12 DEF ReceiverCloses
    <2>open. OpenWhileReceiving'
      BY <1>12 DEF ReceiverCloses, Receiving
    <2> QED
      BY <2>type, <2>turn, <2>order, <2>open
  <1> QED
    BY <1>1, <1>2, <1>3, <1>4, <1>5, <1>6, <1>7, <1>8, <1>9, <1>10, <1>11, <1>12
       DEF Receiver

(* Every step keeps the shape.                                             *)
LEMMA ShapeStep ==
    ASSUME Shape, [Next]_vars
    PROVE  Shape'
  <1> USE DEF Shape, TypeOK, StopAndWait, SenderTurn, MetaDataFirst,
              OpenWhileReceiving, Receiving
  <1>1. CASE Sender
    BY <1>1, ShapeSender
  <1>2. CASE Receiver
    BY <1>2, ShapeReceiver
  <1>3. ASSUME NEW e \in Ends, Drain(e) PROVE Shape'
    <2>1. progress' \in [Ends -> 0..Capacity]
      BY <1>3, TransferAssumption DEF Drain
    <2> QED
      BY <1>3, <2>1 DEF Drain
  <1>4. CASE LinkLost
    BY <1>4 DEF LinkLost
  <1>5. CASE SourceChanges
    BY <1>5 DEF SourceChanges
  <1>6. CASE UNCHANGED vars
    BY <1>6 DEF vars
  <1> QED
    BY <1>1, <1>2, <1>3, <1>4, <1>5, <1>6 DEF Next

(* The conversation has the same shape in every reachable state.           *)
LEMMA ShapeAlways == Spec => []Shape
  BY ShapeInit, ShapeStep, PTL DEF Spec

(* Every state is one the types of the code allow, a message being what    *)
(* the end that takes it expects there: in ReceiveMetaData the metadata,   *)
(* in ReceiveChunk a chunk.                                                *)
THEOREM TypeCorrect == Spec => []TypeOK
  <1>1. Shape => TypeOK
    BY DEF Shape
  <1> QED
    BY <1>1, ShapeAlways, PTL

(* SendFile and ReceiveFile never have more than one message between them, *)
(* however long the file and whatever fails.                               *)
THEOREM OneMessageUnderWay == Spec => []StopAndWait
  <1>1. Shape => StopAndWait
    BY DEF Shape
  <1> QED
    BY <1>1, ShapeAlways, PTL

-----------------------------------------------------------------------------
(* What ReceiveFile checks before it opens the destination still holds     *)
(* while the destination is open.                                          *)
LEMMA OpenedStep ==
    ASSUME Shape, OpenedIfAccepted, [Next]_vars
    PROVE  OpenedIfAccepted'
  <1> USE DEF OpenedIfAccepted, TooLarge
  <1>typed. rcv \in Receivers /\ setup \in [autoAccept : BOOLEAN, keyFits : BOOLEAN]
    BY DEF Shape, TypeOK
  <1>1. CASE Sender
    <2>1. UNCHANGED <<rcv, setup>>
      BY <1>1 DEF Sender, SendMetaData, AwaitAccept, SendChunk, AwaitAck, ReadEnd,
                  SenderFails, SenderReports, SenderCloses
    <2> QED
      BY <2>1
  <1>2. CASE ReceiveMetaData
    <2>1. /\ rcv.open = FALSE /\ rcv'.open = rcv.open /\ setup' = setup
          /\ rcv'.pc = "prepare" => setup.autoAccept /\ ~TooLarge(rcv'.size)
      BY <1>2, <1>typed DEF ReceiveMetaData, Receivers, Shape, OpenWhileReceiving
    <2> QED
      BY <2>1
  <1>3. CASE Prepare
    <2>1. rcv.pc = "prepare" /\ setup' = setup
      BY <1>3 DEF Prepare
    <2>2. CASE setup.keyFits
      <3>1. rcv'.pc = "chunk" /\ rcv'.size = rcv.size
        BY <1>3, <1>typed, <2>2 DEF Prepare, Receivers
      <3> QED
        BY <2>1, <2>2, <3>1
    <2>3. CASE ~setup.keyFits
      <3>1. rcv'.pc = "report" /\ rcv'.size = rcv.size /\ rcv'.open = rcv.open
        BY <1>3, <1>typed, <2>3 DEF Prepare, Receivers
      <3> QED
        BY <2>1, <3>1
    <2> QED
      BY <2>2, <2>3
  <1>4. CASE Receiver /\ ~ReceiveMetaData /\ ~Prepare
    <2>1. /\ rcv'.pc # "prepare" /\ rcv'.size = rcv.size /\ setup' = setup
          /\ rcv'.open = rcv.open
      BY <1>4, <1>typed DEF Receiver, AdmitPeer, ReceiveChunk, DecryptFails, ChunkFails,
                  FileFails, Finish, ReceiverFails, ReceiverReports, FileReceived,
                  ReceiverCloses, Receivers
    <2> QED
      BY <2>1
  <1>5. CASE (\E e \in Ends : Drain(e)) \/ LinkLost \/ SourceChanges \/ UNCHANGED vars
    <2>1. UNCHANGED <<rcv, setup>>
      BY <1>5 DEF Drain, LinkLost, SourceChanges, vars
    <2> QED
      BY <2>1
  <1> QED
    BY <1>1, <1>2, <1>3, <1>4, <1>5 DEF Next

(* A refused transfer leaves the destination as it was, for any limit and  *)
(* any file: the size, the user's consent and the key are all checked      *)
(* before ReceiveFile truncates it.                                        *)
THEOREM RefusalLeavesNoTrace == Spec => []RefusedLeavesNoTrace
  <1>1. Init => OpenedIfAccepted
    BY DEF Init, OpenedIfAccepted
  <1>2. Shape /\ OpenedIfAccepted /\ [Next]_vars => OpenedIfAccepted'
    BY OpenedStep
  <1>3. Shape /\ OpenedIfAccepted => RefusedLeavesNoTrace
    BY DEF Shape, OpenWhileReceiving, OpenedIfAccepted, RefusedLeavesNoTrace
  <1> QED
    BY <1>1, <1>2, <1>3, ShapeAlways, PTL DEF Spec

-----------------------------------------------------------------------------
(* Once the transfer has succeeded the file stays as it is.                *)
LEMMA WholeStep ==
    ASSUME Shape, OkIsWhole, [Next]_vars
    PROVE  OkIsWhole'
  <1> USE DEF OkIsWhole
  <1>typed. rcv \in Receivers
    BY DEF Shape, TypeOK
  <1>1. CASE Sender
    <2>1. UNCHANGED <<rcv, dest>>
      BY <1>1 DEF Sender, SendMetaData, AwaitAccept, SendChunk, AwaitAck, ReadEnd,
                  SenderFails, SenderReports, SenderCloses
    <2> QED
      BY <2>1
  <1>2. CASE Finish
    <2>1. /\ rcv'.pc = "report" /\ rcv'.pasted = rcv.pasted /\ rcv'.size = rcv.size
          /\ rcv.pc = "finish" /\ rcv'.outcome \in {"ok", "failed"}
          /\ rcv'.outcome = "ok" => dest' = dest /\ Len(dest) = rcv.size
      BY <1>2, <1>typed DEF Finish, Receivers
    <2>2. dest \in Seq(Nat) /\ ~rcv.pasted
      BY <2>1 DEF Shape, OpenWhileReceiving, Receiving
    <2> QED
      BY <2>1, <2>2
  <1>3. CASE ReceiverReports
    <2>1. /\ rcv'.outcome = rcv.outcome /\ rcv'.pasted = rcv.pasted
          /\ rcv'.size = rcv.size /\ dest' = dest
          /\ rcv'.pc = "hook" => rcv.outcome = "ok"
          /\ rcv.outcome = "ok" => rcv'.pc = "hook"
      BY <1>3, <1>typed DEF ReceiverReports, Receivers
    <2> QED
      BY <2>1
  <1>4. CASE FileReceived \/ ReceiverCloses
    <2>1. /\ rcv'.outcome = rcv.outcome /\ rcv'.size = rcv.size /\ dest' = dest
          /\ rcv'.pc \in {"close", "closed"}
          /\ rcv'.pasted = rcv.pasted \/ rcv.pc = "hook"
      BY <1>4, <1>typed DEF FileReceived, ReceiverCloses, Receivers
    <2> QED
      BY <2>1
  <1>5. CASE \/ AdmitPeer \/ ReceiveMetaData \/ Prepare
             \/ \E tick \in BOOLEAN : ReceiveChunk(tick)
             \/ DecryptFails \/ ChunkFails \/ FileFails \/ ReceiverFails
    <2>1. /\ rcv.pc \in {"start", "meta", "prepare", "chunk", "finish"}
          /\ rcv'.outcome \in {rcv.outcome, "failed"}
          /\ rcv'.pasted = rcv.pasted /\ rcv'.pc # "hook"
      BY <1>5, <1>typed DEF AdmitPeer, ReceiveMetaData, Prepare, ReceiveChunk,
                  DecryptFails, ChunkFails, FileFails, ReceiverFails, Receivers
    <2> QED
      BY <2>1
  <1>6. CASE (\E e \in Ends : Drain(e)) \/ LinkLost \/ SourceChanges \/ UNCHANGED vars
    <2>1. UNCHANGED <<rcv, dest>>
      BY <1>6 DEF Drain, LinkLost, SourceChanges, vars
    <2> QED
      BY <2>1
  <1> QED
    BY <1>1, <1>2, <1>3, <1>4, <1>5, <1>6 DEF Next, Receiver

(* What onFileReceived puts on the clipboard is a file of the size that    *)
(* was announced, even when the source changes while it is sent.           *)
THEOREM PastedFileIsWhole == Spec => []PastedIsWhole
  <1>1. Init => OkIsWhole
    BY DEF Init, OkIsWhole
  <1>2. Shape /\ OkIsWhole /\ [Next]_vars => OkIsWhole'
    BY WholeStep
  <1>3. OkIsWhole => PastedIsWhole
    BY TransferAssumption DEF OkIsWhole, PastedIsWhole
  <1> QED
    BY <1>1, <1>2, <1>3, ShapeAlways, PTL DEF Spec

-----------------------------------------------------------------------------
(* The bytes of the transfer are accounted for at every step: those the    *)
(* sender has had acknowledged, those under way, those in the destination. *)
Accounts == BytesAddUp /\ AckedIsWritten

(* The sender's side of the account: what it sends is one chunk more than  *)
(* what was acknowledged, and an acknowledgement accounts for that chunk.  *)
LEMMA AccountsSender ==
    ASSUME Shape, Accounts, Sender
    PROVE  Accounts'
  <1>typed. /\ snd \in Senders /\ rcv \in Receivers
        /\ toRecv \in Seq(Requests) /\ toSend \in Seq(Answers)
    BY DEF Shape, TypeOK
  <1>empty. Len(<<>>) = 0
    BY EmptySeq
  <1>1. CASE SendMetaData
    <2>1. /\ toRecv = <<>> /\ toSend = <<>> /\ snd.pc = "meta" /\ Len(source) \in Nat
      BY <1>1, TransferAssumption, LenProperties
         DEF SendMetaData, Shape, TypeOK, SenderTurn
    <2>2. MetaData(Len(source)) \in Requests /\ MetaData(Len(source)).type = "meta"
      BY <2>1, MessageTypes
    <2>3. \A i \in 1..Len(toRecv') : toRecv'[i].type = "meta"
      BY <1>1, <2>1, <2>2, PostedAlone DEF SendMetaData
    <2>4. /\ snd'.pc = "accept" /\ snd'.off = snd.off /\ snd'.sent = snd.sent
          /\ UNCHANGED <<dest, rcv, toSend>>
      BY <1>1, <1>typed DEF SendMetaData, Senders
    <2> QED
      BY <1>empty, <2>1, <2>3, <2>4
         DEF Accounts, BytesAddUp, AckedIsWritten, Answered, Receiving
  <1>2. CASE AwaitAccept
    <2>1. /\ toSend # <<>> /\ toSend' = <<>> /\ toRecv = <<>> /\ toRecv' = <<>>
          /\ snd.pc = "accept"
      BY <1>2, UnderWay DEF AwaitAccept
    <2>2. /\ snd'.pc \in {"read", "report"} /\ snd'.off = snd.off
          /\ snd'.sent = snd.sent /\ UNCHANGED <<dest, rcv>>
      BY <1>2, <1>typed DEF AwaitAccept, Senders
    <2> QED
      BY <1>empty, <2>1, <2>2
         DEF Accounts, BytesAddUp, AckedIsWritten, Answered, Receiving
  <1>3. CASE SendChunk
    <2> DEFINE upto == IF snd.off + ChunkSize < Len(source)
                       THEN snd.off + ChunkSize ELSE Len(source)
               bytes == SubSeq(source, snd.off + 1, upto)
    <2>1. /\ toRecv = <<>> /\ toSend = <<>> /\ source \in Seq(Nat)
          /\ snd.off \in Nat /\ snd.off < Len(source) /\ snd.pc = "read"
      BY <1>3, TransferAssumption DEF SendChunk, Senders, Shape, TypeOK, SenderTurn
    <2>2. upto \in Nat /\ bytes \in Seq(Nat) /\ Len(bytes) = upto - snd.off
      BY <2>1, ChunkLength
    <2>3. Chunk(bytes) \in Requests /\ Chunk(bytes).bytes = bytes
      BY <2>2, MessageTypes
    <2>4. /\ toRecv' = Post(toRecv, Chunk(bytes), "recv")
          /\ snd' = [snd EXCEPT !.pc = "ack", !.off = upto]
          /\ UNCHANGED <<dest, rcv, toSend>>
      BY <1>3 DEF SendChunk
    <2> HIDE DEF upto, bytes
    <2>5. \A i \in 1..Len(toRecv') : Len(toRecv'[i].bytes) = upto - snd.off
      BY <2>1, <2>2, <2>3, <2>4, PostedAlone
    <2>6. snd'.pc = "ack" /\ snd'.off = upto /\ snd'.sent = snd.sent
      BY <1>typed, <2>4 DEF Senders
    <2>7. snd.off = snd.sent
      BY <2>1 DEF Accounts, BytesAddUp
    <2>8. \A i \in 1..Len(toRecv') : snd'.off = snd'.sent + Len(toRecv'[i].bytes)
      BY <2>1, <2>2, <2>5, <2>6, <2>7
    <2> QED
      BY <1>empty, <2>1, <2>4, <2>6, <2>8
         DEF Accounts, BytesAddUp, AckedIsWritten, Answered, Receiving
  <1>4. ASSUME NEW tick \in BOOLEAN, AwaitAck(tick) PROVE Accounts'
    <2>1. /\ toSend # <<>> /\ toSend' = <<>> /\ toRecv = <<>> /\ toRecv' = <<>>
          /\ snd.pc = "ack" /\ Head(toSend) = toSend[1] /\ 1 \in 1..Len(toSend)
          /\ UNCHANGED <<dest, rcv>>
      BY <1>4, UnderWay DEF AwaitAck
    <2>2. CASE Answered(1)
      <3>1. /\ snd'.off = snd.off /\ snd'.sent = snd.off
        BY <1>4, <1>typed, <2>1, <2>2 DEF AwaitAck, Senders, Answered
      <3> QED
        BY <1>empty, <2>1, <2>2, <3>1 DEF Accounts, BytesAddUp, AckedIsWritten, Receiving
    <2>3. CASE ~Answered(1)
      <3>1. snd'.pc = "report" /\ snd'.off = snd.off /\ snd'.sent = snd.sent
        BY <1>4, <1>typed, <2>1, <2>3 DEF AwaitAck, Senders, Answered
      <3> QED
        BY <1>empty, <2>1, <3>1 DEF Accounts, BytesAddUp, AckedIsWritten, Receiving
    <2> QED
      BY <2>2, <2>3
  <1>5. CASE ReadEnd \/ SenderFails \/ SenderReports \/ SenderCloses
    <2>1. /\ snd'.off = snd.off /\ snd'.sent = snd.sent
          /\ UNCHANGED <<dest, rcv, toRecv, toSend>>
          /\ snd'.pc \in {"read", "last", "report", "close", "closed"}
          /\ snd'.pc = "read" => snd.pc = "progress"
      BY <1>5, <1>typed DEF ReadEnd, SenderFails, SenderReports, SenderCloses, Senders
    <2> QED
      BY <2>1
         DEF Accounts, BytesAddUp, AckedIsWritten, Answered, Receiving
  <1> QED
    BY <1>1, <1>2, <1>3, <1>4, <1>5 DEF Sender

(* The receiver's side of the account: a chunk is written before it is     *)
(* acknowledged, and what was written goes only with the whole file.       *)
LEMMA AccountsReceiver ==
    ASSUME Shape, Accounts, Receiver
    PROVE  Accounts'
  <1>typed. /\ snd \in Senders /\ rcv \in Receivers
        /\ toRecv \in Seq(Requests) /\ toSend \in Seq(Answers)
    BY DEF Shape, TypeOK
  <1>empty. Len(<<>>) = 0
    BY EmptySeq
  <1>1. CASE ReceiveMetaData
    <2> DEFINE answer == IF TooLarge(Head(toRecv).size) THEN "VALIDATE_ERROR"
                         ELSE IF setup.autoAccept THEN "ACCEPT" ELSE "REJECT"
    <2>1. /\ toRecv' = <<>> /\ toSend = <<>> /\ rcv.pc = "meta"
          /\ toSend' = Post(toSend, Event(answer), "send")
      BY <1>1, UnderWay DEF ReceiveMetaData
    <2>2. Event(answer) \in Answers /\ Event(answer).type # "RECEIVED_CHUNK"
      BY DEF Event, Answers
    <2> HIDE DEF answer
    <2>3. \A i \in 1..Len(toSend') : toSend'[i].type # "RECEIVED_CHUNK"
      BY <2>1, <2>2, PostedAlone
    <2>4. /\ UNCHANGED <<dest, snd>> /\ rcv'.open = rcv.open
          /\ rcv'.pc \in {"prepare", "report"}
      BY <1>1, <1>typed DEF ReceiveMetaData, Receivers
    <2> QED
      BY <1>empty, <2>1, <2>3, <2>4
         DEF Accounts, BytesAddUp, AckedIsWritten, Answered, Receiving
  <1>2. CASE Prepare
    <2>1. /\ snd.sent = 0 /\ \A i \in 1..Len(toSend) : ~Answered(i)
          /\ UNCHANGED <<snd, toRecv, toSend>>
      BY <1>2 DEF Prepare, Accounts, BytesAddUp
    <2>2. Receiving' => dest' = <<>>
      BY <1>2, <1>typed DEF Prepare, Receivers, Receiving
    <2>3. rcv'.pc \in {"chunk", "report"}
      BY <1>2, <1>typed DEF Prepare, Receivers
    <2> QED
      BY <1>empty, <2>1, <2>2, <2>3 DEF Accounts, BytesAddUp, AckedIsWritten, Answered
  <1>3. ASSUME NEW tick \in BOOLEAN, ReceiveChunk(tick) PROVE Accounts'
    <2> DEFINE bytes == Head(toRecv).bytes
    <2>1. /\ toRecv # <<>> /\ toRecv' = <<>> /\ toSend = <<>> /\ rcv.pc = "chunk"
          /\ bytes = toRecv[1].bytes /\ bytes \in Seq(Nat) /\ 1 \in 1..Len(toRecv)
          /\ toRecv[1].type = "chunk" /\ dest \in Seq(Nat) /\ rcv.open
      BY <1>3, UnderWay, MessageTypes
         DEF ReceiveChunk, Shape, MetaDataFirst, OpenWhileReceiving, Receiving
    <2>2. dest' = dest \o bytes /\ UNCHANGED snd
      BY <1>3 DEF ReceiveChunk
    <2>3. rcv'.pc \in {"chunk", "progress"} /\ rcv'.open = TRUE
      BY <1>3, <1>typed, <2>1 DEF ReceiveChunk, Receivers
    <2>4. snd.off = snd.sent + Len(bytes) /\ snd.sent <= Len(dest)
      BY <2>1 DEF Accounts, BytesAddUp, Receiving
    <2> HIDE DEF bytes
    <2>5. Len(dest') = Len(dest) + Len(bytes) /\ Len(dest) \in Nat /\ Len(bytes) \in Nat
      BY <2>1, <2>2, ConcatProperties, LenProperties
    <2>6. snd.off <= Len(dest') /\ snd.sent <= Len(dest')
      BY <1>typed, <2>4, <2>5 DEF Senders
    <2> QED
      BY <1>empty, <2>1, <2>2, <2>3, <2>6
         DEF Accounts, BytesAddUp, AckedIsWritten, Receiving
  <1>4. CASE ChunkFails
    <2>1. /\ toRecv' = <<>> /\ toSend = <<>> /\ toSend' = toSend /\ snd' = snd
          /\ dest \in Seq(Nat) /\ rcv.open /\ Head(toRecv).bytes \in Seq(Nat)
          /\ rcv.pc = "chunk"
      BY <1>4, UnderWay, MessageTypes
         DEF ChunkFails, Shape, MetaDataFirst, OpenWhileReceiving, Receiving
    <2>2. PICK n \in 0..Len(Head(toRecv).bytes) :
            dest' = dest \o SubSeq(Head(toRecv).bytes, 1, n)
      BY <1>4 DEF ChunkFails
    <2>3. SubSeq(Head(toRecv).bytes, 1, n) \in Seq(Nat)
      BY <2>1, <2>2, LenProperties, ElementOfSeq, SubSeqProperties
    <2>4. Len(dest') >= Len(dest) /\ Len(dest) \in Nat /\ Len(dest') \in Nat
      BY <2>1, <2>2, <2>3, ConcatProperties, LenProperties
    <2>5. rcv'.pc = "report" /\ rcv'.open = TRUE
      BY <1>4, <1>typed, <2>1 DEF ChunkFails, Receivers
    <2>6. snd.sent <= Len(dest')
      BY <1>typed, <2>1, <2>4 DEF Accounts, BytesAddUp, Receiving, Senders
    <2> QED
      BY <1>empty, <2>1, <2>5, <2>6 DEF Accounts, BytesAddUp, AckedIsWritten, Receiving
  <1>5. CASE DecryptFails
    <2>1. /\ toRecv' = <<>> /\ toSend = <<>>
          /\ toSend' = Post(toSend, Event("VALIDATE_ERROR"), "send")
      BY <1>5, UnderWay DEF DecryptFails
    <2>2. /\ Event("VALIDATE_ERROR") \in Answers
          /\ Event("VALIDATE_ERROR").type # "RECEIVED_CHUNK"
      BY DEF Event, Answers
    <2>3. \A i \in 1..Len(toSend') : toSend'[i].type # "RECEIVED_CHUNK"
      BY <2>1, <2>2, PostedAlone
    <2>4. /\ UNCHANGED <<dest, snd>> /\ rcv'.open = rcv.open /\ rcv'.pc = "report"
      BY <1>5, <1>typed DEF DecryptFails, Receivers
    <2> QED
      BY <1>empty, <2>1, <2>3, <2>4
         DEF Accounts, BytesAddUp, AckedIsWritten, Answered, Receiving
  <1>6. CASE Finish
    <2>1. /\ UNCHANGED <<snd, toRecv, toSend>> /\ rcv'.open = rcv.open
          /\ dest' \in {dest, NoFile} /\ rcv'.pc = "report"
      BY <1>6, <1>typed DEF Finish, Receivers
    <2> QED
      BY <2>1 DEF Accounts, BytesAddUp, AckedIsWritten, Answered, Receiving
  <1>7. CASE \/ AdmitPeer \/ FileFails \/ ReceiverFails \/ ReceiverReports
             \/ FileReceived \/ ReceiverCloses
    <2>1. /\ UNCHANGED <<snd, toRecv, toSend, dest>> /\ rcv'.open = rcv.open
          /\ Receiving' => Receiving
          /\ rcv'.pc \in {"start", "meta", "prepare"}
                => rcv.pc \in {"start", "meta", "prepare"}
      BY <1>7, <1>typed DEF AdmitPeer, FileFails, ReceiverFails, ReceiverReports,
                  FileReceived, ReceiverCloses, Receivers, Receiving
    <2> QED
      BY <2>1 DEF Accounts, BytesAddUp, AckedIsWritten, Answered
  <1> QED
    BY <1>1, <1>2, <1>3, <1>4, <1>5, <1>6, <1>7 DEF Receiver

LEMMA AccountsAlways == Spec => []Accounts
  <1>1. Init => Accounts
    <2> SUFFICES ASSUME Init PROVE Accounts
      OBVIOUS
    <2>1. Len(<<>>) = 0
      BY EmptySeq
    <2> QED
      BY <2>1 DEF Init, Accounts, BytesAddUp, AckedIsWritten, Receiving
  <1>2. ASSUME Shape, Accounts, [Next]_vars PROVE Accounts'
    <2>1. CASE Sender
      BY <1>2, <2>1, AccountsSender
    <2>2. CASE Receiver
      BY <1>2, <2>2, AccountsReceiver
    <2>3. CASE (\E e \in Ends : Drain(e)) \/ LinkLost \/ SourceChanges
               \/ UNCHANGED vars
      <3>1. UNCHANGED <<dest, snd, rcv, toRecv, toSend>>
        BY <2>3 DEF Drain, LinkLost, SourceChanges, vars
      <3> QED
        BY <1>2, <3>1 DEF Accounts, BytesAddUp, AckedIsWritten, Answered, Receiving
    <2> QED
      BY <1>2, <2>1, <2>2, <2>3 DEF Next
  <1> QED
    BY <1>1, <1>2, ShapeAlways, PTL DEF Spec

(* A byte that RECEIVED_CHUNK has acknowledged is in the destination, or   *)
(* the receiver has removed the whole file: for any file and chunk size,   *)
(* whatever the link, the disk and the source do.                          *)
THEOREM AcknowledgedIsWritten == Spec => []AckedIsWritten
  <1>1. Accounts => AckedIsWritten
    BY DEF Accounts
  <1> QED
    BY <1>1, AccountsAlways, PTL

-----------------------------------------------------------------------------
(* What no step of the sender touches.                                     *)
LEMMA SenderKeeps == ASSUME Sender PROVE UNCHANGED <<source, dest, rcv, up, setup>>
  BY DEF Sender, SendMetaData, AwaitAccept, SendChunk, AwaitAck, ReadEnd,
         SenderFails, SenderReports, SenderCloses

(* Each goroutine knows its outcome when its work is over.                 *)
LEMMA OutcomeStep ==
    ASSUME Shape, OutcomeKnown, [Next]_vars
    PROVE  OutcomeKnown'
  <1> USE DEF OutcomeKnown
  <1>typed. snd \in Senders /\ rcv \in Receivers /\ closed \subseteq Ends
    BY DEF Shape, TypeOK
  <1>1. CASE SendMetaData \/ SendChunk \/ ReadEnd \/ SenderFails
    <2>1. /\ rcv' = rcv /\ closed' = closed /\ snd.pc # "closed"
          /\ \/ snd.pc \in {"meta", "read"} /\ snd'.pc \in {"accept", "ack", "last"}
                /\ snd'.outcome = snd.outcome
             \/ snd'.pc = "report" /\ snd'.outcome = "failed"
      BY <1>1, <1>typed DEF SendMetaData, SendChunk, ReadEnd, SenderFails, Senders
    <2> QED
      BY <2>1
  <1>2. CASE AwaitAccept \/ \E tick \in BOOLEAN : AwaitAck(tick)
    <2>1. /\ rcv' = rcv /\ closed' = closed /\ snd.pc \in {"accept", "ack"}
          /\ \/ snd'.pc \in {"read", "progress"} /\ snd'.outcome = snd.outcome
             \/ snd'.pc = "report" /\ snd'.outcome = "failed"
      BY <1>2, <1>typed DEF AwaitAccept, AwaitAck, Senders
    <2> QED
      BY <2>1
  <1>3. CASE SenderReports
    <2>1. /\ rcv' = rcv /\ closed' = closed /\ snd.pc # "closed"
          /\ \/ snd.pc = "progress" /\ snd'.pc = "read" /\ snd'.outcome = snd.outcome
             \/ snd.pc = "last" /\ snd'.pc = "report" /\ snd'.outcome = "ok"
             \/ snd.pc = "report" /\ snd'.pc = "close" /\ snd'.outcome = snd.outcome
      BY <1>3, <1>typed DEF SenderReports, Senders
    <2> QED
      BY <2>1
  <1>4. CASE SenderCloses
    <2>1. /\ rcv' = rcv /\ closed' = closed \cup {"send"} /\ snd.pc = "close"
          /\ snd'.pc = "closed" /\ snd'.outcome = snd.outcome
      BY <1>4, <1>typed DEF SenderCloses, Senders
    <2> QED
      BY <2>1
  <1>5. CASE \/ AdmitPeer \/ ReceiveMetaData \/ Prepare
             \/ \E tick \in BOOLEAN : ReceiveChunk(tick)
    <2>1. /\ snd' = snd /\ closed' = closed
          /\ rcv.pc \in {"start", "meta", "prepare", "chunk"}
          /\ \/ rcv'.pc \in {"meta", "prepare", "chunk", "progress"}
                /\ rcv'.outcome = rcv.outcome
             \/ rcv'.pc \in {"report", "close"} /\ rcv'.outcome = "failed"
      BY <1>5, <1>typed DEF AdmitPeer, ReceiveMetaData, Prepare, ReceiveChunk, Receivers
    <2> QED
      BY <2>1
  <1>6. CASE DecryptFails \/ ChunkFails \/ FileFails \/ Finish \/ ReceiverFails
    <2>1. /\ snd' = snd /\ closed' = closed /\ rcv.pc # "closed"
          /\ rcv'.pc = "report" /\ rcv'.outcome \in {"ok", "failed"}
      BY <1>6, <1>typed DEF DecryptFails, ChunkFails, FileFails, Finish,
                            ReceiverFails, Receivers
    <2> QED
      BY <2>1
  <1>7. CASE ReceiverReports
    <2>1. /\ snd' = snd /\ closed' = closed /\ rcv'.outcome = rcv.outcome
          /\ \/ rcv.pc = "report" /\ rcv'.pc \in {"hook", "close"}
             \/ rcv.pc = "progress" /\ rcv'.pc \in {"finish", "chunk"}
      BY <1>7, <1>typed DEF ReceiverReports, Receivers
    <2> QED
      BY <2>1
  <1>8. CASE FileReceived \/ ReceiverCloses
    <2>1. /\ snd' = snd /\ rcv'.outcome = rcv.outcome
          /\ \/ rcv.pc = "hook" /\ rcv'.pc = "close" /\ closed' = closed
             \/ rcv.pc = "close" /\ rcv'.pc = "closed"
                /\ closed' = closed \cup {"recv"}
      BY <1>8, <1>typed DEF FileReceived, ReceiverCloses, Receivers
    <2> QED
      BY <2>1
  <1>9. CASE (\E e \in Ends : Drain(e)) \/ LinkLost \/ SourceChanges \/ UNCHANGED vars
    <2>1. UNCHANGED <<snd, rcv, closed>>
      BY <1>9 DEF Drain, LinkLost, SourceChanges, vars
    <2> QED
      BY <2>1
  <1> QED
    BY <1>1, <1>2, <1>3, <1>4, <1>5, <1>6, <1>7, <1>8, <1>9 DEF Next, Sender, Receiver

LEMMA OutcomeAlways == Spec => []OutcomeKnown
  <1>1. Init => OutcomeKnown
    BY DEF Init, OutcomeKnown
  <1>2. Shape /\ OutcomeKnown /\ [Next]_vars => OutcomeKnown'
    BY OutcomeStep
  <1> QED
    BY <1>1, <1>2, ShapeAlways, PTL DEF Spec

-----------------------------------------------------------------------------
(* A beginning of s, extended by the first n bytes of what comes next.     *)
LEMMA Extended ==
    ASSUME NEW s, NEW c \in Seq(Nat), NEW b \in Seq(Nat), NEW n \in 0..Len(b),
           StandsAt(c, s, 0), StandsAt(b, s, Len(c))
    PROVE  /\ c \o SubSeq(b, 1, n) \in Seq(Nat)
           /\ Len(c \o SubSeq(b, 1, n)) = Len(c) + n
           /\ StandsAt(c \o SubSeq(b, 1, n), s, 0)
  <1> DEFINE t == SubSeq(b, 1, n)
             d == c \o t
  <1>1. Len(c) \in Nat /\ Len(b) \in Nat
    BY LenProperties
  <1>2. /\ \A i \in 1..n : b[i] \in Nat
        /\ 1 \in Int /\ n \in Int /\ n \in Nat
    BY <1>1, ElementOfSeq
  <1>3. /\ t \in Seq(Nat) /\ Len(t) = IF 1 <= n THEN n - 1 + 1 ELSE 0
        /\ \A i \in 1..n - 1 + 1 : t[i] = b[1 + i - 1]
    BY <1>2, SubSeqProperties
  <1> HIDE DEF t
  <1>4. Len(t) = n /\ \A j \in 1..n : t[j] = b[j]
    BY <1>2, <1>3
  <1>5. /\ d \in Seq(Nat) /\ Len(d) = Len(c) + n
        /\ \A j \in 1..Len(c) + n : d[j] = IF j <= Len(c) THEN c[j] ELSE t[j - Len(c)]
    BY <1>1, <1>3, <1>4, ConcatProperties
  <1> HIDE DEF d
  <1>6. ASSUME NEW j \in 1..Len(d) PROVE d[j] = s[0 + j]
    <2>1. CASE j <= Len(c)
      <3>1. j \in 1..Len(c) /\ 0 + j = j
        BY <1>1, <2>1
      <3>2. c[j] = s[0 + j]
        BY <3>1 DEF StandsAt
      <3> QED
        BY <1>5, <2>1, <3>2
    <2>2. CASE j > Len(c)
      <3> DEFINE k == j - Len(c)
      <3>1. k \in 1..n /\ k \in 1..Len(b) /\ Len(c) + k = 0 + j
        BY <1>1, <1>2, <1>5, <2>2
      <3>2. d[j] = t[k]
        BY <1>1, <1>5, <2>2
      <3> HIDE DEF k
      <3>3. t[k] = b[k] /\ b[k] = s[Len(c) + k]
        BY <1>4, <3>1 DEF StandsAt
      <3> QED
        BY <3>1, <3>2, <3>3
    <2> QED
      BY <1>1, <1>5, <2>1, <2>2
  <1> QED
    BY <1>5, <1>6 DEF t, d, StandsAt

(* SendChunk as the proofs below need it.                                  *)
LEMMA ChunkSent ==
    ASSUME Shape, SendChunk
    PROVE  /\ snd.pc = "read" /\ snd.off < Len(source)
           /\ toRecv = <<>> /\ toSend = <<>> /\ toSend' = <<>>
           /\ snd'.pc = "ack" /\ snd'.sent = snd.sent
           /\ snd'.total = snd.total /\ snd'.outcome = snd.outcome
           /\ snd.off < snd'.off /\ snd'.off <= Len(source) /\ snd'.off \in Nat
           /\ \A i \in 1..Len(toRecv') :
                 /\ toRecv'[i].type = "chunk"
                 /\ Len(toRecv'[i].bytes) = snd'.off - snd.off
                 /\ StandsAt(toRecv'[i].bytes, source, snd.off)
           /\ "recv" \notin closed => toRecv' # <<>>
  <1> DEFINE upto == IF snd.off + ChunkSize < Len(source)
                     THEN snd.off + ChunkSize ELSE Len(source)
             bytes == SubSeq(source, snd.off + 1, upto)
  <1>1. /\ toRecv = <<>> /\ toSend = <<>> /\ source \in Seq(Nat) /\ snd \in Senders
        /\ snd.off \in Nat /\ snd.off < Len(source) /\ snd.pc = "read"
    BY TransferAssumption DEF SendChunk, Senders, Shape, TypeOK, SenderTurn
  <1>2. /\ upto \in Nat /\ bytes \in Seq(Nat) /\ Len(bytes) = upto - snd.off
        /\ snd.off < upto /\ upto <= Len(source)
        /\ StandsAt(bytes, source, snd.off)
    BY <1>1, ChunkLength
  <1>3. /\ Chunk(bytes) \in Requests /\ Chunk(bytes).type = "chunk"
        /\ Chunk(bytes).bytes = bytes
    BY <1>2, MessageTypes
  <1>4. /\ toRecv' = Post(toRecv, Chunk(bytes), "recv") /\ toSend' = toSend
        /\ snd' = [snd EXCEPT !.pc = "ack", !.off = upto]
    BY DEF SendChunk
  <1> HIDE DEF upto, bytes
  <1>5. \A i \in 1..Len(toRecv') : toRecv'[i] = Chunk(bytes)
    BY <1>1, <1>3, <1>4, PostedAlone
  <1>6. /\ snd'.pc = "ack" /\ snd'.off = upto /\ snd'.sent = snd.sent
        /\ snd'.total = snd.total /\ snd'.outcome = snd.outcome
    BY <1>1, <1>4 DEF Senders
  <1>7. "recv" \notin closed => toRecv' # <<>>
    BY <1>1, <1>3, <1>4 DEF Post
  <1>8. ASSUME NEW i \in 1..Len(toRecv')
        PROVE  /\ toRecv'[i].type = "chunk" /\ toRecv'[i].bytes = bytes
    BY <1>3, <1>5
  <1> QED
    BY <1>1, <1>2, <1>4, <1>6, <1>7, <1>8

(* What is sent is the next piece of the source, and what is acknowledged  *)
(* has arrived.                                                            *)
LEMMA CopySender ==
    ASSUME Shape, Accounts, CopyIsPrefix, Sender
    PROVE  CopyIsPrefix'
  <1> USE DEF CopyIsPrefix
  <1>typed. /\ snd \in Senders /\ source \in Seq(Nat) /\ Len(source) \in Nat
            /\ snd.off \in Nat /\ snd.sent \in Nat /\ Len(Copied) \in Nat
    BY TransferAssumption, LenProperties DEF Shape, TypeOK, Senders
  <1>empty. Len(<<>>) = 0
    BY EmptySeq
  <1>same. source' = source /\ Copied' = Copied
    BY SenderKeeps DEF Copied
  <1> DEFINE Pieces ==
        /\ \A i \in 1..Len(toRecv') : toRecv'[i].type = "chunk" =>
              /\ Len(Copied) = snd'.sent /\ snd'.sent < snd'.off
              /\ StandsAt(toRecv'[i].bytes, source, snd'.sent)
        /\ \A i \in 1..Len(toSend') :
              toSend'[i].type = "RECEIVED_CHUNK" => Len(Copied) = snd'.off
        /\ snd'.sent <= Len(Copied) /\ Len(Copied) <= snd'.off
        /\ snd'.off <= Len(source)
        /\ snd'.pc \in {"meta", "accept"} => snd'.off = 0
  <1> SUFFICES Pieces
    BY <1>same DEF Answered
  <1>1. CASE SendMetaData
    <2>1. toRecv = <<>> /\ toSend = <<>> /\ snd.pc = "meta"
      BY <1>1 DEF SendMetaData, Shape, SenderTurn
    <2>2. MetaData(Len(source)) \in Requests /\ MetaData(Len(source)).type = "meta"
      BY <1>typed, MessageTypes
    <2>3. \A i \in 1..Len(toRecv') : toRecv'[i].type = "meta"
      BY <1>1, <2>1, <2>2, PostedAlone DEF SendMetaData
    <2>4. /\ snd'.off = snd.off /\ snd'.sent = snd.sent /\ snd.off = 0
          /\ toSend' = toSend
      BY <1>1, <1>typed, <2>1 DEF SendMetaData, Senders
    <2> QED
      BY <1>empty, <1>typed, <2>1, <2>3, <2>4
  <1>2. CASE AwaitAccept
    <2>1. toSend' = <<>> /\ toRecv' = <<>> /\ snd.pc = "accept"
      BY <1>2, UnderWay DEF AwaitAccept
    <2>2. snd'.off = snd.off /\ snd'.sent = snd.sent
      BY <1>2, <1>typed DEF AwaitAccept, Senders
    <2> QED
      BY <1>empty, <1>typed, <2>1, <2>2
  <1>3. CASE SendChunk
    <2>1. snd.off = snd.sent /\ Len(Copied) = snd.sent
      BY <1>3, <1>typed, ChunkSent DEF Accounts, BytesAddUp
    <2> QED
      BY <1>3, <1>empty, <1>typed, <2>1, ChunkSent
  <1>4. ASSUME NEW tick \in BOOLEAN, AwaitAck(tick) PROVE Pieces
    <2>1. /\ toSend # <<>> /\ toSend' = <<>> /\ toRecv' = <<>>
          /\ Head(toSend) = toSend[1] /\ 1 \in 1..Len(toSend)
      BY <1>4, UnderWay DEF AwaitAck
    <2>2. /\ snd'.off = snd.off /\ snd'.pc \notin {"meta", "accept"}
          /\ snd'.sent = snd.sent \/ (snd'.sent = snd.off /\ Answered(1))
      BY <1>4, <1>typed, <2>1 DEF AwaitAck, Senders, Answered
    <2>3. snd'.sent <= Len(Copied)
      BY <1>typed, <2>1, <2>2
    <2> QED
      BY <1>empty, <1>typed, <2>1, <2>2, <2>3
  <1>5. CASE ReadEnd \/ SenderFails \/ SenderReports \/ SenderCloses
    <2>1. /\ snd'.off = snd.off /\ snd'.sent = snd.sent
          /\ UNCHANGED <<toRecv, toSend>> /\ snd'.pc \notin {"meta", "accept"}
      BY <1>5, <1>typed DEF ReadEnd, SenderFails, SenderReports, SenderCloses, Senders
    <2> QED
      BY <1>typed, <2>1 DEF Answered
  <1> QED
    BY <1>1, <1>2, <1>3, <1>4, <1>5 DEF Sender

(* A chunk that the receiver takes, as the proofs below need it.           *)
LEMMA ChunkTaken ==
    ASSUME Shape, Accounts, CopyIsPrefix, rcv.pc = "chunk", toRecv # <<>>
    PROVE  /\ Tail(toRecv) = <<>> /\ toSend = <<>> /\ rcv.open /\ dest = Copied
           /\ toRecv[1].type = "chunk" /\ 1 \in 1..Len(toRecv)
           /\ Head(toRecv).bytes \in Seq(Nat)
           /\ Len(Copied) = snd.sent /\ snd.sent < snd.off
           /\ snd.off = snd.sent + Len(Head(toRecv).bytes)
           /\ StandsAt(Copied, source, 0)
           /\ StandsAt(Head(toRecv).bytes, source, Len(Copied))
  <1>1. /\ Tail(toRecv) = <<>> /\ toSend = <<>> /\ 1 \in 1..Len(toRecv)
        /\ Head(toRecv) = toRecv[1] /\ Head(toRecv) \in Requests
        /\ toRecv[1].type = "chunk"
    BY UnderWay DEF Shape, MetaDataFirst
  <1>2. Head(toRecv).bytes \in Seq(Nat)
    BY <1>1, MessageTypes
  <1>3. rcv.open /\ dest = Copied
    BY DEF Shape, OpenWhileReceiving, Receiving, Copied
  <1>4. snd.off = snd.sent + Len(Head(toRecv).bytes)
    BY <1>1 DEF Accounts, BytesAddUp
  <1>5. /\ Len(Copied) = snd.sent /\ snd.sent < snd.off
        /\ StandsAt(Copied, source, 0) /\ StandsAt(Head(toRecv).bytes, source, snd.sent)
    BY <1>1 DEF CopyIsPrefix
  <1> QED
    BY <1>1, <1>2, <1>3, <1>4, <1>5

(* What is posted on an empty queue is the only answer.                    *)
LEMMA AnswerPosted ==
    ASSUME NEW t \in {"ACCEPT", "REJECT", "VALIDATE_ERROR", "RECEIVED_CHUNK"},
           toSend = <<>>, toSend' = Post(toSend, Event(t), "send")
    PROVE  /\ \A i \in 1..Len(toSend') : toSend'[i].type = t
           /\ "send" \notin closed => toSend' # <<>>
  <1>1. Event(t) \in Answers /\ Event(t).type = t
    BY MessageTypes
  <1>2. \A i \in 1..Len(toSend') : toSend'[i] = Event(t)
    BY <1>1, PostedAlone
  <1>3. "send" \notin closed => toSend' # <<>>
    BY DEF Post
  <1> QED
    BY <1>1, <1>2, <1>3

(* What is written goes on where the copy ends.                            *)
LEMMA CopyReceiver ==
    ASSUME Shape, Accounts, CopyIsPrefix, SizeAgreed, WholeWhenDone, Receiver
    PROVE  CopyIsPrefix'
  <1>typed. /\ rcv \in Receivers /\ snd \in Senders
            /\ snd.off \in Nat /\ snd.sent \in Nat /\ Len(Copied) \in Nat
    BY LenProperties DEF Shape, TypeOK, Senders, CopyIsPrefix
  <1>empty. Len(<<>>) = 0
    BY EmptySeq
  <1>same. UNCHANGED <<source, snd>>
    BY DEF Receiver, AdmitPeer, ReceiveMetaData, Prepare, ReceiveChunk, DecryptFails,
           ChunkFails, FileFails, Finish, ReceiverFails, ReceiverReports,
           FileReceived, ReceiverCloses
  <1>1. CASE ReceiveMetaData
    <2> DEFINE answer == IF TooLarge(Head(toRecv).size) THEN "VALIDATE_ERROR"
                         ELSE IF setup.autoAccept THEN "ACCEPT" ELSE "REJECT"
    <2>1. /\ toRecv' = <<>> /\ toSend = <<>>
          /\ toSend' = Post(toSend, Event(answer), "send")
      BY <1>1, UnderWay DEF ReceiveMetaData
    <2>2. answer \in {"ACCEPT", "REJECT", "VALIDATE_ERROR"}
      OBVIOUS
    <2> HIDE DEF answer
    <2>3. \A i \in 1..Len(toSend') : toSend'[i].type # "RECEIVED_CHUNK"
      BY <2>1, <2>2, AnswerPosted
    <2>4. Copied' = Copied
      BY <1>1, <1>typed DEF ReceiveMetaData, Receivers, Copied
    <2> QED
      BY <1>same, <1>empty, <2>1, <2>3, <2>4 DEF CopyIsPrefix, Answered
  <1>2. CASE Prepare
    <2>1. Copied = <<>> /\ UNCHANGED <<toRecv, toSend>>
      BY <1>2 DEF Prepare, Copied, Shape, OpenWhileReceiving
    <2>2. Copied' = <<>>
      BY <1>2, <1>typed DEF Prepare, Copied, Shape, OpenWhileReceiving, Receivers
    <2> QED
      BY <1>same, <2>1, <2>2 DEF CopyIsPrefix, Answered
  <1>3. ASSUME NEW tick \in BOOLEAN, ReceiveChunk(tick) PROVE CopyIsPrefix'
    <2> DEFINE bytes == Head(toRecv).bytes
    <2>1. rcv.pc = "chunk" /\ toRecv # <<>>
      BY <1>3 DEF ReceiveChunk
    <2>2. /\ Tail(toRecv) = <<>> /\ toSend = <<>> /\ rcv.open /\ dest = Copied
          /\ bytes \in Seq(Nat) /\ snd.off = Len(Copied) + Len(bytes)
          /\ StandsAt(Copied, source, 0) /\ StandsAt(bytes, source, Len(Copied))
          /\ Len(Copied) = snd.sent /\ snd.sent < snd.off
      BY <2>1, ChunkTaken
    <2>3. /\ toRecv' = <<>> /\ dest' = dest \o bytes /\ rcv'.open
          /\ toSend' = Post(toSend, Event("RECEIVED_CHUNK"), "send")
      BY <1>3, <1>typed, <2>2 DEF ReceiveChunk, Receivers
    <2>4. Copied' = Copied \o bytes
      BY <2>2, <2>3 DEF Copied
    <2> HIDE DEF bytes
    <2>5. SubSeq(bytes, 1, Len(bytes)) = bytes /\ Len(bytes) \in 0..Len(bytes)
      BY <2>2, SubSeqFull, LenProperties
    <2>6. Copied \in Seq(Nat)
      BY DEF CopyIsPrefix
    <2>7. /\ Copied' \in Seq(Nat) /\ Len(Copied') = Len(Copied) + Len(bytes)
          /\ StandsAt(Copied', source, 0)
      <3>1. /\ Copied \o SubSeq(bytes, 1, Len(bytes)) \in Seq(Nat)
            /\ Len(Copied \o SubSeq(bytes, 1, Len(bytes))) = Len(Copied) + Len(bytes)
            /\ StandsAt(Copied \o SubSeq(bytes, 1, Len(bytes)), source, 0)
        BY <2>2, <2>5, <2>6, Extended, Zenon
      <3> QED
        BY <2>4, <2>5, <3>1, Zenon
    <2>8. Len(Copied') = snd.off
      BY <2>2, <2>7
    <2> QED
      BY <1>same, <1>empty, <1>typed, <2>2, <2>3, <2>7, <2>8 DEF CopyIsPrefix
  <1>4. CASE ChunkFails
    <2> DEFINE bytes == Head(toRecv).bytes
    <2>1. rcv.pc = "chunk" /\ toRecv # <<>>
      BY <1>4 DEF ChunkFails
    <2>2. /\ Tail(toRecv) = <<>> /\ toSend = <<>> /\ rcv.open /\ dest = Copied
          /\ bytes \in Seq(Nat) /\ snd.off = Len(Copied) + Len(bytes)
          /\ StandsAt(Copied, source, 0) /\ StandsAt(bytes, source, Len(Copied))
          /\ Len(Copied) = snd.sent
      BY <2>1, ChunkTaken
    <2>3. PICK n \in 0..Len(bytes) : dest' = dest \o SubSeq(bytes, 1, n)
      BY <1>4 DEF ChunkFails
    <2>4. /\ toRecv' = <<>> /\ toSend' = <<>> /\ rcv'.open
      BY <1>4, <1>typed, <2>2 DEF ChunkFails, Receivers
    <2>5. Copied' = Copied \o SubSeq(bytes, 1, n)
      BY <2>2, <2>3, <2>4 DEF Copied
    <2> HIDE DEF bytes
    <2>6. Copied \in Seq(Nat) /\ Len(bytes) \in Nat
      BY <2>2, LenProperties DEF CopyIsPrefix
    <2>7. /\ Copied' \in Seq(Nat) /\ Len(Copied') = Len(Copied) + n
          /\ StandsAt(Copied', source, 0)
      BY <2>2, <2>3, <2>5, <2>6, Extended
    <2>8. snd.sent <= Len(Copied') /\ Len(Copied') <= snd.off
      BY <1>typed, <2>2, <2>3, <2>6, <2>7
    <2> QED
      BY <1>same, <1>empty, <2>4, <2>7, <2>8 DEF CopyIsPrefix
  <1>5. CASE DecryptFails
    <2>1. /\ toRecv' = <<>> /\ toSend = <<>>
          /\ toSend' = Post(toSend, Event("VALIDATE_ERROR"), "send")
      BY <1>5, UnderWay DEF DecryptFails
    <2>2. \A i \in 1..Len(toSend') : toSend'[i].type # "RECEIVED_CHUNK"
      BY <2>1, AnswerPosted
    <2>3. Copied' = Copied
      BY <1>5, <1>typed DEF DecryptFails, Receivers, Copied
    <2> QED
      BY <1>same, <1>empty, <2>1, <2>2, <2>3 DEF CopyIsPrefix, Answered
  <1>6. CASE Finish
    <2>1. rcv.open /\ Copied = dest /\ Len(dest) = rcv.size
      BY <1>6 DEF Finish, SizeAgreed, WholeWhenDone, Copied
    <2>2. Copied' = Copied /\ UNCHANGED <<toRecv, toSend>>
      BY <1>6, <1>typed, <2>1 DEF Finish, Receivers, Copied
    <2> QED
      BY <1>same, <2>2 DEF CopyIsPrefix, Answered
  <1>7. CASE \/ AdmitPeer \/ FileFails \/ ReceiverFails \/ ReceiverReports
             \/ FileReceived \/ ReceiverCloses
    <2>1. /\ UNCHANGED <<toRecv, toSend, dest>> /\ rcv'.open = rcv.open
      BY <1>7, <1>typed DEF AdmitPeer, FileFails, ReceiverFails, ReceiverReports,
                            FileReceived, ReceiverCloses, Receivers
    <2>2. Copied' = Copied
      BY <2>1 DEF Copied
    <2> QED
      BY <1>same, <2>1, <2>2 DEF CopyIsPrefix, Answered
  <1> QED
    BY <1>1, <1>2, <1>3, <1>4, <1>5, <1>6, <1>7 DEF Receiver

(* Both sides learn the size from the metadata.                            *)
LEMMA SizeStep ==
    ASSUME Shape, SizeAgreed, Sender \/ Receiver
    PROVE  SizeAgreed'
  <1> USE DEF SizeAgreed
  <1>typed. /\ rcv \in Receivers /\ snd \in Senders /\ Len(source) \in Nat
    BY TransferAssumption, LenProperties DEF Shape, TypeOK
  <1>empty. Len(<<>>) = 0
    BY EmptySeq
  <1>1. CASE SendMetaData
    <2>1. MetaData(Len(source)) \in Requests /\ MetaData(Len(source)).size = Len(source)
      BY <1>typed DEF MetaData, Requests
    <2>2. toRecv = <<>> /\ toRecv' = Post(toRecv, MetaData(Len(source)), "recv")
      BY <1>1 DEF SendMetaData, Shape, SenderTurn
    <2>3. \A i \in 1..Len(toRecv') : toRecv'[i] = MetaData(Len(source))
      BY <2>1, <2>2, PostedAlone
    <2>4. snd'.total = Len(source) /\ UNCHANGED <<source, rcv>>
      BY <1>1, <1>typed DEF SendMetaData, Senders
    <2> QED
      BY <2>1, <2>3, <2>4
  <1>2. CASE SendChunk
    <2>1. /\ snd.pc = "read" /\ snd'.total = snd.total /\ UNCHANGED <<source, rcv>>
          /\ \A i \in 1..Len(toRecv') : toRecv'[i].type = "chunk"
      BY <1>2, ChunkSent DEF SendChunk
    <2> QED
      BY <2>1
  <1>3. CASE \/ AwaitAccept \/ \E tick \in BOOLEAN : AwaitAck(tick)
             \/ ReadEnd \/ SenderFails \/ SenderReports \/ SenderCloses
    <2>1. /\ snd'.total = snd.total /\ UNCHANGED <<source, rcv, toRecv>>
          /\ \/ snd.pc \in {"accept", "read", "ack", "progress", "last"}
             \/ /\ snd'.outcome \in {snd.outcome, "failed"}
                /\ snd'.pc \in {"report", "close", "closed"}
      BY <1>3, <1>typed DEF AwaitAccept, AwaitAck, ReadEnd, SenderFails,
                            SenderReports, SenderCloses, Senders
    <2> QED
      BY <2>1
  <1>4. CASE ReceiveMetaData
    <2>1. /\ toRecv' = <<>> /\ Head(toRecv) = toRecv[1] /\ 1 \in 1..Len(toRecv)
          /\ toRecv[1].type = "meta"
      BY <1>4, UnderWay DEF ReceiveMetaData, Shape, MetaDataFirst
    <2>2. rcv'.size = Head(toRecv).size /\ UNCHANGED <<source, snd>>
      BY <1>4, <1>typed DEF ReceiveMetaData, Receivers
    <2> QED
      BY <1>empty, <2>1, <2>2
  <1>5. CASE \/ \E tick \in BOOLEAN : ReceiveChunk(tick)
             \/ DecryptFails \/ ChunkFails
    <2>1. /\ toRecv' = <<>> /\ rcv.pc = "chunk"
      BY <1>5, UnderWay DEF ReceiveChunk, DecryptFails, ChunkFails
    <2>2. rcv'.size = rcv.size /\ UNCHANGED <<source, snd>>
      BY <1>5, <1>typed DEF ReceiveChunk, DecryptFails, ChunkFails, Receivers
    <2> QED
      BY <1>empty, <2>1, <2>2
  <1>6. CASE \/ AdmitPeer \/ Prepare \/ FileFails \/ Finish \/ ReceiverFails
             \/ ReceiverReports \/ FileReceived \/ ReceiverCloses
    <2>1. /\ rcv'.size = rcv.size /\ UNCHANGED <<source, snd, toRecv>>
          /\ rcv'.pc \in {"prepare", "chunk", "progress", "finish"}
                => rcv.pc \in {"prepare", "chunk", "progress", "finish"}
      BY <1>6, <1>typed DEF AdmitPeer, Prepare, FileFails, Finish, ReceiverFails,
                  ReceiverReports, FileReceived, ReceiverCloses, Receivers
    <2> QED
      BY <2>1
  <1> QED
    BY <1>1, <1>2, <1>3, <1>4, <1>5, <1>6 DEF Sender, Receiver

(* Neither end is done before the copy is whole.                           *)
LEMMA WholeWhenDoneStep ==
    ASSUME Shape, Accounts, CopyIsPrefix, SizeAgreed, WholeWhenDone,
           Sender \/ Receiver
    PROVE  WholeWhenDone'
  <1> USE DEF WholeWhenDone
  <1>typed. /\ rcv \in Receivers /\ snd \in Senders /\ Len(source) \in Nat
            /\ snd.off \in Nat /\ snd.sent \in Nat /\ Len(Copied) \in Nat
            /\ rcv.size \in Nat
    BY TransferAssumption, LenProperties DEF Shape, TypeOK, CopyIsPrefix, Senders, Receivers
  <1>copy. snd.sent <= Len(Copied) /\ Len(Copied) <= snd.off /\ snd.off <= Len(source)
    BY DEF CopyIsPrefix
  <1>1. CASE ReadEnd
    <2>1. snd.pc = "read" /\ snd.off >= Len(source) /\ UNCHANGED <<source, dest, rcv>>
      BY <1>1 DEF ReadEnd
    <2>2. snd.off = snd.sent
      BY <2>1 DEF Accounts, BytesAddUp
    <2>3. Len(Copied) = Len(source) /\ Copied' = Copied
      BY <1>typed, <1>copy, <2>1, <2>2 DEF Copied
    <2> QED
      BY <2>1, <2>3
  <1>2. CASE Sender /\ ~ReadEnd
    <2>1. UNCHANGED <<source, rcv>> /\ Copied' = Copied
      BY <1>2, SenderKeeps DEF Copied
    <2>2. /\ snd'.pc # "last"
          /\ snd'.outcome \in {snd.outcome, "failed"} \/ snd.pc = "last"
      <3>1. CASE SendMetaData \/ SendChunk
        BY <1>typed, <3>1, ChunkSent DEF SendMetaData, Senders
      <3>2. CASE AwaitAccept \/ \E tick \in BOOLEAN : AwaitAck(tick)
        BY <1>typed, <3>2 DEF AwaitAccept, AwaitAck, Senders
      <3>3. CASE SenderFails \/ SenderCloses
        BY <1>typed, <3>3 DEF SenderFails, SenderCloses, Senders
      <3>4. CASE SenderReports
        BY <1>typed, <3>4 DEF SenderReports, Senders
      <3> QED
        BY <1>2, <3>1, <3>2, <3>3, <3>4 DEF Sender
    <2> QED
      BY <2>1, <2>2
  <1>3. CASE (\E tick \in BOOLEAN : ReceiveChunk(tick)) \/ ChunkFails
    <2>1. /\ rcv.pc = "chunk" /\ toRecv # <<>> /\ UNCHANGED <<source, snd>>
          /\ rcv'.pc # "finish" /\ rcv'.outcome \in {rcv.outcome, "failed"}
      BY <1>3, <1>typed DEF ReceiveChunk, ChunkFails, Receivers
    <2>2. Len(Copied) = snd.sent /\ snd.sent < snd.off
      BY <2>1, ChunkTaken
    <2>3. Len(Copied) # Len(source)
      BY <1>typed, <1>copy, <2>2
    <2> QED
      BY <2>1, <2>3
  <1>4. CASE Prepare
    <2>1. Copied = <<>> /\ ~rcv.open /\ rcv.pc = "prepare"
      BY <1>4 DEF Prepare, Copied, Shape, OpenWhileReceiving
    <2>2. /\ Copied' = <<>> /\ rcv'.pc # "finish" /\ UNCHANGED <<source, snd>>
          /\ rcv'.outcome \in {rcv.outcome, "failed"}
      BY <1>4, <1>typed, <2>1 DEF Prepare, Copied, Receivers
    <2> QED
      BY <2>1, <2>2
  <1>5. CASE Finish
    <2>1. rcv.pc = "finish" /\ rcv.open /\ Copied = dest /\ Len(dest) = rcv.size
      BY <1>5 DEF Finish, SizeAgreed, Copied
    <2>2. Copied' = Copied /\ rcv'.open /\ UNCHANGED <<source, snd>>
      BY <1>5, <1>typed, <2>1 DEF Finish, Receivers, Copied
    <2> QED
      BY <2>1, <2>2
  <1>6. CASE ReceiverReports
    <2>1. /\ UNCHANGED <<source, dest, snd>> /\ rcv'.open = rcv.open
          /\ rcv'.outcome = rcv.outcome
          /\ rcv'.pc = "finish" =>
                rcv.pc = "progress" /\ rcv.size > 0 /\ Len(dest) >= rcv.size
      BY <1>6, <1>typed DEF ReceiverReports, Receivers
    <2>2. Copied' = Copied
      BY <2>1 DEF Copied
    <2>3. ASSUME rcv'.pc = "finish"
          PROVE  rcv.open /\ Len(source) > 0 /\ Len(Copied) = Len(source)
      <3>1. rcv.open /\ dest = Copied /\ rcv.size = Len(source)
        BY <2>1, <2>3 DEF Shape, OpenWhileReceiving, Receiving, SizeAgreed, Copied
      <3> QED
        BY <1>typed, <1>copy, <2>1, <2>3, <3>1
    <2> QED
      BY <2>1, <2>2, <2>3
  <1>7. CASE \/ AdmitPeer \/ ReceiveMetaData \/ DecryptFails \/ FileFails
             \/ ReceiverFails \/ FileReceived \/ ReceiverCloses
    <2>1. /\ UNCHANGED <<source, dest, snd>> /\ rcv'.open = rcv.open
          /\ rcv'.outcome \in {rcv.outcome, "failed"} /\ rcv'.pc # "finish"
      <3>1. CASE ReceiveMetaData
        BY <1>typed, <3>1 DEF ReceiveMetaData, Receivers
      <3>2. CASE FileFails
        BY <1>typed, <3>2 DEF FileFails, Receivers
      <3>3. CASE DecryptFails
        BY <1>typed, <3>3 DEF DecryptFails, Receivers
      <3>4. CASE ReceiverFails \/ FileReceived \/ ReceiverCloses
        BY <1>typed, <3>4 DEF ReceiverFails, FileReceived, ReceiverCloses, Receivers
      <3>5. CASE AdmitPeer
        BY <1>typed, <3>5 DEF AdmitPeer, Receivers
      <3> QED
        BY <1>7, <3>1, <3>2, <3>3, <3>4, <3>5
    <2>2. Copied' = Copied
      BY <2>1 DEF Copied
    <2> QED
      BY <2>1, <2>2
  <1> QED
    BY <1>1, <1>2, <1>3, <1>4, <1>5, <1>6, <1>7 DEF Receiver

(* Who waits for an answer gets it, unless something has failed.           *)
LEMMA AnswersSender ==
    ASSUME ~SourceMayChange, Shape, OutcomeKnown, CopyIsPrefix, WholeWhenDone,
           AnswersCome, Sender
    PROVE  AnswersCome'
  <1> USE DEF AnswersCome
  <1>typed. /\ rcv \in Receivers /\ snd \in Senders /\ Len(source) \in Nat
            /\ snd.off \in Nat /\ Len(Copied) \in Nat
    BY TransferAssumption, LenProperties DEF Shape, TypeOK, CopyIsPrefix, Senders
  <1>empty. Len(<<>>) = 0
    BY EmptySeq
  <1>same. UNCHANGED <<rcv, up>>
    BY SenderKeeps
  <1>ok. "recv" \in closed /\ rcv.outcome # "failed" =>
            /\ Len(source) > 0 /\ Len(Copied) = Len(source)
            /\ Len(Copied) <= snd.off
    BY <1>typed DEF OutcomeKnown, WholeWhenDone, CopyIsPrefix, Receivers, Outcomes
  <1>1. CASE SendMetaData
    <2>1. /\ toRecv = <<>> /\ toSend = <<>> /\ snd.pc = "meta" /\ snd.off = 0
          /\ toRecv' = Post(toRecv, MetaData(Len(source)), "recv")
          /\ toSend' = <<>> /\ snd'.pc = "accept" /\ snd'.outcome = snd.outcome
      BY <1>1, <1>typed DEF SendMetaData, Shape, SenderTurn, CopyIsPrefix, Senders
    <2>2. "recv" \in closed => rcv.outcome = "failed"
      BY <1>typed, <1>ok, <2>1
    <2>3. "recv" \notin closed => toRecv' # <<>>
      BY <2>1 DEF Post
    <2> QED
      BY <1>same, <1>empty, <2>1, <2>2, <2>3
  <1>2. CASE AwaitAccept
    <2>1. /\ toSend # <<>> /\ toSend' = <<>> /\ snd.pc = "accept"
          /\ Head(toSend) = toSend[1] /\ 1 \in 1..Len(toSend)
          /\ toSend[1] \in Answers
      BY <1>2, UnderWay DEF AwaitAccept
    <2>2. \/ snd'.pc = "read" /\ snd'.outcome = snd.outcome
          \/ snd'.pc = "report" /\ toSend[1].type # "ACCEPT"
      BY <1>2, <1>typed, <2>1 DEF AwaitAccept, Senders
    <2>3. snd'.pc = "report" => rcv.outcome = "failed"
      BY <2>1, <2>2 DEF Answers
    <2> QED
      BY <1>same, <1>empty, <2>1, <2>2, <2>3
  <1>3. CASE SendChunk
    <2>1. "recv" \in closed => rcv.outcome = "failed"
      BY <1>3, <1>typed, <1>ok, ChunkSent
    <2> QED
      BY <1>3, <1>same, <1>empty, <2>1, ChunkSent
  <1>4. ASSUME NEW tick \in BOOLEAN, AwaitAck(tick) PROVE AnswersCome'
    <2>1. /\ toSend # <<>> /\ toSend' = <<>> /\ snd.pc = "ack"
          /\ Head(toSend) = toSend[1] /\ 1 \in 1..Len(toSend)
          /\ toSend[1] \in Answers
      BY <1>4, UnderWay DEF AwaitAck
    <2>2. \/ snd'.pc \in {"read", "progress"} /\ snd'.outcome = snd.outcome
          \/ snd'.pc = "report" /\ toSend[1].type # "RECEIVED_CHUNK"
      BY <1>4, <1>typed, <2>1 DEF AwaitAck, Senders
    <2>3. snd'.pc = "report" => rcv.outcome = "failed"
      BY <2>1, <2>2 DEF Answers
    <2> QED
      BY <1>same, <1>empty, <2>1, <2>2, <2>3
  <1>5. CASE SenderFails
    <2>1. /\ UNCHANGED <<toRecv, toSend>> /\ snd'.pc = "report"
      BY <1>5, <1>typed DEF SenderFails, Senders
    <2>2. rcv.outcome = "failed" \/ ~up
      <3>1. CASE snd.pc \in {"meta", "read"} /\ "recv" \in closed
        <4>1. snd.off = 0 \/ snd.off < Len(source)
          BY <1>5, <3>1 DEF SenderFails, CopyIsPrefix
        <4> QED
          BY <1>typed, <1>ok, <3>1, <4>1
      <3>2. CASE snd.pc \in {"accept", "ack"} /\ toSend = <<>> /\ "recv" \in closed
        <4>1. CASE toRecv = <<>>
          BY <3>2, <4>1
        <4>2. CASE toRecv # <<>> /\ snd.pc = "accept"
          BY <1>typed, <1>ok, <3>2, <4>2 DEF CopyIsPrefix
        <4>3. CASE toRecv # <<>> /\ snd.pc = "ack"
          <5>1. 1 \in 1..Len(toRecv) /\ toRecv[1].type = "chunk"
            BY <4>3, UnderWay
          <5>2. Len(Copied) = snd.sent /\ snd.sent < snd.off /\ snd.off <= Len(source)
            BY <5>1 DEF CopyIsPrefix
          <5> QED
            BY <1>typed, <1>ok, <3>2, <5>2 DEF Senders
        <4> QED
          BY <3>2, <4>1, <4>2, <4>3
      <3> QED
        BY <1>5, <3>1, <3>2 DEF SenderFails
    <2> QED
      BY <1>same, <2>1, <2>2
  <1>6. CASE ReadEnd \/ SenderReports \/ SenderCloses
    <2>1. /\ UNCHANGED <<toRecv, toSend>> /\ snd'.pc \notin {"accept", "ack"}
          /\ snd'.outcome \in {snd.outcome, "ok"}
      BY <1>6, <1>typed DEF ReadEnd, SenderReports, SenderCloses, Senders
    <2> QED
      BY <1>same, <2>1
  <1> QED
    BY <1>1, <1>2, <1>3, <1>4, <1>5, <1>6 DEF Sender

LEMMA AnswersReceiver ==
    ASSUME Shape, Accounts, OutcomeKnown, CopyIsPrefix, AnswersCome, Receiver
    PROVE  AnswersCome'
  <1> USE DEF AnswersCome
  <1>typed. /\ rcv \in Receivers /\ snd \in Senders
    BY DEF Shape, TypeOK
  <1>empty. Len(<<>>) = 0
    BY EmptySeq
  <1>same. UNCHANGED <<snd, up>>
    BY DEF Receiver, AdmitPeer, ReceiveMetaData, Prepare, ReceiveChunk, DecryptFails,
           ChunkFails, FileFails, Finish, ReceiverFails, ReceiverReports,
           FileReceived, ReceiverCloses
  <1>waits. snd.pc \in {"accept", "ack"} => "send" \notin closed
    BY DEF OutcomeKnown
  <1>1. CASE ReceiveMetaData
    <2> DEFINE answer == IF TooLarge(Head(toRecv).size) THEN "VALIDATE_ERROR"
                         ELSE IF setup.autoAccept THEN "ACCEPT" ELSE "REJECT"
    <2>1. /\ toRecv' = <<>> /\ toSend = <<>> /\ snd.pc # "ack"
          /\ toSend' = Post(toSend, Event(answer), "send")
      BY <1>1, UnderWay DEF ReceiveMetaData, Shape, MetaDataFirst
    <2>2. answer \in {"ACCEPT", "REJECT", "VALIDATE_ERROR"}
      OBVIOUS
    <2>3. rcv'.outcome = IF answer = "ACCEPT" THEN rcv.outcome ELSE "failed"
      BY <1>1, <1>typed DEF ReceiveMetaData, Receivers
    <2> HIDE DEF answer
    <2>4. /\ \A i \in 1..Len(toSend') : toSend'[i].type = answer
          /\ "send" \notin closed => toSend' # <<>>
      BY <2>1, <2>2, AnswerPosted
    <2> QED
      BY <1>same, <1>empty, <1>waits, <2>1, <2>2, <2>3, <2>4
  <1>2. ASSUME NEW tick \in BOOLEAN, ReceiveChunk(tick) PROVE AnswersCome'
    <2>1. rcv.pc = "chunk" /\ toRecv # <<>>
      BY <1>2 DEF ReceiveChunk
    <2>2. /\ Tail(toRecv) = <<>> /\ toSend = <<>> /\ snd.pc # "accept"
      BY <1>typed, <2>1, ChunkTaken DEF CopyIsPrefix, Senders
    <2>3. /\ toRecv' = <<>> /\ rcv'.outcome = rcv.outcome
          /\ toSend' = Post(toSend, Event("RECEIVED_CHUNK"), "send")
      BY <1>2, <1>typed, <2>2 DEF ReceiveChunk, Receivers
    <2>4. /\ \A i \in 1..Len(toSend') : toSend'[i].type = "RECEIVED_CHUNK"
          /\ "send" \notin closed => toSend' # <<>>
      BY <2>2, <2>3, AnswerPosted
    <2> QED
      BY <1>same, <1>empty, <1>waits, <2>2, <2>3, <2>4
  <1>3. CASE DecryptFails
    <2>1. /\ toRecv' = <<>> /\ toSend = <<>> /\ rcv'.outcome = "failed"
          /\ toSend' = Post(toSend, Event("VALIDATE_ERROR"), "send")
      BY <1>3, <1>typed, UnderWay DEF DecryptFails, Receivers
    <2>2. \A i \in 1..Len(toSend') : toSend'[i].type = "VALIDATE_ERROR"
      BY <2>1, AnswerPosted
    <2> QED
      BY <1>same, <1>empty, <2>1, <2>2
  <1>4. CASE ChunkFails
    <2>1. /\ toRecv' = <<>> /\ toSend = <<>> /\ toSend' = <<>> /\ rcv'.outcome = "failed"
      BY <1>4, <1>typed, UnderWay DEF ChunkFails, Receivers
    <2> QED
      BY <1>same, <1>empty, <2>1
  <1>5. CASE Finish
    <2>1. UNCHANGED <<toRecv, toSend>> /\ rcv.outcome = "running"
      BY <1>5 DEF Finish, OutcomeKnown
    <2> QED
      BY <1>same, <2>1
  <1>6. CASE \/ AdmitPeer \/ Prepare \/ FileFails \/ ReceiverFails
             \/ ReceiverReports \/ FileReceived \/ ReceiverCloses
    <2>1. /\ UNCHANGED <<toRecv, toSend>> /\ rcv'.outcome \in {rcv.outcome, "failed"}
      BY <1>6, <1>typed DEF AdmitPeer, Prepare, FileFails, ReceiverFails,
                  ReceiverReports, FileReceived, ReceiverCloses, Receivers
    <2> QED
      BY <1>same, <2>1
  <1> QED
    BY <1>1, <1>2, <1>3, <1>4, <1>5, <1>6 DEF Receiver

(* What the ends know of each other while the source is left alone.        *)
Agreed == CopyIsPrefix /\ SizeAgreed /\ WholeWhenDone /\ AnswersCome

LEMMA AgreedStep ==
    ASSUME ~SourceMayChange, Shape, Accounts, OutcomeKnown, Agreed, [Next]_vars
    PROVE  Agreed'
  <1> USE DEF Agreed
  <1>1. CASE Sender
    BY <1>1, CopySender, SizeStep, WholeWhenDoneStep, AnswersSender
  <1>2. CASE Receiver
    BY <1>2, CopyReceiver, SizeStep, WholeWhenDoneStep, AnswersReceiver
  <1>3. CASE (\E e \in Ends : Drain(e)) \/ LinkLost \/ SourceChanges \/ UNCHANGED vars
    <2>1. /\ UNCHANGED <<source, dest, snd, rcv, toRecv, toSend>>
          /\ up' = up \/ up' = FALSE
      BY <1>3 DEF Drain, LinkLost, SourceChanges, vars
    <2>2. Copied' = Copied
      BY <2>1 DEF Copied
    <2>3. CopyIsPrefix' /\ SizeAgreed' /\ WholeWhenDone'
      BY <2>1, <2>2 DEF CopyIsPrefix, SizeAgreed, WholeWhenDone, Answered
    <2>4. AnswersCome'
      BY <2>1 DEF AnswersCome
    <2> QED
      BY <2>3, <2>4
  <1> QED
    BY <1>1, <1>2, <1>3 DEF Next

LEMMA AgreedAlways ==
    ASSUME ~SourceMayChange
    PROVE  Spec => []Agreed
  <1>1. Init => Agreed
    <2> SUFFICES ASSUME Init PROVE Agreed
      OBVIOUS
    <2>1. Len(<<>>) = 0 /\ <<>> \in Seq(Nat) /\ Copied = <<>>
      BY EmptySeq DEF Init, Copied
    <2>2. Len(source) \in Nat
      BY TransferAssumption, LenProperties DEF Init
    <2>3. StandsAt(<<>>, source, 0)
      BY <2>1 DEF StandsAt
    <2> QED
      BY <2>1, <2>2, <2>3
         DEF Init, Agreed, CopyIsPrefix, SizeAgreed, WholeWhenDone, AnswersCome
  <1>2. Shape /\ Accounts /\ OutcomeKnown /\ Agreed /\ [Next]_vars => Agreed'
    BY AgreedStep
  <1> QED
    BY <1>1, <1>2, ShapeAlways, AccountsAlways, OutcomeAlways, PTL DEF Spec

(* The two ends of a transfer of a file that does not change come to the   *)
(* same result: a sender succeeds only when every byte it declared is in   *)
(* the destination, and one that fails although the receiver has succeeded *)
(* has lost the link.                                                      *)
THEOREM BothEndsAgree == Spec => []EndsAgree
  <1>1. CASE SourceMayChange
    <2>1. EndsAgree
      BY <1>1 DEF EndsAgree
    <2> QED
      BY <2>1, PTL
  <1>2. CASE ~SourceMayChange
    <2>1. Shape /\ Agreed => EndsAgree
      <3> SUFFICES ASSUME Shape, Agreed PROVE EndsAgree
        OBVIOUS
      <3>1. Len(<<>>) = 0 /\ snd.outcome = "ok" => snd.total = Len(Copied)
        BY EmptySeq DEF Agreed, SizeAgreed, WholeWhenDone
      <3>2. rcv.outcome = "ok" /\ snd.outcome = "failed" => ~up
        BY DEF Agreed, AnswersCome
      <3> QED
        BY <3>1, <3>2, EmptySeq DEF EndsAgree, Copied
    <2> QED
      BY <1>2, <2>1, ShapeAlways, AgreedAlways, PTL
  <1> QED
    BY <1>1, <1>2

-----------------------------------------------------------------------------
(* A beginning of s is named by its length.                                *)
LEMMA Beginning ==
    ASSUME NEW s \in Seq(Nat), NEW c \in Seq(Nat), Len(c) <= Len(s), StandsAt(c, s, 0)
    PROVE  /\ c = SubSeq(s, 1, Len(c))
           /\ Len(c) = Len(s) => c = s
  <1>1. Len(c) \in Nat /\ Len(s) \in Nat
    BY LenProperties
  <1>2. \A i \in 1..Len(c) : s[i] \in Nat /\ s[i] = c[i]
    <2>1. ASSUME NEW i \in 1..Len(c) PROVE s[i] \in Nat /\ s[i] = c[i]
      <3>1. i \in 1..Len(s) /\ 0 + i = i
        BY <1>1
      <3>2. c[i] = s[0 + i]
        BY DEF StandsAt
      <3> QED
        BY <3>1, <3>2, ElementOfSeq
    <2> QED
      BY <2>1
  <1> DEFINE t == SubSeq(s, 1, Len(c))
  <1>3. /\ t \in Seq(Nat)
        /\ Len(t) = IF 1 <= Len(c) THEN Len(c) - 1 + 1 ELSE 0
        /\ \A i \in 1..Len(c) - 1 + 1 : t[i] = s[1 + i - 1]
    BY <1>1, <1>2, SubSeqProperties
  <1> HIDE DEF t
  <1>4. Len(t) = Len(c) /\ \A i \in 1..Len(c) : t[i] = s[i]
    <2>1. Len(t) = Len(c)
      BY <1>1, <1>3
    <2>2. ASSUME NEW i \in 1..Len(c) PROVE t[i] = s[i]
      <3>1. i \in 1..Len(c) - 1 + 1 /\ 1 + i - 1 = i
        BY <1>1
      <3>2. t[i] = s[1 + i - 1]
        BY <1>3, <3>1
      <3> QED
        BY <3>1, <3>2
    <2> QED
      BY <2>1, <2>2
  <1>5. c = t
    BY <1>2, <1>3, <1>4, SeqEqual
  <1>6. Len(c) = Len(s) => c = s
    BY <1>2, SeqEqual
  <1> QED
    BY <1>5, <1>6 DEF t

(* How the outcomes may change: once, and to success only at the end of    *)
(* the loops.                                                              *)
LEMMA SenderOutcome ==
    ASSUME Shape, OutcomeKnown, Sender
    PROVE  \/ snd'.outcome = snd.outcome
           \/ snd.outcome = "running" /\ snd'.outcome = "failed"
           \/ snd.outcome = "running" /\ snd'.outcome = "ok" /\ snd.pc = "last"
  <1>typed. snd \in Senders
    BY DEF Shape, TypeOK
  <1>1. CASE SendMetaData \/ SendChunk \/ ReadEnd \/ SenderCloses
    BY <1>1, <1>typed DEF SendMetaData, SendChunk, ReadEnd, SenderCloses, Senders
  <1>2. CASE AwaitAccept \/ (\E tick \in BOOLEAN : AwaitAck(tick)) \/ SenderFails
    BY <1>2, <1>typed DEF AwaitAccept, AwaitAck, SenderFails, Senders, OutcomeKnown
  <1>3. CASE SenderReports
    BY <1>3, <1>typed DEF SenderReports, Senders, OutcomeKnown
  <1> QED
    BY <1>1, <1>2, <1>3 DEF Sender

(* A step of the receiver that writes nothing.                             *)
LEMMA ReceiverOutcome ==
    ASSUME Shape, Accounts, OutcomeKnown, Agreed, Receiver,
           ~ChunkFails, ~\E tick \in BOOLEAN : ReceiveChunk(tick)
    PROVE  /\ UNCHANGED <<source, snd>> /\ Copied' = Copied
           /\ \/ rcv'.outcome = rcv.outcome
              \/ rcv.outcome = "running" /\ rcv'.outcome = "failed"
              \/ /\ rcv.outcome = "running" /\ rcv'.outcome = "ok"
                 /\ rcv.pc = "finish"
  <1>typed. rcv \in Receivers
    BY DEF Shape, TypeOK
  <1>1. CASE Prepare
    <2>1. ~rcv.open /\ rcv.outcome = "running"
      BY <1>1 DEF Prepare, Shape, OpenWhileReceiving, OutcomeKnown
    <2> QED
      BY <1>1, <1>typed, <2>1 DEF Prepare, Receivers, Copied
  <1>2. CASE Finish
    <2>1. rcv.open /\ Copied = dest /\ Len(dest) = rcv.size /\ rcv.outcome = "running"
      BY <1>2 DEF Finish, Agreed, SizeAgreed, WholeWhenDone, Copied, OutcomeKnown
    <2> QED
      BY <1>2, <1>typed, <2>1 DEF Finish, Receivers, Copied
  <1>3. CASE ReceiveMetaData
    BY <1>3, <1>typed DEF ReceiveMetaData, Receivers, Copied, OutcomeKnown
  <1>4. CASE AdmitPeer \/ DecryptFails
    BY <1>4, <1>typed DEF AdmitPeer, DecryptFails, Receivers, Copied, OutcomeKnown
  <1>5. CASE FileFails \/ ReceiverFails
    BY <1>5, <1>typed DEF FileFails, ReceiverFails, Receivers, Copied, OutcomeKnown
  <1>6. CASE ReceiverReports
    BY <1>6, <1>typed DEF ReceiverReports, Receivers, Copied
  <1>7. CASE FileReceived \/ ReceiverCloses
    BY <1>7, <1>typed DEF FileReceived, ReceiverCloses, Receivers, Copied
  <1> QED
    BY <1>1, <1>2, <1>3, <1>4, <1>5, <1>6, <1>7 DEF Receiver

(* A step of the receiver that writes a chunk, or a part of one.           *)
LEMMA ReceiverWrites ==
    ASSUME Shape, Accounts, OutcomeKnown, Agreed,
           ChunkFails \/ \E tick \in BOOLEAN : ReceiveChunk(tick)
    PROVE  /\ UNCHANGED <<source, snd>> /\ rcv.outcome = "running"
           /\ rcv'.outcome \in {"running", "failed"}
           /\ \/ Copied' = Copied /\ rcv'.outcome = "failed"
              \/ Len(Copied') \in Len(Copied) + 1..Len(source)
  <1>typed. /\ rcv \in Receivers /\ snd \in Senders /\ Len(source) \in Nat
            /\ snd.off \in Nat /\ snd.sent \in Nat /\ Copied \in Seq(Nat)
            /\ Len(Copied) \in Nat
    BY TransferAssumption, LenProperties
       DEF Shape, TypeOK, Agreed, CopyIsPrefix, Senders
  <1>1. rcv.pc = "chunk" /\ toRecv # <<>> /\ UNCHANGED <<source, snd>>
    BY DEF ChunkFails, ReceiveChunk
  <1>2. rcv.outcome = "running"
    BY <1>1 DEF OutcomeKnown
  <1> DEFINE bytes == Head(toRecv).bytes
  <1>3. /\ rcv.open /\ dest = Copied /\ bytes \in Seq(Nat)
        /\ Len(Copied) = snd.sent /\ snd.sent < snd.off
        /\ snd.off = snd.sent + Len(bytes) /\ snd.off <= Len(source)
    BY <1>1, ChunkTaken DEF Agreed, CopyIsPrefix
  <1>4. Len(bytes) \in Nat
    BY <1>3, LenProperties
  <1>5. CASE \E tick \in BOOLEAN : ReceiveChunk(tick)
    <2>1. dest' = dest \o bytes /\ rcv'.open /\ rcv'.outcome = rcv.outcome
      BY <1>5, <1>typed, <1>3 DEF ReceiveChunk, Receivers
    <2>2. Copied' = Copied \o bytes
      BY <1>3, <2>1 DEF Copied
    <2> HIDE DEF bytes
    <2>3. Len(Copied') = Len(Copied) + Len(bytes)
      BY <1>typed, <1>3, <2>2, ConcatProperties
    <2> QED
      BY <1>typed, <1>1, <1>2, <1>3, <1>4, <2>1, <2>3
  <1>6. CASE ChunkFails
    <2>1. PICK n \in 0..Len(bytes) : dest' = dest \o SubSeq(bytes, 1, n)
      BY <1>6 DEF ChunkFails
    <2>2. rcv'.open /\ rcv'.outcome = "failed"
      BY <1>6, <1>typed, <1>3 DEF ChunkFails, Receivers
    <2>3. Copied' = Copied \o SubSeq(bytes, 1, n)
      BY <1>3, <2>1, <2>2 DEF Copied
    <2>4. /\ StandsAt(Copied, source, 0) /\ StandsAt(bytes, source, Len(Copied))
      BY <1>1, ChunkTaken DEF Agreed
    <2> HIDE DEF bytes
    <2>5. Len(Copied') = Len(Copied) + n
      BY <1>typed, <1>3, <2>1, <2>3, <2>4, Extended
    <2>6. CASE n = 0
      <3>1. SubSeq(bytes, 1, 0) = <<>>
        BY SubSeqEmpty
      <3>2. Copied' = Copied
        BY <1>typed, <2>3, <2>6, <3>1, ConcatEmptySeq
      <3> QED
        BY <1>1, <1>2, <2>2, <3>2
    <2>7. CASE n # 0
      <3>1. Len(Copied') \in Len(Copied) + 1..Len(source)
        BY <1>typed, <1>3, <1>4, <2>1, <2>5, <2>7
      <3> QED
        BY <1>1, <1>2, <2>2, <3>1
    <2> QED
      BY <2>6, <2>7
  <1> QED
    BY <1>5, <1>6

(* A step of the transfer is a step of FileDelivery, or changes nothing    *)
(* that FileDelivery sees.                                                 *)
LEMMA DeliveryStep ==
    ASSUME ~SourceMayChange, Shape, Accounts, OutcomeKnown, Agreed, Agreed', [Next]_vars
    PROVE  [Delivery!Next]_(Delivery!vars)
  <1>typed. /\ source \in Seq(Nat) /\ Copied \in Seq(Nat)
            /\ Len(Copied) <= Len(source) /\ StandsAt(Copied, source, 0)
            /\ Copied' \in Seq(Nat) /\ StandsAt(Copied', source', 0)
    <2>1. /\ snd.off \in Nat /\ Len(source) \in Nat /\ Len(Copied) \in Nat
      BY TransferAssumption, LenProperties
         DEF Shape, TypeOK, Senders, Agreed, CopyIsPrefix
    <2> QED
      BY <2>1, TransferAssumption DEF Shape, TypeOK, Agreed, CopyIsPrefix
  <1>1. CASE Sender
    <2>1. UNCHANGED <<source, rcv>> /\ Copied' = Copied
      BY <1>1, SenderKeeps DEF Copied
    <2>2. CASE snd'.outcome = snd.outcome
      BY <2>1, <2>2 DEF Delivery!vars
    <2>3. CASE snd.outcome = "running" /\ snd'.outcome = "failed"
      BY <2>1, <2>3 DEF Delivery!Next, Delivery!SenderEnds
    <2>4. CASE snd.outcome = "running" /\ snd'.outcome = "ok" /\ snd.pc = "last"
      <3>1. Copied = source
        BY <1>typed, <2>4, Beginning DEF Agreed, WholeWhenDone
      <3> QED
        BY <2>1, <2>4, <3>1 DEF Delivery!Next, Delivery!SenderEnds
    <2> QED
      BY <1>1, <2>2, <2>3, <2>4, SenderOutcome
  <1>2. CASE /\ Receiver /\ ~ChunkFails
             /\ ~\E tick \in BOOLEAN : ReceiveChunk(tick)
    <2>1. UNCHANGED <<source, snd>> /\ Copied' = Copied
      BY <1>2, ReceiverOutcome
    <2>2. CASE rcv'.outcome = rcv.outcome
      BY <2>1, <2>2 DEF Delivery!vars
    <2>3. CASE rcv.outcome = "running" /\ rcv'.outcome = "failed"
      BY <2>1, <2>3 DEF Delivery!Next, Delivery!ReceiverEnds
    <2>4. CASE rcv.outcome = "running" /\ rcv'.outcome = "ok" /\ rcv.pc = "finish"
      <3>1. Copied = source
        BY <1>typed, <2>4, Beginning DEF Agreed, WholeWhenDone
      <3> QED
        BY <2>1, <2>4, <3>1 DEF Delivery!Next, Delivery!ReceiverEnds
    <2> QED
      BY <1>2, <2>2, <2>3, <2>4, ReceiverOutcome
  <1>3. CASE ChunkFails \/ \E tick \in BOOLEAN : ReceiveChunk(tick)
    <2>1. /\ UNCHANGED <<source, snd>> /\ rcv.outcome = "running"
          /\ rcv'.outcome \in {"running", "failed"}
      BY <1>3, ReceiverWrites
    <2>2. CASE Copied' = Copied /\ rcv'.outcome = "failed"
      BY <2>1, <2>2 DEF Delivery!Next, Delivery!ReceiverEnds
    <2>3. CASE Len(Copied') \in Len(Copied) + 1..Len(source)
      <3>1. Len(Copied) \in Nat /\ Len(source) \in Nat
        BY <1>typed, LenProperties
      <3>2. Copied' = SubSeq(source, 1, Len(Copied'))
        BY <1>typed, <2>1, <2>3, <3>1, Beginning
      <3> QED
        BY <2>1, <2>3, <3>2 DEF Delivery!Next, Delivery!Arrive
    <2> QED
      BY <1>3, <2>2, <2>3, ReceiverWrites
  <1>4. CASE (\E e \in Ends : Drain(e)) \/ LinkLost \/ SourceChanges \/ UNCHANGED vars
    <2>1. UNCHANGED <<source, dest, snd, rcv>>
      BY <1>4 DEF Drain, LinkLost, SourceChanges, vars
    <2> QED
      BY <2>1 DEF Delivery!vars, Copied
  <1> QED
    BY <1>1, <1>2, <1>3, <1>4 DEF Next, Receiver

(* The transfer implements FileDelivery for any files, chunk size, limit   *)
(* and capacity, whatever the link and the disk do: the copy is at every   *)
(* moment a beginning of the source that only grows, and neither end       *)
(* reports success before it is whole.                                     *)
THEOREM TransferDelivers ==
    ASSUME ~SourceMayChange
    PROVE  Spec => Delivery!Init /\ [][Delivery!Next]_(Delivery!vars)
  <1>1. Init => Delivery!Init
    BY DEF Init, Delivery!Init, Copied
  <1>2. /\ Shape /\ Accounts /\ OutcomeKnown /\ Agreed /\ Agreed' /\ [Next]_vars
        => [Delivery!Next]_(Delivery!vars)
    BY DeliveryStep
  <1> QED
    BY <1>1, <1>2, ShapeAlways, AccountsAlways, OutcomeAlways, AgreedAlways, PTL
       DEF Spec
=============================================================================
