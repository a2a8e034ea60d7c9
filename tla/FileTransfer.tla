---------------------------- MODULE FileTransfer ----------------------------
(***************************************************************************)
(* One file sent to a peer over a libp2p stream of its own: SendFile under *)
(* sendFileToPeerStream on one host, ReceiveFile under handleFileStream on *)
(* the other, with the progress channel of each host.  The two directions  *)
(* of the stream are FIFO queues.  The link may be lost, a chunk may be    *)
(* altered, and the source may change while it is sent.                    *)
(*                                                                         *)
(* A file is a sequence of bytes.  What depends on the timer that paces    *)
(* the progress reports is left open.                                      *)
(***************************************************************************)
EXTENDS Naturals, Sequences

CONSTANTS
    Contents,     \* the contents the source may have
    ChunkSize,    \* SendFile's chunkSize
    MaxFileSize,  \* ReceiveOptions.MaxSize, 0 for no limit
    Capacity,     \* capacity of FileProgressChan
    SourceMayChange,  \* whether the source is written to during the transfer
    Corrupting,   \* whether a chunk may fail to decrypt
    DiskMayFail,  \* whether the receiver's file operations may fail
    Old,          \* what stands at the destination before the transfer
    NoFile        \* no file at the destination

ASSUME TransferAssumption ==
    /\ ChunkSize \in Nat \ {0}
    /\ MaxFileSize \in Nat
    /\ Capacity \in Nat \ {0}
    /\ SourceMayChange \in BOOLEAN
    /\ Corrupting \in BOOLEAN
    /\ DiskMayFail \in BOOLEAN
    /\ Contents \subseteq Seq(Nat)
    /\ NoFile \notin Seq(Nat)

Ends == {"send", "recv"}

VARIABLES
    source,    \* the contents of the source
    dest,      \* the contents of the destination
    snd,       \* the sending goroutine
    rcv,       \* the receiving goroutine
    toRecv,    \* messages under way to the receiver
    toSend,    \* messages under way to the sender
    closed,    \* the ends that have closed the stream
    up,        \* whether the link still stands
    progress,  \* number of reports in each end's FileProgressChan
    setup      \* the receiver's FileAutoAccept, and whether its key fits

vars == <<source, dest, snd, rcv, toRecv, toSend, closed, up, progress, setup>>

-----------------------------------------------------------------------------
MetaData(n) == [type |-> "meta", size |-> n]
Chunk(bytes) == [type |-> "chunk", bytes |-> bytes]
Event(e) == [type |-> e]

Requests == [type : {"meta"}, size : Nat] \cup [type : {"chunk"}, bytes : Seq(Nat)]
Answers == [type : {"ACCEPT", "REJECT", "VALIDATE_ERROR", "RECEIVED_CHUNK"}]

Outcomes == {"running", "ok", "failed"}
Senders == [pc : {"meta", "accept", "read", "ack", "progress", "last", "report",
                  "close", "closed"},
            total : Nat, off : Nat, sent : Nat, outcome : Outcomes]
Receivers == [pc : {"start", "meta", "prepare", "chunk", "progress", "finish",
                    "report", "hook", "close", "closed"},
              size : Nat, open : BOOLEAN, pasted : BOOLEAN, outcome : Outcomes]

TypeOK ==
    /\ source \in Contents
    /\ dest \in {Old, NoFile} \/ (rcv.open /\ dest \in Seq(Nat))
    /\ snd \in Senders
    /\ rcv \in Receivers
    /\ toRecv \in Seq(Requests)
    /\ toSend \in Seq(Answers)
    /\ closed \subseteq Ends
    /\ up \in BOOLEAN
    /\ progress \in [Ends -> 0..Capacity]
    /\ setup \in [autoAccept : BOOLEAN, keyFits : BOOLEAN]

(* The progress channel may hold reports of earlier transfers.             *)
Init ==
    /\ source \in Contents
    /\ dest = Old
    /\ snd = [pc |-> "meta", total |-> 0, off |-> 0, sent |-> 0,
              outcome |-> "running"]
    /\ rcv = [pc |-> "start", size |-> 0, open |-> FALSE, pasted |-> FALSE,
              outcome |-> "running"]
    /\ toRecv = <<>> /\ toSend = <<>>
    /\ closed = {}
    /\ up = TRUE
    /\ progress \in [Ends -> 0..Capacity]
    /\ setup \in [autoAccept : BOOLEAN, keyFits : BOOLEAN]

-----------------------------------------------------------------------------
(* A message written to a stream that the other end has closed is lost; a  *)
(* write to a link that is down fails (SenderFails, ReceiverFails).        *)
Post(queue, msg, to) == IF to \in closed THEN queue ELSE Append(queue, msg)

SendMetaData ==
    /\ snd.pc = "meta" /\ up
    /\ toRecv' = Post(toRecv, MetaData(Len(source)), "recv")
    /\ snd' = [snd EXCEPT !.pc = "accept", !.total = Len(source)]
    /\ UNCHANGED <<source, dest, rcv, toSend, closed, up, progress, setup>>

(* The answer to the metadata: anything but ACCEPT ends the transfer.      *)
AwaitAccept ==
    /\ snd.pc = "accept" /\ toSend # <<>>
    /\ toSend' = Tail(toSend)
    /\ snd' = IF Head(toSend).type = "ACCEPT"
              THEN [snd EXCEPT !.pc = "read"]
              ELSE [snd EXCEPT !.pc = "report", !.outcome = "failed"]
    /\ UNCHANGED <<source, dest, rcv, toRecv, closed, up, progress, setup>>

(* Variant: the next chunk is sent without waiting for the answer.         *)
SendChunkUnacknowledged ==
    LET upto == IF snd.off + ChunkSize < Len(source)
                THEN snd.off + ChunkSize ELSE Len(source)
    IN  /\ snd.pc = "read" /\ up
        /\ snd.off < Len(source)
        /\ toRecv' = Post(toRecv, Chunk(SubSeq(source, snd.off + 1, upto)), "recv")
        /\ snd' = [snd EXCEPT !.off = upto,
                              !.pc = IF upto = Len(source) THEN "ack" ELSE "read"]
        /\ UNCHANGED <<source, dest, rcv, toSend, closed, up, progress, setup>>

(* src.Read gives at most ChunkSize bytes of what the source now holds.    *)
SendChunk ==
    LET upto == IF snd.off + ChunkSize < Len(source)
                THEN snd.off + ChunkSize ELSE Len(source)
    IN  /\ snd.pc = "read" /\ up
        /\ snd.off < Len(source)
        /\ toRecv' = Post(toRecv, Chunk(SubSeq(source, snd.off + 1, upto)), "recv")
        /\ snd' = [snd EXCEPT !.pc = "ack", !.off = upto]
        /\ UNCHANGED <<source, dest, rcv, toSend, closed, up, progress, setup>>

(* RECEIVED_CHUNK lets the sender go on, with a progress report when the   *)
(* declared size is reached or the timer says so.                          *)
AwaitAck(tick) ==
    /\ snd.pc = "ack" /\ toSend # <<>>
    /\ toSend' = Tail(toSend)
    /\ snd' = IF Head(toSend).type = "RECEIVED_CHUNK"
              THEN [snd EXCEPT !.sent = snd.off,
                      !.pc = IF snd.off = snd.total \/ tick
                             THEN "progress" ELSE "read"]
              ELSE [snd EXCEPT !.pc = "report", !.outcome = "failed"]
    /\ UNCHANGED <<source, dest, rcv, toRecv, closed, up, progress, setup>>

ReadEnd ==
    /\ snd.pc = "read" /\ snd.off >= Len(source)
    /\ snd' = [snd EXCEPT !.pc = "last"]
    /\ UNCHANGED <<source, dest, rcv, toRecv, toSend, closed, up, progress, setup>>

(* Variant: the receiver's close is looked for before its last answers.    *)
SenderFailsEagerly ==
    /\ snd.pc \in {"accept", "ack"} /\ (~up \/ "recv" \in closed)
    /\ snd' = [snd EXCEPT !.pc = "report", !.outcome = "failed"]
    /\ UNCHANGED <<source, dest, rcv, toRecv, toSend, closed, up, progress, setup>>

(* The stream fails under the sender, or the source cannot be read.        *)
SenderFails ==
    /\ \/ /\ snd.pc = "meta" \/ (snd.pc = "read" /\ snd.off < Len(source))
          /\ ~up \/ "recv" \in closed
       \/ snd.pc \in {"accept", "ack"} /\ toSend = <<>> /\ "recv" \in closed
       \/ snd.pc \in {"accept", "ack"} /\ ~up
       \/ snd.pc = "read" /\ SourceMayChange
    /\ snd' = [snd EXCEPT !.pc = "report", !.outcome = "failed"]
    /\ UNCHANGED <<source, dest, rcv, toRecv, toSend, closed, up, progress, setup>>

(* A send on FileProgressChan blocks while the channel is full.  After the *)
(* last one of SendFile the result is reported.                            *)
SenderReports ==
    /\ snd.pc \in {"progress", "last", "report"}
    /\ progress["send"] < Capacity
    /\ progress' = [progress EXCEPT !["send"] = @ + 1]
    /\ snd' = CASE snd.pc = "progress" -> [snd EXCEPT !.pc = "read"]
                [] snd.pc = "last"     -> [snd EXCEPT !.pc = "report",
                                                      !.outcome = "ok"]
                [] snd.pc = "report"   -> [snd EXCEPT !.pc = "close"]
    /\ UNCHANGED <<source, dest, rcv, toRecv, toSend, closed, up, setup>>

SenderCloses ==
    /\ snd.pc = "close"
    /\ snd' = [snd EXCEPT !.pc = "closed"]
    /\ closed' = closed \cup {"send"}
    /\ UNCHANGED <<source, dest, rcv, toRecv, toSend, up, progress, setup>>

-----------------------------------------------------------------------------
(* handleFileStream: only a connected device is served.                    *)
AdmitPeer ==
    /\ rcv.pc = "start"
    /\ \/ rcv' = [rcv EXCEPT !.pc = "meta"]
       \/ rcv' = [rcv EXCEPT !.pc = "close", !.outcome = "failed"]
    /\ UNCHANGED <<source, dest, snd, toRecv, toSend, closed, up, progress, setup>>

(* Variant: the size limit is not looked at.                               *)
TooLargeNever(n) == n # n

TooLarge(n) == MaxFileSize > 0 /\ n > MaxFileSize

ReceiveMetaData ==
    /\ rcv.pc = "meta" /\ toRecv # <<>> /\ up
    /\ toRecv' = Tail(toRecv)
    /\ LET size == Head(toRecv).size
           answer == IF TooLarge(size) THEN "VALIDATE_ERROR"
                     ELSE IF setup.autoAccept THEN "ACCEPT" ELSE "REJECT"
       IN  /\ toSend' = Post(toSend, Event(answer), "send")
           /\ rcv' = IF answer = "ACCEPT"
                     THEN [rcv EXCEPT !.pc = "prepare", !.size = size]
                     ELSE [rcv EXCEPT !.pc = "report", !.size = size,
                                      !.outcome = "failed"]
    /\ UNCHANGED <<source, dest, snd, closed, up, progress, setup>>

(* Variant: the destination is opened before the key is unwrapped.         *)
PrepareOpensFirst ==
    /\ rcv.pc = "prepare"
    /\ dest' = <<>>
    /\ rcv' = IF setup.keyFits
              THEN [rcv EXCEPT !.pc = "chunk", !.open = TRUE]
              ELSE [rcv EXCEPT !.pc = "report", !.outcome = "failed"]
    /\ UNCHANGED <<source, snd, toRecv, toSend, closed, up, progress, setup>>

(* The AES key is unwrapped after the transfer was accepted; then the      *)
(* destination is opened with O_TRUNC.                                     *)
Prepare ==
    /\ rcv.pc = "prepare"
    /\ IF setup.keyFits
       THEN /\ dest' = <<>>
            /\ rcv' = [rcv EXCEPT !.pc = "chunk", !.open = TRUE]
       ELSE /\ UNCHANGED dest
            /\ rcv' = [rcv EXCEPT !.pc = "report", !.outcome = "failed"]
    /\ UNCHANGED <<source, snd, toRecv, toSend, closed, up, progress, setup>>

(* Variant: a chunk is acknowledged but its last byte is not written.      *)
ReceiveChunkShort(tick) ==
    LET bytes == Head(toRecv).bytes
        whole == rcv.size > 0 /\ Len(dest) + Len(bytes) - 1 >= rcv.size
    IN  /\ rcv.pc = "chunk" /\ toRecv # <<>> /\ up
        /\ toRecv' = Tail(toRecv)
        /\ dest' = dest \o SubSeq(bytes, 1, Len(bytes) - 1)
        /\ toSend' = Post(toSend, Event("RECEIVED_CHUNK"), "send")
        /\ rcv' = [rcv EXCEPT !.pc = IF whole \/ tick THEN "progress" ELSE "chunk"]
        /\ UNCHANGED <<source, snd, closed, up, progress, setup>>

(* A chunk is written and acknowledged.  The transfer is over when the     *)
(* declared size is reached; a report comes first, as the timer has it     *)
(* otherwise.                                                              *)
ReceiveChunk(tick) ==
    LET bytes == Head(toRecv).bytes
        whole == rcv.size > 0 /\ Len(dest) + Len(bytes) >= rcv.size
    IN  /\ rcv.pc = "chunk" /\ toRecv # <<>> /\ up
        /\ toRecv' = Tail(toRecv)
        /\ dest' = dest \o bytes
        /\ toSend' = Post(toSend, Event("RECEIVED_CHUNK"), "send")
        /\ rcv' = [rcv EXCEPT !.pc = IF whole \/ tick THEN "progress" ELSE "chunk"]
        /\ UNCHANGED <<source, snd, closed, up, progress, setup>>

(* Variant: a chunk that does not decrypt is dropped.                      *)
DecryptFailsSilently ==
    /\ Corrupting
    /\ rcv.pc = "chunk" /\ toRecv # <<>>
    /\ toRecv' = Tail(toRecv)
    /\ UNCHANGED <<source, dest, snd, rcv, toSend, closed, up, progress, setup>>

(* A chunk that does not decrypt is answered, and the file is left.        *)
DecryptFails ==
    /\ Corrupting
    /\ rcv.pc = "chunk" /\ toRecv # <<>>
    /\ toRecv' = Tail(toRecv)
    /\ toSend' = Post(toSend, Event("VALIDATE_ERROR"), "send")
    /\ rcv' = [rcv EXCEPT !.pc = "report", !.outcome = "failed"]
    /\ UNCHANGED <<source, dest, snd, closed, up, progress, setup>>

(* Writing a chunk fails, perhaps after a part of it, or the chunk is      *)
(* written and the answer cannot be sent.                                  *)
ChunkFails ==
    /\ rcv.pc = "chunk" /\ toRecv # <<>>
    /\ LET bytes == Head(toRecv).bytes
       IN  \E n \in 0..Len(bytes) :
              /\ IF n = Len(bytes) THEN ~up \/ "send" \in closed ELSE DiskMayFail
              /\ dest' = dest \o SubSeq(bytes, 1, n)
    /\ toRecv' = Tail(toRecv)
    /\ rcv' = [rcv EXCEPT !.pc = "report", !.outcome = "failed"]
    /\ UNCHANGED <<source, snd, toSend, closed, up, progress, setup>>

(* The destination cannot be opened or closed.                             *)
FileFails ==
    /\ DiskMayFail
    /\ rcv.pc \in {"prepare", "finish"}
    /\ rcv' = [rcv EXCEPT !.pc = "report", !.outcome = "failed"]
    /\ UNCHANGED <<source, dest, snd, toRecv, toSend, closed, up, progress, setup>>

(* Variant: the size is not compared once the file is closed.              *)
FinishUnchecked ==
    /\ rcv.pc = "finish"
    /\ UNCHANGED dest
    /\ rcv' = [rcv EXCEPT !.pc = "report", !.outcome = "ok"]
    /\ UNCHANGED <<source, snd, toRecv, toSend, closed, up, progress, setup>>

(* A file that has more bytes than were declared is removed.               *)
Finish ==
    /\ rcv.pc = "finish"
    /\ IF Len(dest) = rcv.size
       THEN /\ UNCHANGED dest
            /\ rcv' = [rcv EXCEPT !.pc = "report", !.outcome = "ok"]
       ELSE /\ dest' = NoFile
            /\ rcv' = [rcv EXCEPT !.pc = "report", !.outcome = "failed"]
    /\ UNCHANGED <<source, snd, toRecv, toSend, closed, up, progress, setup>>

(* The stream ends or fails under the receiver: an end of file means that  *)
(* the sender has closed and all it sent was read.                         *)
ReceiverFails ==
    /\ rcv.pc \in {"meta", "chunk"}
    /\ ~up \/ (toRecv = <<>> /\ "send" \in closed)
    /\ rcv' = [rcv EXCEPT !.pc = "report", !.outcome = "failed"]
    /\ UNCHANGED <<source, dest, snd, toRecv, toSend, closed, up, progress, setup>>

(* The receiver's sends on FileProgressChan.  The hook and the close come  *)
(* after the last of them.                                                 *)
ReceiverReports ==
    /\ rcv.pc \in {"progress", "report"}
    /\ progress["recv"] < Capacity
    /\ progress' = [progress EXCEPT !["recv"] = @ + 1]
    /\ rcv' = [rcv EXCEPT !.pc =
                CASE rcv.pc = "report" /\ rcv.outcome = "ok" -> "hook"
                  [] rcv.pc = "report" /\ rcv.outcome # "ok" -> "close"
                  [] rcv.pc = "progress" ->
                       IF rcv.size > 0 /\ Len(dest) >= rcv.size THEN "finish"
                                                                ELSE "chunk"]
    /\ UNCHANGED <<source, dest, snd, toRecv, toSend, closed, up, setup>>

(* onFileReceived puts the file on the operating system's clipboard.       *)
FileReceived ==
    /\ rcv.pc = "hook"
    /\ rcv' = [rcv EXCEPT !.pc = "close", !.pasted = TRUE]
    /\ UNCHANGED <<source, dest, snd, toRecv, toSend, closed, up, progress, setup>>

ReceiverCloses ==
    /\ rcv.pc = "close"
    /\ rcv' = [rcv EXCEPT !.pc = "closed"]
    /\ closed' = closed \cup {"recv"}
    /\ UNCHANGED <<source, dest, snd, toRecv, toSend, up, progress, setup>>

-----------------------------------------------------------------------------
(* The user interface takes a report from FileProgressChan.                *)
Drain(e) ==
    /\ progress[e] > 0
    /\ progress' = [progress EXCEPT ![e] = @ - 1]
    /\ UNCHANGED <<source, dest, snd, rcv, toRecv, toSend, closed, up, setup>>

LinkLost ==
    /\ up
    /\ up' = FALSE
    /\ UNCHANGED <<source, dest, snd, rcv, toRecv, toSend, closed, progress, setup>>

SourceChanges ==
    /\ SourceMayChange /\ snd.outcome = "running"
    /\ source' \in Contents \ {source}
    /\ UNCHANGED <<dest, snd, rcv, toRecv, toSend, closed, up, progress, setup>>

Sender == \/ SendMetaData \/ AwaitAccept \/ SendChunk
          \/ \E tick \in BOOLEAN : AwaitAck(tick)
          \/ ReadEnd \/ SenderFails \/ SenderReports \/ SenderCloses

Receiver == \/ AdmitPeer \/ ReceiveMetaData \/ Prepare
            \/ \E tick \in BOOLEAN : ReceiveChunk(tick)
            \/ DecryptFails \/ ChunkFails \/ FileFails \/ Finish \/ ReceiverFails \/ ReceiverReports
            \/ FileReceived \/ ReceiverCloses

(* Both goroutines have returned.                                          *)
Finished == snd.pc = "closed" /\ rcv.pc = "closed"

Next == \/ Sender \/ Receiver
        \/ \E e \in Ends : Drain(e)
        \/ LinkLost \/ SourceChanges

Spec == /\ Init /\ [][Next]_vars
        /\ WF_vars(Sender) /\ WF_vars(Receiver)
        /\ \A e \in Ends : WF_vars(Drain(e))

-----------------------------------------------------------------------------
(* The strengthening under which the invariants below are inductive.       *)

(* While it is the sender's turn, nothing is under way.                    *)
SenderTurn ==
    snd.pc \in {"meta", "read", "progress", "last"} => toRecv = <<>> /\ toSend = <<>>

(* The metadata comes first: it is there before the receiver has answered, *)
(* and after that there are only chunks.                                   *)
MetaDataFirst ==
    /\ rcv.pc \in {"start", "meta"} =>
          /\ toSend = <<>>
          /\ snd.pc \in {"meta", "accept", "report", "close", "closed"}
          /\ \A i \in 1..Len(toRecv) : toRecv[i].type = "meta"
    /\ rcv.pc \in {"prepare", "chunk", "progress"} =>
          /\ snd.pc # "meta"
          /\ \A i \in 1..Len(toRecv) : toRecv[i].type = "chunk"

(* The receiver's loop has an open file.                                   *)
Receiving == rcv.pc \in {"chunk", "progress", "finish"}
OpenWhileReceiving ==
    /\ Receiving => rcv.open /\ dest \in Seq(Nat)
    /\ rcv.pc \in {"start", "meta", "prepare"} => ~rcv.open
    /\ ~rcv.open => dest = Old

(* The bytes sent, under way and answered add up.                          *)
Answered(i) == toSend[i].type = "RECEIVED_CHUNK"
BytesAddUp ==
    /\ snd.pc \in {"meta", "accept", "read", "progress"} => snd.off = snd.sent
    /\ \A i \in 1..Len(toRecv) :
          toRecv[i].type = "chunk" => snd.off = snd.sent + Len(toRecv[i].bytes)
    /\ \A i \in 1..Len(toSend) : Answered(i) =>
          /\ Receiving => snd.off <= Len(dest)
          /\ dest = NoFile \/ (rcv.open /\ snd.off <= Len(dest))
    /\ Receiving => snd.sent <= Len(dest)
    /\ rcv.pc \in {"start", "meta", "prepare"} =>
          /\ snd.sent = 0
          /\ \A i \in 1..Len(toSend) : ~Answered(i)

(* Who opened the file was allowed to.                                     *)
OpenedIfAccepted ==
    /\ rcv.open => ~TooLarge(rcv.size) /\ setup.autoAccept /\ setup.keyFits
    /\ rcv.pc = "prepare" => ~TooLarge(rcv.size) /\ setup.autoAccept

(* A transfer that succeeded has the declared size.                        *)
OkIsWhole ==
    /\ rcv.outcome = "ok" =>
          /\ rcv.pc \in {"report", "hook", "close", "closed"}
          /\ dest \in Seq(Nat) /\ Len(dest) = rcv.size
    /\ rcv.pasted \/ rcv.pc = "hook" => rcv.outcome = "ok"

(* Each goroutine knows its outcome when its work is over, and closes the  *)
(* stream last.                                                            *)
OutcomeKnown ==
    /\ snd.outcome = "running" <=> snd.pc \notin {"report", "close", "closed"}
    /\ rcv.outcome = "running" <=> rcv.pc \notin {"report", "hook", "close", "closed"}
    /\ "send" \in closed => snd.pc = "closed"
    /\ "recv" \in closed => rcv.pc = "closed"

(* What of the file has arrived.                                           *)
Copied == IF rcv.open THEN dest ELSE <<>>

(* The bytes of s after the first off ones begin with these.               *)
StandsAt(bytes, s, off) == \A j \in 1..Len(bytes) : bytes[j] = s[off + j]

(* While the source is left alone, what has arrived is its beginning,      *)
(* between what was acknowledged and what was sent, and the chunk under    *)
(* way goes on from there.                                                 *)
CopyIsPrefix ==
    /\ Copied \in Seq(Nat)
    /\ snd.sent <= Len(Copied) /\ Len(Copied) <= snd.off /\ snd.off <= Len(source)
    /\ snd.pc \in {"meta", "accept"} => snd.off = 0
    /\ StandsAt(Copied, source, 0)
    /\ \A i \in 1..Len(toRecv) : toRecv[i].type = "chunk" =>
          /\ Len(Copied) = snd.sent /\ snd.sent < snd.off
          /\ StandsAt(toRecv[i].bytes, source, snd.sent)
    /\ \A i \in 1..Len(toSend) : Answered(i) => Len(Copied) = snd.off

(* Then both sides have the size of the source.                            *)
SizeAgreed ==
    /\ snd.pc \in {"accept", "read", "ack", "progress", "last"} \/ snd.outcome = "ok"
          => snd.total = Len(source)
    /\ \A i \in 1..Len(toRecv) :
          toRecv[i].type = "meta" => toRecv[i].size = Len(source)
    /\ rcv.pc \in {"prepare", "chunk", "progress", "finish"} => rcv.size = Len(source)

(* Then who is done knows that the file has arrived.                       *)
WholeWhenDone ==
    /\ rcv.pc = "finish" \/ rcv.outcome = "ok" =>
          rcv.open /\ Len(source) > 0 /\ Len(Copied) = Len(source)
    /\ snd.pc = "last" \/ snd.outcome = "ok" => Len(Copied) = Len(source)

(* Then who waits for an answer gets it unless the receiver or the link    *)
(* has failed, and nothing else makes the sender fail.                     *)
AnswersCome ==
    /\ \A i \in 1..Len(toSend) :
          /\ snd.pc = "accept" => toSend[i].type # "RECEIVED_CHUNK"
          /\ snd.pc = "ack" => toSend[i].type # "ACCEPT"
          /\ toSend[i].type \in {"REJECT", "VALIDATE_ERROR"} => rcv.outcome = "failed"
    /\ snd.pc = "ack" => \A i \in 1..Len(toRecv) : toRecv[i].type = "chunk"
    /\ snd.pc \in {"accept", "ack"} /\ toRecv = <<>> /\ toSend = <<>> =>
          rcv.outcome = "failed" \/ ~up
    /\ snd.outcome = "failed" => rcv.outcome = "failed" \/ ~up

(* Stop-and-wait: the two ends never have more than one message under way  *)
(* between them, so no chunk is sent before the last one was answered.     *)
StopAndWait == Len(toRecv) + Len(toSend) <= 1

(* A byte the sender has had acknowledged is in the destination, unless    *)
(* the receiver has removed the file.                                      *)
AckedIsWritten ==
    snd.sent > 0 => dest = NoFile \/ (rcv.open /\ snd.sent <= Len(dest))

(* Nothing is written for a file that is too large or not accepted, or     *)
(* whose key does not fit: every check comes before the file is truncated. *)
RefusedLeavesNoTrace ==
    TooLarge(rcv.size) \/ ~setup.autoAccept \/ ~setup.keyFits => dest = Old

(* The ends agree: when the receiver has the whole file, the sender has    *)
(* not failed unless the link did, since the last answer was sent before   *)
(* the receiver closes; and a sender that succeeded has had all the bytes  *)
(* it declared written at the other end.                                   *)
EndsAgree ==
    /\ rcv.outcome = "ok" /\ snd.outcome = "failed" => ~up \/ SourceMayChange
    /\ snd.outcome = "ok" /\ ~SourceMayChange =>
          snd.total = 0 \/ (rcv.open /\ Len(dest) = snd.total)

(* Only a file of the declared size gets to the clipboard, even when the   *)
(* source changes during the transfer.                                     *)
PastedIsWhole == rcv.pasted => dest # NoFile /\ Len(dest) = rcv.size

(* Both ends close the stream: none waits for ever, on the other or on its *)
(* progress channel.                                                       *)
BothFinish == <>Finished

(* The transfer implements FileDelivery while the source is left alone.    *)
Delivery == INSTANCE FileDelivery
              WITH file     <- source,
                   copy     <- Copied,
                   sender   <- snd.outcome,
                   receiver <- rcv.outcome

Delivers == Delivery!Spec
=============================================================================
