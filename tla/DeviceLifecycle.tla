--------------------------- MODULE DeviceLifecycle ---------------------------
(***************************************************************************)
(* The device table of one cross-clipboard host and the goroutines that    *)
(* share it: the stream handler that libp2p calls for an inbound stream,   *)
(* the discovery loop that opens outbound streams, one reader goroutine    *)
(* per stream, the writer goroutine that sends the clipboard, and the      *)
(* terminal user interface, which answers trust prompts.                   *)
(*                                                                         *)
(* No lock protects the table or the Device objects.  A step of this       *)
(* module is the code a goroutine runs between two points where it can     *)
(* block (a send on an unbuffered channel, a network call), so every       *)
(* interleaving the channels allow is a behavior of the module.            *)
(***************************************************************************)
EXTENDS Naturals

CONSTANTS
    Peers,        \* libp2p peer IDs of the other hosts
    Devices,      \* heap cells that can hold a device.Device object
    PeerOf,       \* PeerOf[o]: the peer a Device object stands for
    Streams,      \* libp2p stream handles
    Identity,     \* Identity[p]: the user name and OS that p announces
    Keys,         \* PGP public keys that peers may announce
    UsableKeys,   \* the keys of which an encrypter can be made
    AutoTrust,    \* config.AutoTrust
    MaxRestarts,  \* bound on the restarts of the process
    NoId,         \* the empty peer ID of a Device just read from disk
    None          \* Go's nil

ASSUME ConstantsAssumption ==
    /\ PeerOf \in [Devices -> Peers]
    /\ \A p \in Peers : \E o \in Devices : PeerOf[o] = p
    /\ UsableKeys \subseteq Keys
    /\ AutoTrust \in BOOLEAN
    /\ MaxRestarts \in Nat
    /\ NoId \notin Peers
    /\ None \notin Devices \cup Peers \cup Streams \cup Keys
    /\ {"writer", "user"} \cap Streams = {}

VARIABLES
    device,     \* the contents of every Device object
    table,      \* DeviceManager.Devices, a map from peer ID to Device
    disk,       \* devices.json: the record saved for each peer
    torn,       \* devices.json is not JSON
    saving,     \* what each goroutine in Save has marshalled
    alone,      \* history: the last save has met no other and has not failed
    reader,     \* the goroutine that serves each stream
    update,     \* where each goroutine is inside UpdateDevice or AddDevice
    discovery,  \* the discovery loop
    writer,     \* the Device the clipboard writer is sending to
    prompt,     \* the Device of the trust prompt on the screen
    trusted,    \* history: peers that the user or auto trust has accepted
    restarts    \* history: how often the process was restarted

saves == <<disk, torn, saving, alone>>

vars == <<device, table, saves, reader, update, discovery, writer, prompt,
          trusted, restarts>>

-----------------------------------------------------------------------------
Ids == Peers \cup {NoId}

Statuses == {"", "pending", "connected", "disconnected", "error", "blocked"}

(* device.Device.  "addr" says whether AddressInfo is set (it is not       *)
(* persisted), "named" whether the peer's name and OS are known.  "enc" is *)
(* the key the PGP encrypter was made from.                                *)
Device == [addr   : BOOLEAN,
           named  : BOOLEAN,
           key    : Keys \cup {None},
           enc    : Keys \cup {None},
           status : Statuses,
           stream : Streams \cup {None}]

NewDevice(s) == [addr |-> TRUE, named |-> FALSE, key |-> None, enc |-> None,
                 status |-> "", stream |-> s]

(* What Save writes for one device, as far as Load looks at it: Load gives *)
(* every device that is not blocked a new status.                          *)
Record == [blocked : BOOLEAN, key : Keys \cup {None}]
Records == [Peers -> Record \cup {None}]
NoRecords == [p \in Peers |-> None]

(* The goroutines that call UpdateDevice; the handler of an inbound stream *)
(* and the discovery loop are named by the stream they have in hand.       *)
Goroutines == Streams \cup {"writer", "user"}

(* Where a goroutine is: after the send on LogChan that comes before        *)
(* UpdateDevice, in the send on DevicesUpdated, and in Save before it       *)
(* marshals, opens the file and writes it.                                 *)
Stages == {"none", "insert", "notify", "added", "save", "open", "write"}

(* Free while the goroutine does not exist.  "spawn": an inbound handler   *)
(* or the discovery loop is about to start it.  "src" is the stream its    *)
(* bufio.Reader reads from.                                                *)
NoReader == [pc |-> "off", dv |-> None, src |-> None]
Reader == [pc  : {"off", "spawn", "greet", "loop", "close"},
           dv  : Devices \cup {None},
           src : Streams \cup {None}]

Idle == [pc |-> "idle", peer |-> None, dv |-> None, stream |-> None]

TypeOK ==
    /\ device \in [Devices -> Device]
    /\ table \in [Ids -> Devices \cup {None}]
    /\ disk \in Records /\ torn \in BOOLEAN
    /\ saving \in [Goroutines -> Records] /\ alone \in BOOLEAN
    /\ reader \in [Streams -> Reader]
    /\ \A s \in Streams : reader[s].pc # "off" => reader[s].dv \in Devices
    /\ update \in [Goroutines -> Stages]
    /\ discovery \in [pc     : {"idle", "dial", "spawn"},
                      peer   : Peers \cup {None},
                      dv     : Devices \cup {None},
                      stream : Streams \cup {None}]
    /\ writer \in Devices \cup {None}
    /\ prompt \in Devices \cup {None}
    /\ trusted \subseteq Peers
    /\ restarts \in 0..MaxRestarts

Init ==
    /\ device = [o \in Devices |-> [NewDevice(None) EXCEPT !.addr = FALSE]]
    /\ table = [i \in Ids |-> None]
    /\ disk = NoRecords /\ torn = FALSE
    /\ saving = [g \in Goroutines |-> NoRecords] /\ alone = TRUE
    /\ reader = [s \in Streams |-> NoReader]
    /\ update = [g \in Goroutines |-> "none"]
    /\ discovery = Idle
    /\ writer = None
    /\ prompt = None
    /\ trusted = {}
    /\ restarts = 0

-----------------------------------------------------------------------------
(* Objects and streams that nothing refers to can be handed out again, as  *)
(* the garbage collector would.                                            *)
Referenced(o) ==
    \/ \E i \in Ids : table[i] = o
    \/ \E s \in Streams : reader[s].dv = o
    \/ o \in {discovery.dv, writer, prompt}

FreshDevice(p, o) == PeerOf[o] = p /\ ~Referenced(o)

FreshStream(s) ==
    /\ reader[s].pc = "off"
    /\ \A t \in Streams : reader[t].src # s
    /\ \A o \in Devices : Referenced(o) => device[o].stream # s

(* AddressInfo.ID.String(), the key under which UpdateDevice stores o.     *)
Id(dev, o) == IF dev[o].addr THEN PeerOf[o] ELSE NoId

(* Variant: a cleanup that does not ask whether the entry is stale.        *)
PurgedWhenLive(dev, o) ==
    {i \in Ids :
        /\ dev[o].status = "connected" /\ dev[o].named
        /\ i # Id(dev, o)
        /\ table[i] # None
        /\ \/ ~dev[table[i]].named
           \/ Identity[PeerOf[table[i]]] = Identity[PeerOf[o]]}

(* The identities UpdateDevice deletes when o is connected and named: the  *)
(* stale entries of the same name and OS, and the stale unnamed ones.      *)
Purged(dev, o) ==
    {i \in Ids :
        /\ dev[o].status = "connected" /\ dev[o].named
        /\ i # Id(dev, o)
        /\ table[i] # None
        /\ dev[table[i]].status \in {"disconnected", "error", ""}
        /\ \/ ~dev[table[i]].named
           \/ Identity[PeerOf[table[i]]] = Identity[PeerOf[o]]}

(* The map write and the cleanup of UpdateDevice.                          *)
TableWith(dev, o) ==
    [i \in Ids |-> IF i = Id(dev, o) THEN o
                   ELSE IF i \in Purged(dev, o) THEN None
                   ELSE table[i]]

(* UpdateDevice up to its send on DevicesUpdated; Notify and Save follow.  *)
UpdateDevice(g, o) ==
    /\ table' = TableWith(device', o)
    /\ update' = [update EXCEPT ![g] = "notify"]

(* Variant: unfinished handshakes are saved as well.                       *)
SnapshotOfAll ==
    [p \in Peers |->
        IF table[p] # None
        THEN [blocked |-> device[table[p]].status = "blocked",
              key |-> device[table[p]].key]
        ELSE None]

(* What Save writes: only the devices with a name.                         *)
Snapshot ==
    [p \in Peers |->
        IF table[p] # None /\ device[table[p]].named
        THEN [blocked |-> device[table[p]].status = "blocked",
              key |-> device[table[p]].key]
        ELSE None]

(* Variant: the status changes without an encrypter.                       *)
TrustStatusOnly(d) ==
    IF d.key \in UsableKeys THEN [d EXCEPT !.status = "connected"] ELSE d

(* dv.Trust: nothing changes when no encrypter can be made of the key.     *)
Trust(d) ==
    IF d.key \in UsableKeys THEN [d EXCEPT !.enc = d.key, !.status = "connected"]
                            ELSE d

-----------------------------------------------------------------------------
(* Variant: AddressInfo is left as Load made it.                           *)
InboundWithoutAddress(p, s) ==
    /\ FreshStream(s) /\ update[s] = "none"
    /\ table[p] # None
    /\ device' = [device EXCEPT ![table[p]].stream = s]
    /\ reader' = [reader EXCEPT ![s] = [pc |-> "greet", dv |-> table[p],
                                        src |-> s]]
    /\ UNCHANGED <<table, saves, update, discovery, writer, prompt, trusted,
                   restarts>>

(* HandleStream for a peer that has an entry: the Device is reused and its *)
(* stream, reader and writer are replaced, whatever its status is.         *)
InboundKnown(p, s) ==
    /\ FreshStream(s) /\ update[s] = "none"
    /\ table[p] # None
    /\ device' = [device EXCEPT ![table[p]].addr = TRUE,
                                ![table[p]].stream = s]
    /\ reader' = [reader EXCEPT ![s] = [pc |-> "greet", dv |-> table[p],
                                        src |-> s]]
    /\ UNCHANGED <<table, saves, update, discovery, writer, prompt, trusted,
                   restarts>>

(* Variant: the reader is started with the nil that GetDevice returned.    *)
InboundWithNil(p, s) ==
    /\ FreshStream(s) /\ update[s] = "none"
    /\ table[p] = None
    /\ \E o \in Devices : /\ FreshDevice(p, o)
                          /\ device' = [device EXCEPT ![o] = NewDevice(s)]
                          /\ table' = [table EXCEPT ![p] = o]
    /\ reader' = [reader EXCEPT ![s] = [pc |-> "spawn", dv |-> table[p],
                                        src |-> None]]
    /\ update' = [update EXCEPT ![s] = "added"]
    /\ UNCHANGED <<saves, discovery, writer, prompt, trusted, restarts>>

(* HandleStream for an unknown peer: AddDevice stores a new Device and     *)
(* blocks on DevicesUpdated before the reader goroutine is started.        *)
InboundNew(p, s) ==
    /\ FreshStream(s) /\ update[s] = "none"
    /\ table[p] = None
    /\ \E o \in Devices :
          /\ FreshDevice(p, o)
          /\ device' = [device EXCEPT ![o] = NewDevice(s)]
          /\ table' = [table EXCEPT ![p] = o]
          /\ reader' = [reader EXCEPT ![s] = [pc |-> "spawn", dv |-> o,
                                              src |-> None]]
    /\ update' = [update EXCEPT ![s] = "added"]
    /\ UNCHANGED <<saves, discovery, writer, prompt, trusted, restarts>>

(* The discovery loop takes a peer from mDNS and reads its entry, which it *)
(* uses after the network calls below.  A peer that is linked to the host  *)
(* and has a stream is skipped and one with a lower ID is first waited     *)
(* for, but links come and go at any time, so any peer may be dialled.     *)
Discover(p) ==
    /\ discovery.pc = "idle"
    /\ table[p] # None => device[table[p]].status # "blocked"
    /\ discovery' = [pc |-> "dial", peer |-> p, dv |-> table[p],
                     stream |-> None]
    /\ UNCHANGED <<device, table, saves, reader, update, writer, prompt, trusted,
                   restarts>>

(* The other side connected first, or Connect failed four times, or        *)
(* NewStream failed.                                                       *)
DialFails ==
    /\ discovery.pc = "dial"
    /\ discovery' = Idle
    /\ UNCHANGED <<device, table, saves, reader, update, writer, prompt, trusted, restarts>>

(* Connect and NewStream succeeded: the Device read by Discover gets the   *)
(* new stream, or a new Device is made when there was none at that time.   *)
OpenStream(s) ==
    /\ discovery.pc = "dial"
    /\ FreshStream(s) /\ update[s] = "none"
    /\ \E o \in Devices :
          /\ \/ o = discovery.dv
                /\ device' = [device EXCEPT ![o].addr = TRUE, ![o].stream = s]
             \/ discovery.dv = None /\ FreshDevice(discovery.peer, o)
                /\ device' = [device EXCEPT ![o] = NewDevice(s)]
          /\ reader' = [reader EXCEPT ![s] = [pc |-> "spawn", dv |-> o,
                                              src |-> None]]
          /\ UpdateDevice(s, o)
    /\ discovery' = [discovery EXCEPT !.pc = "spawn", !.dv = None, !.stream = s]
    /\ UNCHANGED <<saves, writer, prompt, trusted, restarts>>

(* go CreateReadData(dv.Reader, dv): dv.Reader is read only now, after the *)
(* blocking AddDevice or UpdateDevice.                                     *)
Spawn(s) ==
    /\ reader[s].pc = "spawn" /\ update[s] = "none"
    /\ reader' = [reader EXCEPT ![s].pc = "greet",
                                ![s].src = device[reader[s].dv].stream]
    /\ discovery' = IF discovery.stream = s THEN Idle ELSE discovery
    /\ UNCHANGED <<device, table, saves, update, writer, prompt, trusted,
                   restarts>>

-----------------------------------------------------------------------------
(* The reader goroutine sends its device data, then enters its loop.       *)
Greet(s) ==
    /\ reader[s].pc = "greet"
    /\ reader' = [reader EXCEPT ![s].pc = "loop"]
    /\ UNCHANGED <<device, table, saves, update, discovery, writer, prompt,
                   trusted, restarts>>

(* Sending device data fails, at the start or in answer to a request.  The *)
(* reader goes on with its loop.                                           *)
SendDeviceDataFails(s) ==
    /\ reader[s].pc \in {"greet", "loop"} /\ update[s] = "none"
    /\ device' = [device EXCEPT ![reader[s].dv].status = "error"]
    /\ UpdateDevice(s, reader[s].dv)
    /\ reader' = [reader EXCEPT ![s].pc = "loop"]
    /\ UNCHANGED <<saves, discovery, writer, prompt, trusted, restarts>>

(* Variant: a device that is known by name is connected without trust.     *)
ReceiveFromKnown(s, k) ==
    LET o == reader[s].dv
        received == [device[o] EXCEPT !.named = TRUE, !.key = k,
                        !.status = IF device[o].enc # None \/ device[o].named
                                   THEN "connected" ELSE "pending"]
    IN  /\ reader[s].pc = "loop" /\ update[s] = "none"
        /\ ~AutoTrust \/ device[o].enc # None
        /\ device' = [device EXCEPT ![o] = received]
        /\ UpdateDevice(s, o)
        /\ UNCHANGED <<saves, reader, discovery, writer, prompt, trusted,
                       restarts>>

(* A device data frame: name, OS and key are taken; a device that has an   *)
(* encrypter is connected, any other is pending.                           *)
ReceiveDeviceData(s, k) ==
    LET o == reader[s].dv
        received == [device[o] EXCEPT !.named = TRUE, !.key = k,
                        !.status = IF device[o].enc # None THEN "connected"
                                                           ELSE "pending"]
    IN  /\ reader[s].pc = "loop" /\ update[s] = "none"
        /\ ~AutoTrust \/ device[o].enc # None
        /\ device' = [device EXCEPT ![o] = received]
        /\ UpdateDevice(s, o)
        /\ UNCHANGED <<saves, reader, discovery, writer, prompt, trusted,
                       restarts>>

(* The same under auto trust: the device is trusted at once, and the send  *)
(* on LogChan that follows comes before UpdateDevice.                      *)
ReceiveAndTrust(s, k) ==
    LET o == reader[s].dv
        received == [device[o] EXCEPT !.named = TRUE, !.key = k,
                                      !.status = "pending"]
    IN  /\ reader[s].pc = "loop" /\ update[s] = "none"
        /\ AutoTrust /\ device[o].enc = None
        /\ device' = [device EXCEPT ![o] = Trust(received)]
        /\ trusted' = trusted \cup {PeerOf[o]}
        /\ update' = [update EXCEPT ![s] = "insert"]
        /\ UNCHANGED <<table, saves, reader, discovery, writer, prompt, restarts>>

InsertTrusted(s) ==
    /\ reader[s].pc = "loop" /\ update[s] = "insert"
    /\ UNCHANGED device
    /\ UpdateDevice(s, reader[s].dv)
    /\ UNCHANGED <<saves, reader, discovery, writer, prompt, trusted,
                   restarts>>

(* Variants: a bad frame bans the peer; the status is left as it was.      *)
ReaderBans(s, status) ==
    /\ reader[s].pc = "loop" /\ update[s] = "none"
    /\ device' = [device EXCEPT ![reader[s].dv].status =
                     IF status = "error" THEN "blocked" ELSE status]
    /\ UpdateDevice(s, reader[s].dv)
    /\ reader' = [reader EXCEPT ![s].pc = "close"]
    /\ UNCHANGED <<saves, discovery, writer, prompt, trusted, restarts>>

ReaderEndsSilently(s, status) ==
    /\ reader[s].pc = "loop" /\ update[s] = "none"
    /\ UNCHANGED device
    /\ UpdateDevice(s, reader[s].dv)
    /\ reader' = [reader EXCEPT ![s].pc = "close"]
    /\ UNCHANGED <<saves, discovery, writer, prompt, trusted, restarts>>

(* The reader leaves its loop: the stream was reset or the peer said it    *)
(* disconnects, or a frame could not be read, is out of bounds or cannot   *)
(* be decoded.                                                             *)
ReaderEnds(s, status) ==
    /\ reader[s].pc = "loop" /\ update[s] = "none"
    /\ device' = [device EXCEPT ![reader[s].dv].status = status]
    /\ UpdateDevice(s, reader[s].dv)
    /\ reader' = [reader EXCEPT ![s].pc = "close"]
    /\ UNCHANGED <<saves, discovery, writer, prompt, trusted, restarts>>

(* dv.Stream.Close() closes the stream the Device has by now; the handle   *)
(* of a closed stream is not told from nil.  Then the goroutine returns.   *)
ReaderCloses(s) ==
    /\ reader[s].pc = "close" /\ update[s] = "none"
    /\ device' = [device EXCEPT ![reader[s].dv].stream = None]
    /\ reader' = [reader EXCEPT ![s] = NoReader]
    /\ UNCHANGED <<table, saves, update, discovery, writer, prompt, trusted,
                   restarts>>

-----------------------------------------------------------------------------
(* sendClipboard comes to a pending or connected device.                   *)
WriterPicks(o) ==
    /\ writer = None /\ update["writer"] = "none"
    /\ \E i \in Ids : table[i] = o
    /\ device[o].status \in {"pending", "connected"}
    /\ writer' = o
    /\ UNCHANGED <<device, table, saves, reader, update, discovery, prompt,
                   trusted, restarts>>

WriteDone ==
    /\ writer # None
    /\ writer' = None
    /\ UNCHANGED <<device, table, saves, reader, update, discovery, prompt,
                   trusted, restarts>>

(* No encrypter, or encoding or writing failed.                            *)
WriteFails ==
    /\ writer # None
    /\ device' = [device EXCEPT ![writer].status = "error"]
    /\ UpdateDevice("writer", writer)
    /\ writer' = None
    /\ UNCHANGED <<saves, reader, discovery, prompt, trusted, restarts>>

-----------------------------------------------------------------------------
(* The entries that the user interface draws a trust prompt for.           *)
Pending == {o \in Devices : /\ \E i \in Ids : table[i] = o
                            /\ device[o].status = "pending"}

(* Variants: UpdateDevice without Save; a user interface that receives on  *)
(* the goroutine that answers the prompts.                                 *)
NotifyWithoutSave(g) ==
    /\ update[g] \in {"notify", "added"}
    /\ update' = [update EXCEPT ![g] = "none"]
    /\ IF Pending = {} THEN UNCHANGED prompt ELSE prompt' \in Pending
    /\ UNCHANGED <<device, table, saves, reader, discovery, writer, trusted,
                   restarts>>

NotifyOnUserGoroutine(g) ==
    /\ update["user"] = "none"
    /\ update[g] \in {"notify", "added"}
    /\ update' = [update EXCEPT ![g] = IF update[g] = "notify" THEN "save"
                                                               ELSE "none"]
    /\ IF Pending = {} THEN UNCHANGED prompt ELSE prompt' \in Pending
    /\ UNCHANGED <<device, table, saves, reader, discovery, writer, trusted,
                   restarts>>

(* The user interface receives from DevicesUpdated and draws the table:    *)
(* each prompt replaces what was on the screen, so the last one drawn is   *)
(* seen.  AddDevice is then finished.                                      *)
Notify(g) ==
    /\ update[g] \in {"notify", "added"}
    /\ update' = [update EXCEPT ![g] = IF update[g] = "notify" THEN "save"
                                                               ELSE "none"]
    /\ IF Pending = {} THEN UNCHANGED prompt ELSE prompt' \in Pending
    /\ UNCHANGED <<device, table, saves, reader, discovery, writer, trusted, restarts>>

(* Save.  No lock is held, so that saves overlap: each marshals the table  *)
(* first ...                                                               *)
Marshal(g) ==
    /\ update[g] = "save"
    /\ update' = [update EXCEPT ![g] = "open"]
    /\ saving' = [saving EXCEPT ![g] = Snapshot]
    /\ alone' = \A f \in Goroutines : update[f] \notin {"open", "write"}
    /\ UNCHANGED <<device, table, disk, torn, reader, discovery, writer, prompt, trusted,
                   restarts>>

(* ... then os.WriteFile empties the file ...                              *)
Truncate(g) ==
    /\ update[g] = "open"
    /\ update' = [update EXCEPT ![g] = "write"]
    /\ disk' = NoRecords /\ torn' = FALSE
    /\ UNCHANGED <<device, table, saving, alone, reader, discovery, writer, prompt, trusted,
                   restarts>>

(* UpdateDevice returns.  The user interface then goes back to its layout, *)
(* which removes whatever prompt is shown.                                 *)
Return(g) ==
    /\ update' = [update EXCEPT ![g] = "none"]
    /\ saving' = [saving EXCEPT ![g] = NoRecords]
    /\ prompt' = IF g = "user" THEN None ELSE prompt
    /\ UNCHANGED <<device, table, reader, discovery, writer, trusted, restarts>>

(* A file that holds the end of another one, or breaks off, is no JSON.    *)
Tear == disk' = NoRecords /\ torn' = TRUE

(* ... and writes it from its start.  What another save has written in the *)
(* meantime may be longer, and its end then stays.                         *)
Write(g) ==
    /\ update[g] = "write"
    /\ \/ disk' = saving[g] /\ torn' = FALSE
       \/ (torn \/ disk # NoRecords) /\ Tear
    /\ UNCHANGED alone
    /\ Return(g)

(* The file cannot be opened, or cannot be written, or not to its end; no  *)
(* caller looks at the error.                                              *)
SaveFails(g) ==
    /\ update[g] \in {"open", "write"}
    /\ \/ UNCHANGED <<disk, torn>>
       \/ update[g] = "write" /\ Tear
    /\ alone' = FALSE
    /\ Return(g)

Save(g) == Marshal(g) \/ Truncate(g) \/ Write(g) \/ SaveFails(g)

(* The buttons of the prompt, which holds the Device it was drawn for.     *)
UserTrusts ==
    /\ prompt # None /\ update["user"] = "none"
    /\ device' = [device EXCEPT ![prompt] = Trust(device[prompt])]
    /\ UpdateDevice("user", prompt)
    /\ trusted' = trusted \cup {PeerOf[prompt]}
    /\ UNCHANGED <<saves, reader, discovery, writer, prompt, restarts>>

UserBlocks ==
    /\ prompt # None /\ update["user"] = "none"
    /\ device' = [device EXCEPT ![prompt].status = "blocked"]
    /\ UpdateDevice("user", prompt)
    /\ UNCHANGED <<saves, reader, discovery, writer, prompt, trusted,
                   restarts>>

-----------------------------------------------------------------------------
(* Load drops a record of which no encrypter can be made ...               *)
Loadable(r) == r # None /\ (r.blocked \/ r.key \in UsableKeys)

(* Variant: a blocked record is loaded like any other.                     *)
LoadedUnblocked(r) ==
    [addr |-> FALSE, named |-> TRUE, key |-> r.key, stream |-> None,
     enc |-> r.key, status |-> "disconnected"]

(* ... and keeps a blocked device without one.                             *)
Loaded(r) ==
    [addr |-> FALSE, named |-> TRUE, key |-> r.key, stream |-> None,
     enc |-> IF r.blocked THEN None ELSE r.key,
     status |-> IF r.blocked THEN "blocked" ELSE "disconnected"]

CellOf(p) == CHOOSE o \in Devices : PeerOf[o] = p

(* The process ends, at any point, and is started again: Load is finished  *)
(* before the stream handler is registered and discovery begins.  A file   *)
(* that is no JSON ends the start; Persistence has more of that.           *)
Restart ==
    /\ restarts < MaxRestarts /\ ~torn
    /\ restarts' = restarts + 1
    /\ table' = [i \in Ids |-> IF i \in Peers /\ Loadable(disk[i])
                               THEN CellOf(i) ELSE None]
    /\ device' = [o \in Devices |->
                    IF Loadable(disk[PeerOf[o]]) THEN Loaded(disk[PeerOf[o]])
                    ELSE [NewDevice(None) EXCEPT !.addr = FALSE]]
    /\ reader' = [s \in Streams |-> NoReader]
    /\ update' = [g \in Goroutines |-> "none"]
    /\ discovery' = Idle
    /\ writer' = None
    /\ prompt' = None
    /\ saving' = [g \in Goroutines |-> NoRecords]
    /\ alone' = TRUE
    /\ UNCHANGED <<disk, torn, trusted>>

-----------------------------------------------------------------------------
Next ==
    \/ \E p \in Peers, s \in Streams : InboundKnown(p, s) \/ InboundNew(p, s)
    \/ \E p \in Peers : Discover(p)
    \/ DialFails
    \/ \E s \in Streams : \/ OpenStream(s) \/ Spawn(s) \/ Greet(s)
                          \/ SendDeviceDataFails(s)
                          \/ InsertTrusted(s) \/ ReaderCloses(s)
    \/ \E s \in Streams, k \in Keys : \/ ReceiveDeviceData(s, k)
                                      \/ ReceiveAndTrust(s, k)
    \/ \E s \in Streams, status \in {"disconnected", "error"} :
          ReaderEnds(s, status)
    \/ \E o \in Devices : WriterPicks(o)
    \/ WriteDone \/ WriteFails
    \/ \E g \in Goroutines : Notify(g) \/ Save(g)
    \/ UserTrusts \/ UserBlocks
    \/ Restart

(* The steps a goroutine takes without waiting for a peer or for the user. *)
(* In the GUI a goroutine of its own receives from DevicesUpdated in an    *)
(* endless loop, so no send waits for ever.                                *)
Fairness ==
    /\ \A g \in Goroutines : WF_vars(Notify(g)) /\ WF_vars(Save(g))
    /\ \A s \in Streams : /\ WF_vars(Spawn(s))
                          /\ WF_vars(InsertTrusted(s))
                          /\ WF_vars(ReaderCloses(s))

Spec == Init /\ [][Next]_vars /\ Fairness

-----------------------------------------------------------------------------
(* A connected device always has an encrypter, so sendClipboard never      *)
(* finds a connected device it cannot encrypt for, whichever of Trust,     *)
(* Load and the reader made it connected.                                  *)
ConnectedHasEncrypter ==
    \A o \in Devices : device[o].status = "connected" => device[o].enc # None

(* Every entry of the table stands under the ID of the peer its Device is  *)
(* for: a Device just loaded, whose AddressInfo is empty, is completed by  *)
(* the stream handler or the discovery loop before UpdateDevice stores it. *)
EntryUnderItsId ==
    \A i \in Ids : table[i] # None => i = PeerOf[table[i]]

(* Why: every Device that a goroutine may pass to UpdateDevice knows its   *)
(* peer.  With EntryUnderItsId this is preserved by every step.            *)
Addressed ==
    /\ \A o \in Devices :
          device[o].status \in {"pending", "connected"} => device[o].addr
    /\ \A s \in Streams : reader[s].pc # "off" => device[reader[s].dv].addr
    /\ writer # None => device[writer].addr
    /\ prompt # None => device[prompt].addr

(* Why a saved record has a key: a Device gets its name and its key from   *)
(* one frame, or from a record.                                            *)
NamedHasKey == \A o \in Devices : device[o].named => device[o].key # None

(* Until the first restart an encrypter is made only by Trust; from then   *)
(* on Load makes one of every record that is not blocked.                  *)
EncrypterIsTrusted ==
    restarts = 0 => \A o \in Devices : device[o].enc # None => PeerOf[o] \in trusted

(* No trust prompt: every peer is accepted at once.                        *)
NeverPending == prompt = None /\ \A o \in Devices : device[o].status # "pending"

(* Some goroutine has changed a device and has not finished its Save.      *)
Unsaved == \E g \in Goroutines : update[g] \notin {"none", "added"}

(* The record if Load keeps it, else nothing.                              *)
Outcome(r) == IF Loadable(r) THEN r ELSE None

(* Whenever no update is under way and the last save has met no other and  *)
(* has not failed, a restart would find exactly the named devices of the   *)
(* table, with their keys and blocks, whatever earlier saves have left:    *)
(* every path that changes a persisted field of a table entry goes on to a *)
(* Save that marshals after the change.                                    *)
DiskInSync ==
    ~Unsaved /\ alone => /\ ~torn
                         /\ \A p \in Peers : Outcome(disk[p]) = Outcome(Snapshot[p])

(* Why: what such a save writes is the table, unless another goroutine has *)
(* changed it meanwhile and is on its way to a save of its own.            *)
Changing == \E g \in Goroutines : update[g] \in {"insert", "notify", "save"}
Saver(g) == update[g] \in {"open", "write"}

LoneSave ==
    alone =>
        /\ \A f, g \in Goroutines : Saver(f) /\ Saver(g) => f = g
        /\ \A g \in Goroutines :
              /\ Saver(g) /\ ~Changing => saving[g] = Snapshot
              /\ update[g] = "write" => disk = NoRecords /\ ~torn

(* Only finished handshakes are saved: a record has the peer's key.        *)
SavedHasKey == \A p \in Peers : disk[p] # None => disk[p].key # None

(* Why: so has every record that is going to be saved.                     *)
SavingHasKey ==
    \A g \in Goroutines, p \in Peers : saving[g][p] # None => saving[g][p].key # None

(* A connected device has a reader goroutine: when the last one ends, it   *)
(* or a later writer leaves another status (true while no prompt is shown).*)
ConnectedHasReader ==
    \A o \in Devices :
        device[o].status = "connected" =>
            \E s \in Streams : reader[s].pc = "loop" /\ reader[s].dv = o

(* A device becomes connected only for a peer that the user or auto trust  *)
(* has accepted.                                                           *)
ConnectedIsTrusted ==
    \A o \in Devices :
        device[o].status = "connected" => PeerOf[o] \in trusted

(* Only the block button, or loading a record saved as blocked, makes a    *)
(* device blocked; errors, oversized frames and bad keys never do.         *)
BlockedOnlyByUser ==
    [][\A o \in Devices :
         device[o].status # "blocked" /\ device'[o].status = "blocked" =>
            \/ o = prompt /\ update["user"] = "none"
            \/ restarts' # restarts /\ disk[PeerOf[o]].blocked]_vars

(* A peer whose entry is pending, connected or blocked keeps an entry: the *)
(* cleanup in UpdateDevice deletes only stale ones.                        *)
LiveEntriesStay ==
    [][\A p \in Peers :
         /\ restarts' = restarts
         /\ table[p] # None
         /\ device[table[p]].status \in {"pending", "connected", "blocked"}
         => table'[p] # None]_vars

(* Every UpdateDevice and AddDevice returns: the GUI goes on receiving     *)
(* from DevicesUpdated.                                                    *)
UpdatesReturn == \A g \in Goroutines : update[g] # "none" ~> update[g] = "none"

(* When saves no longer meet each other or fail, the entry of a connected, *)
(* named device reaches the disk, unless it stops being connected first.   *)
ConnectedIsSaved ==
    <>[]alone =>
        \A p \in Peers :
            (table[p] # None /\ device[table[p]].status = "connected") ~>
                \/ disk[p] # None /\ ~torn
                \/ table[p] = None
                \/ table[p] # None /\ device[table[p]].status # "connected"
=============================================================================
