------------------------ MODULE DeviceLifecycleProofs ------------------------
(* Theorems about DeviceLifecycle for any number of peers, Devices and     *)
(* streams, any identities and keys and any number of restarts.            *)
EXTENDS DeviceLifecycle, TLAPS

USE ConstantsAssumption DEF saves, Stages

(* Overwriting fields of a Device with values of their types gives a       *)
(* Device.                                                                 *)
LEMMA DeviceFields ==
    ASSUME NEW d \in Device
    PROVE  /\ \A st \in Statuses : [d EXCEPT !.status = st] \in Device
           /\ \A s \in Streams \cup {None} : [d EXCEPT !.stream = s] \in Device
           /\ \A s \in Streams :
                 [[d EXCEPT !.addr = TRUE] EXCEPT !.stream = s] \in Device
           /\ \A k \in Keys, st \in Statuses :
                 [d EXCEPT !.named = TRUE, !.key = k, !.status = st] \in Device
           /\ Trust(d) \in Device
  BY DEF Device, Statuses, Trust

(* A reader that is started keeps its Device.                              *)
LEMMA ReaderFields ==
    ASSUME NEW r \in Reader, NEW src \in Streams \cup {None}
    PROVE  /\ [[r EXCEPT !.pc = "greet"] EXCEPT !.src = src] \in Reader
           /\ [[r EXCEPT !.pc = "greet"] EXCEPT !.src = src].dv = r.dv
  BY DEF Reader

(* NewDevice makes a Device.                                               *)
LEMMA NewDeviceType == \A s \in Streams \cup {None} : NewDevice(s) \in Device
  BY DEF NewDevice, Device, Statuses

(* What TypeOK says of UpdateDevice's result.                              *)
LEMMA TableWithType ==
    ASSUME TypeOK, NEW dev, NEW o \in Devices
    PROVE  TableWith(dev, o) \in [Ids -> Devices \cup {None}]
  BY DEF TypeOK, TableWith

(* What Save writes has the type of the disk.                              *)
LEMMA SnapshotType ==
    ASSUME TypeOK
    PROVE  Snapshot \in Records
  BY DEF TypeOK, Snapshot, Record, Records, Device, Ids

(* So has an empty file.                                                   *)
LEMMA NoRecordsType == NoRecords \in Records
  BY DEF NoRecords, Records

(* What changes when UpdateDevice returns.                                 *)
LEMMA ReturnType ==
    ASSUME TypeOK, NEW g \in Goroutines, Return(g)
    PROVE  /\ update' \in [Goroutines -> Stages]
           /\ saving' \in [Goroutines -> Records]
           /\ prompt' \in Devices \cup {None}
  BY NoRecordsType DEF TypeOK, Return, Stages

(* A save changes the file, what is marshalled and UpdateDevice only.      *)
LEMMA SaveType ==
    ASSUME TypeOK, NEW g \in Goroutines, Save(g)
    PROVE  /\ update' \in [Goroutines -> Stages]
           /\ disk' \in Records /\ torn' \in BOOLEAN
           /\ saving' \in [Goroutines -> Records] /\ alone' \in BOOLEAN
           /\ prompt' \in Devices \cup {None}
           /\ UNCHANGED <<device, table, reader, discovery, writer, trusted, restarts>>
  <1>1. CASE Marshal(g)
    BY <1>1, SnapshotType DEF Marshal, TypeOK, Stages
  <1>2. CASE Truncate(g)
    BY <1>2, NoRecordsType DEF Truncate, TypeOK, Stages
  <1>3. CASE Write(g)
    <2>1. disk' \in Records
      BY <1>3, NoRecordsType DEF Write, Tear, TypeOK
    <2>2. torn' \in BOOLEAN /\ alone' \in BOOLEAN
      BY <1>3 DEF Write, Tear, TypeOK
    <2> QED
      BY <1>3, <2>1, <2>2, ReturnType DEF Write, Return
  <1>4. CASE SaveFails(g)
    BY <1>4, NoRecordsType, ReturnType DEF SaveFails, Return, Tear, TypeOK
  <1> QED
    BY <1>1, <1>2, <1>3, <1>4 DEF Save

(* A save leaves the devices and the goroutines that serve them alone.     *)
LEMMA SaveFrame ==
    ASSUME NEW g \in Goroutines, Save(g)
    PROVE  /\ UNCHANGED <<device, table, reader, discovery, writer, trusted, restarts>>
           /\ prompt' = prompt \/ prompt' = None
  BY DEF Save, Marshal, Truncate, Write, SaveFails, Return

(* Load finds a cell for every peer.                                       *)
LEMMA CellType ==
    \A p \in Peers : CellOf(p) \in Devices /\ PeerOf[CellOf(p)] = p
  BY DEF CellOf

(* Every behavior of the host stays within the types.                      *)
THEOREM TypeCorrect == Spec => []TypeOK
<1>1. Init => TypeOK
  <2> SUFFICES ASSUME Init PROVE TypeOK
    OBVIOUS
  <2>1. [NewDevice(None) EXCEPT !.addr = FALSE] \in Device
    BY DEF NewDevice, Device, Statuses
  <2>2. device \in [Devices -> Device]
    BY <2>1 DEF Init
  <2>3. discovery \in [pc : {"idle", "dial", "spawn"}, peer : Peers \cup {None},
                       dv : Devices \cup {None}, stream : Streams \cup {None}]
    BY DEF Init, Idle
  <2>4. reader \in [Streams -> Reader] /\ \A s \in Streams : reader[s].pc = "off"
    BY DEF Init, NoReader, Reader
  <2>5. restarts \in 0..MaxRestarts
    BY DEF Init
  <2> QED
    BY <2>2, <2>3, <2>4, <2>5, NoRecordsType DEF Init, TypeOK
<1>2. TypeOK /\ [Next]_vars => TypeOK'
  <2> SUFFICES ASSUME TypeOK, [Next]_vars PROVE TypeOK'
    OBVIOUS
  <2>1. ASSUME NEW p \in Peers, NEW s \in Streams, InboundKnown(p, s)
        PROVE  TypeOK'
    <3>1. table[p] \in Devices
      BY <2>1 DEF InboundKnown, TypeOK, Ids
    <3>2. device' \in [Devices -> Device]
      BY <2>1, <3>1, DeviceFields DEF InboundKnown, TypeOK
    <3> QED
      BY <2>1, <3>1, <3>2 DEF InboundKnown, TypeOK, Reader
  <2>2. ASSUME NEW p \in Peers, NEW s \in Streams, InboundNew(p, s)
        PROVE  TypeOK'
    BY <2>2, NewDeviceType DEF InboundNew, TypeOK, Reader, Goroutines, Ids
  <2>3. ASSUME NEW p \in Peers, Discover(p)
        PROVE  TypeOK'
    BY <2>3 DEF Discover, TypeOK, Ids
  <2>4. ASSUME DialFails
        PROVE  TypeOK'
    BY <2>4 DEF DialFails, TypeOK, Idle
  <2>5. ASSUME NEW s \in Streams, OpenStream(s)
        PROVE  TypeOK'
    <3>1. PICK o \in Devices :
            /\ \/ /\ o = discovery.dv
                  /\ device' = [device EXCEPT ![o].addr = TRUE, ![o].stream = s]
               \/ device' = [device EXCEPT ![o] = NewDevice(s)]
            /\ reader' = [reader EXCEPT ![s] = [pc |-> "spawn", dv |-> o,
                                                src |-> None]]
            /\ UpdateDevice(s, o)
      BY <2>5 DEF OpenStream
    <3>2. device' \in [Devices -> Device]
      <4>1. [[device[o] EXCEPT !.addr = TRUE] EXCEPT !.stream = s] \in Device
        BY DeviceFields DEF TypeOK
      <4>2. NewDevice(s) \in Device
        BY NewDeviceType
      <4>3. \A d \in Device : [device EXCEPT ![o] = d] \in [Devices -> Device]
        BY DEF TypeOK
      <4>4. \/ device' = [device EXCEPT ![o] = [[device[o] EXCEPT !.addr = TRUE]
                                                  EXCEPT !.stream = s]]
            \/ device' = [device EXCEPT ![o] = NewDevice(s)]
        BY <3>1, Zenon DEF TypeOK
      <4> QED
        BY <4>1, <4>2, <4>3, <4>4, Zenon
    <3>3. table' \in [Ids -> Devices \cup {None}]
      BY <3>1, TableWithType DEF UpdateDevice
    <3>4. discovery' \in [pc : {"idle", "dial", "spawn"},
                          peer : Peers \cup {None},
                          dv : Devices \cup {None},
                          stream : Streams \cup {None}]
      BY <2>5 DEF OpenStream, TypeOK
    <3>5. /\ reader' \in [Streams -> Reader]
          /\ \A t \in Streams : reader'[t].pc # "off" => reader'[t].dv \in Devices
      BY <3>1 DEF TypeOK, Reader
    <3>6. update' \in [Goroutines -> Stages]
      BY <3>1 DEF UpdateDevice, TypeOK, Goroutines
    <3> QED
      BY <2>5, <3>2, <3>3, <3>4, <3>5, <3>6 DEF OpenStream, TypeOK
  <2>6. ASSUME NEW s \in Streams, Spawn(s)
        PROVE  TypeOK'
    <3>1. device[reader[s].dv].stream \in Streams \cup {None}
      BY <2>6 DEF Spawn, TypeOK, Device
    <3> DEFINE r == [[reader[s] EXCEPT !.pc = "greet"]
                        EXCEPT !.src = device[reader[s].dv].stream]
    <3>2. r \in Reader /\ r.dv \in Devices
      <4>1. reader[s] \in Reader /\ reader[s].dv \in Devices
        BY <2>6 DEF Spawn, TypeOK
      <4> QED
        BY <3>1, <4>1, ReaderFields
    <3>4. reader' = [reader EXCEPT ![s] = r]
      BY <2>6 DEF Spawn, TypeOK
    <3>5. /\ reader' \in [Streams -> Reader]
          /\ \A t \in Streams : reader'[t].pc # "off" => reader'[t].dv \in Devices
      <4> HIDE DEF r
      <4>1. \A t \in Streams : reader'[t] = IF t = s THEN r ELSE reader[t]
        BY <3>4 DEF TypeOK
      <4>2. reader' \in [Streams -> Reader]
        BY <3>2, <3>4 DEF TypeOK
      <4> QED
        BY <3>2, <4>1, <4>2 DEF TypeOK
    <3>3. discovery' \in [pc : {"idle", "dial", "spawn"},
                          peer : Peers \cup {None},
                          dv : Devices \cup {None},
                          stream : Streams \cup {None}]
      BY <2>6 DEF Spawn, TypeOK, Idle
    <3> QED
      BY <2>6, <3>3, <3>5 DEF Spawn, TypeOK
  <2>7. ASSUME NEW s \in Streams, Greet(s)
        PROVE  TypeOK'
    BY <2>7 DEF Greet, TypeOK, Reader
  <2>8. ASSUME NEW s \in Streams, SendDeviceDataFails(s)
        PROVE  TypeOK'
    <3>1. reader[s].dv \in Devices
      BY <2>8 DEF SendDeviceDataFails, TypeOK
    <3>2. device' \in [Devices -> Device]
      BY <2>8, <3>1, DeviceFields DEF SendDeviceDataFails, TypeOK, Statuses
    <3>3. table' \in [Ids -> Devices \cup {None}]
      BY <2>8, <3>1, TableWithType DEF SendDeviceDataFails, UpdateDevice
    <3>4. /\ reader' \in [Streams -> Reader]
          /\ \A t \in Streams : reader'[t].pc # "off" => reader'[t].dv \in Devices
      BY <2>8, <3>1 DEF SendDeviceDataFails, TypeOK, Reader
    <3>5. update' \in [Goroutines -> Stages]
      BY <2>8 DEF SendDeviceDataFails, UpdateDevice, TypeOK, Goroutines
    <3> QED
      BY <2>8, <3>2, <3>3, <3>4, <3>5 DEF SendDeviceDataFails, TypeOK
  <2>9. ASSUME NEW s \in Streams, NEW k \in Keys, ReceiveDeviceData(s, k)
        PROVE  TypeOK'
    <3>1. reader[s].dv \in Devices
      BY <2>9 DEF ReceiveDeviceData, TypeOK
    <3>2. device' \in [Devices -> Device]
      BY <2>9, <3>1, DeviceFields DEF ReceiveDeviceData, TypeOK, Statuses
    <3>3. table' \in [Ids -> Devices \cup {None}]
      BY <2>9, <3>1, TableWithType DEF ReceiveDeviceData, UpdateDevice
    <3> QED
      BY <2>9, <3>2, <3>3
         DEF ReceiveDeviceData, UpdateDevice, TypeOK, Goroutines
  <2>10. ASSUME NEW s \in Streams, NEW k \in Keys, ReceiveAndTrust(s, k)
         PROVE  TypeOK'
    <3>1. reader[s].dv \in Devices
      BY <2>10 DEF ReceiveAndTrust, TypeOK
    <3> DEFINE received == [device[reader[s].dv] EXCEPT !.named = TRUE,
                               !.key = k, !.status = "pending"]
    <3>2. received \in Device
      BY <3>1, DeviceFields DEF TypeOK, Statuses
    <3>3. Trust(received) \in Device
      BY <3>2, DeviceFields
    <3>4. device' \in [Devices -> Device]
      BY <2>10, <3>1, <3>3 DEF ReceiveAndTrust, TypeOK
    <3> QED
      BY <2>10, <3>1, <3>4 DEF ReceiveAndTrust, TypeOK, Goroutines
  <2>11. ASSUME NEW s \in Streams, InsertTrusted(s)
         PROVE  TypeOK'
    <3>1. table' \in [Ids -> Devices \cup {None}]
      BY <2>11, TableWithType DEF InsertTrusted, UpdateDevice, TypeOK
    <3> QED
      BY <2>11, <3>1 DEF InsertTrusted, UpdateDevice, TypeOK, Goroutines
  <2>12. ASSUME NEW s \in Streams, NEW st \in {"disconnected", "error"},
                ReaderEnds(s, st)
         PROVE  TypeOK'
    <3>1. reader[s].dv \in Devices
      BY <2>12 DEF ReaderEnds, TypeOK
    <3>2. device' \in [Devices -> Device]
      BY <2>12, <3>1, DeviceFields DEF ReaderEnds, TypeOK, Statuses
    <3>3. table' \in [Ids -> Devices \cup {None}]
      BY <2>12, <3>1, TableWithType DEF ReaderEnds, UpdateDevice
    <3>4. /\ reader' \in [Streams -> Reader]
          /\ \A t \in Streams : reader'[t].pc # "off" => reader'[t].dv \in Devices
      BY <2>12, <3>1 DEF ReaderEnds, TypeOK, Reader
    <3>5. update' \in [Goroutines -> Stages]
      BY <2>12 DEF ReaderEnds, UpdateDevice, TypeOK, Goroutines
    <3> QED
      BY <2>12, <3>2, <3>3, <3>4, <3>5 DEF ReaderEnds, TypeOK
  <2>13. ASSUME NEW s \in Streams, ReaderCloses(s)
         PROVE  TypeOK'
    <3>1. reader[s].dv \in Devices
      BY <2>13 DEF ReaderCloses, TypeOK
    <3>2. device' \in [Devices -> Device]
      BY <2>13, <3>1, DeviceFields DEF ReaderCloses, TypeOK
    <3> QED
      BY <2>13, <3>2 DEF ReaderCloses, TypeOK, Reader, NoReader
  <2>14. ASSUME NEW o \in Devices, WriterPicks(o)
         PROVE  TypeOK'
    BY <2>14 DEF WriterPicks, TypeOK
  <2>15. ASSUME WriteDone
         PROVE  TypeOK'
    BY <2>15 DEF WriteDone, TypeOK
  <2>16. ASSUME WriteFails
         PROVE  TypeOK'
    <3>1. writer \in Devices
      BY <2>16 DEF WriteFails, TypeOK
    <3>2. device' \in [Devices -> Device]
      BY <2>16, <3>1, DeviceFields DEF WriteFails, TypeOK, Statuses
    <3>3. table' \in [Ids -> Devices \cup {None}]
      BY <2>16, <3>1, TableWithType DEF WriteFails, UpdateDevice
    <3> QED
      BY <2>16, <3>2, <3>3 DEF WriteFails, UpdateDevice, TypeOK, Goroutines
  <2>17. ASSUME NEW g \in Goroutines, Notify(g)
         PROVE  TypeOK'
    <3>1. prompt' \in Devices \cup {None}
      BY <2>17 DEF Notify, Pending, TypeOK
    <3> QED
      BY <2>17, <3>1 DEF Notify, TypeOK
  <2>18. ASSUME NEW g \in Goroutines, Save(g)
         PROVE  TypeOK'
    BY <2>18, SaveType DEF TypeOK
  <2>19. ASSUME UserTrusts
         PROVE  TypeOK'
    <3>1. prompt \in Devices
      BY <2>19 DEF UserTrusts, TypeOK
    <3>2. Trust(device[prompt]) \in Device
      BY <3>1, DeviceFields DEF TypeOK
    <3>3. device' \in [Devices -> Device]
      BY <2>19, <3>1, <3>2 DEF UserTrusts, TypeOK
    <3>4. table' \in [Ids -> Devices \cup {None}]
      BY <2>19, <3>1, TableWithType DEF UserTrusts, UpdateDevice
    <3>5. update' \in [Goroutines -> Stages]
      BY <2>19 DEF UserTrusts, UpdateDevice, TypeOK, Goroutines
    <3>6. trusted' \subseteq Peers
      BY <2>19, <3>1 DEF UserTrusts, TypeOK
    <3> QED
      BY <2>19, <3>3, <3>4, <3>5, <3>6 DEF UserTrusts, TypeOK
  <2>20. ASSUME UserBlocks
         PROVE  TypeOK'
    <3>1. prompt \in Devices
      BY <2>20 DEF UserBlocks, TypeOK
    <3>2. device' \in [Devices -> Device]
      BY <2>20, <3>1, DeviceFields DEF UserBlocks, TypeOK, Statuses
    <3>3. table' \in [Ids -> Devices \cup {None}]
      BY <2>20, <3>1, TableWithType DEF UserBlocks, UpdateDevice
    <3> QED
      BY <2>20, <3>2, <3>3 DEF UserBlocks, UpdateDevice, TypeOK, Goroutines
  <2>21. ASSUME Restart
         PROVE  TypeOK'
    <3>1. ASSUME NEW o \in Devices, Loadable(disk[PeerOf[o]])
          PROVE  Loaded(disk[PeerOf[o]]) \in Device
      <4>1. disk[PeerOf[o]] \in Record
        BY <3>1 DEF TypeOK, Records, Loadable
      <4>2. /\ disk[PeerOf[o]].blocked \in BOOLEAN
            /\ disk[PeerOf[o]].key \in Keys \cup {None}
        BY <4>1 DEF Record
      <4> QED
        BY <4>2 DEF Loaded, Device, Statuses
    <3>2. [NewDevice(None) EXCEPT !.addr = FALSE] \in Device
      BY DEF NewDevice, Device, Statuses
    <3>3. device' \in [Devices -> Device]
      BY <2>21, <3>1, <3>2 DEF Restart
    <3>4. table' \in [Ids -> Devices \cup {None}]
      BY <2>21, CellType DEF Restart
    <3>5. restarts' \in 0..MaxRestarts
      BY <2>21 DEF Restart, TypeOK
    <3> QED
      BY <2>21, <3>3, <3>4, <3>5, NoRecordsType DEF Restart, TypeOK, NoReader, Reader, Idle
  <2>22. CASE UNCHANGED vars
    BY <2>22 DEF vars, TypeOK
  <2> QED
    BY <2>1, <2>2, <2>3, <2>4, <2>5, <2>6, <2>7, <2>8, <2>9, <2>10, <2>11,
       <2>12, <2>13, <2>14, <2>15, <2>16, <2>17, <2>18, <2>19, <2>20, <2>21,
       <2>22 DEF Next
<1> QED
  BY <1>1, <1>2, PTL DEF Spec

-----------------------------------------------------------------------------
(* Trust makes a Device connected only together with its encrypter.        *)
LEMMA TrustGivesEncrypter ==
    ASSUME NEW d \in Device, d.status # "connected" \/ d.enc # None
    PROVE  Trust(d).status = "connected" => Trust(d).enc # None
  BY DEF Trust, Device

(* No path makes a Device connected that sendClipboard could not encrypt   *)
(* for: the property is inductive once the types are known.                *)
THEOREM EncrypterAlways == Spec => []ConnectedHasEncrypter
<1>1. Init => ConnectedHasEncrypter
  <2>1. [NewDevice(None) EXCEPT !.addr = FALSE].status = ""
    BY DEF NewDevice
  <2> QED
    BY <2>1 DEF Init, ConnectedHasEncrypter
<1>2. TypeOK /\ ConnectedHasEncrypter /\ [Next]_vars => ConnectedHasEncrypter'
  <2> SUFFICES ASSUME TypeOK, ConnectedHasEncrypter, [Next]_vars
               PROVE  ConnectedHasEncrypter'
    OBVIOUS
  <2> USE DEF ConnectedHasEncrypter
  <2>1. ASSUME NEW p \in Peers, NEW s \in Streams, InboundKnown(p, s)
        PROVE  ConnectedHasEncrypter'
    BY <2>1 DEF InboundKnown, TypeOK, Device
  <2>2. ASSUME NEW p \in Peers, NEW s \in Streams, InboundNew(p, s)
        PROVE  ConnectedHasEncrypter'
    <3>1. PICK o \in Devices : device' = [device EXCEPT ![o] = NewDevice(s)]
      BY <2>2 DEF InboundNew
    <3>2. NewDevice(s).status # "connected"
      BY DEF NewDevice
    <3> QED
      BY <3>1, <3>2 DEF TypeOK
  <2>3. ASSUME NEW s \in Streams, OpenStream(s)
        PROVE  ConnectedHasEncrypter'
    <3>1. PICK o \in Devices :
            \/ device' = [device EXCEPT ![o].addr = TRUE, ![o].stream = s]
            \/ device' = [device EXCEPT ![o] = NewDevice(s)]
      BY <2>3, Zenon DEF OpenStream
    <3>2. NewDevice(s).status # "connected"
      BY DEF NewDevice
    <3>3. CASE device' = [device EXCEPT ![o].addr = TRUE, ![o].stream = s]
      BY <3>3 DEF TypeOK, Device
    <3>4. CASE device' = [device EXCEPT ![o] = NewDevice(s)]
      BY <3>2, <3>4 DEF TypeOK
    <3> QED
      BY <3>1, <3>3, <3>4
  <2>4. ASSUME NEW s \in Streams, SendDeviceDataFails(s)
        PROVE  ConnectedHasEncrypter'
    BY <2>4 DEF SendDeviceDataFails, TypeOK, Device
  <2>5. ASSUME NEW s \in Streams, NEW k \in Keys, ReceiveDeviceData(s, k)
        PROVE  ConnectedHasEncrypter'
    BY <2>5 DEF ReceiveDeviceData, TypeOK, Device
  <2>6. ASSUME NEW s \in Streams, NEW k \in Keys, ReceiveAndTrust(s, k)
        PROVE  ConnectedHasEncrypter'
    BY <2>6 DEF ReceiveAndTrust, TypeOK, Device, Trust
  <2>7. ASSUME NEW s \in Streams, NEW st \in {"disconnected", "error"},
               ReaderEnds(s, st)
        PROVE  ConnectedHasEncrypter'
    BY <2>7 DEF ReaderEnds, TypeOK, Device
  <2>8. ASSUME NEW s \in Streams, ReaderCloses(s)
        PROVE  ConnectedHasEncrypter'
    BY <2>8 DEF ReaderCloses, TypeOK, Device
  <2>9. ASSUME WriteFails
        PROVE  ConnectedHasEncrypter'
    BY <2>9 DEF WriteFails, TypeOK, Device
  <2>10. ASSUME UserTrusts
         PROVE  ConnectedHasEncrypter'
    BY <2>10, TrustGivesEncrypter DEF UserTrusts, TypeOK
  <2>11. ASSUME UserBlocks
         PROVE  ConnectedHasEncrypter'
    BY <2>11 DEF UserBlocks, TypeOK, Device
  <2>12. ASSUME Restart
         PROVE  ConnectedHasEncrypter'
    BY <2>12 DEF Restart, Loaded, NewDevice
  <2>13. ASSUME UNCHANGED device
         PROVE  ConnectedHasEncrypter'
    BY <2>13
  <2> QED
    BY <2>1, <2>2, <2>3, <2>4, <2>5, <2>6, <2>7, <2>8, <2>9, <2>10, <2>11,
       <2>12, <2>13, SaveFrame
       DEF Next, vars, Discover, DialFails, Spawn, Greet, InsertTrusted,
           WriterPicks, WriteDone, Notify
<1> QED
  BY <1>1, <1>2, TypeCorrect, PTL DEF Spec

-----------------------------------------------------------------------------
(* Where UpdateDevice stores a Device that knows its peer.                 *)
LEMMA TableWithKey ==
    ASSUME TypeOK, EntryUnderItsId, NEW dev, NEW o \in Devices, dev[o].addr
    PROVE  \A i \in Ids : TableWith(dev, o)[i] # None =>
                            i = PeerOf[TableWith(dev, o)[i]]
  BY DEF TypeOK, EntryUnderItsId, TableWith, Id

(* The steps that call UpdateDevice with a Device that knows its peer.     *)
LEMMA UpdateKeepsKeys ==
    ASSUME TypeOK, EntryUnderItsId, NEW g, NEW o \in Devices,
           device'[o].addr, UpdateDevice(g, o)
    PROVE  EntryUnderItsId'
  BY TableWithKey DEF UpdateDevice, EntryUnderItsId

(* Every entry of the table stands under its peer's ID.                    *)
THEOREM EntriesUnderTheirIds == Spec => []EntryUnderItsId
<1> DEFINE IInv == EntryUnderItsId /\ Addressed
<1>1. Init => IInv
  <2> SUFFICES ASSUME Init PROVE IInv
    OBVIOUS
  <2>1. [NewDevice(None) EXCEPT !.addr = FALSE].status = ""
    BY DEF NewDevice
  <2> QED
    BY <2>1 DEF Init, EntryUnderItsId, Addressed, NoReader
<1>2. TypeOK /\ IInv /\ [Next]_vars => IInv'
  <2> SUFFICES ASSUME TypeOK, EntryUnderItsId, Addressed, [Next]_vars
               PROVE  EntryUnderItsId' /\ Addressed'
    OBVIOUS
  <2>1. ASSUME NEW p \in Peers, NEW s \in Streams, InboundKnown(p, s)
        PROVE  EntryUnderItsId' /\ Addressed'
    <3>1. table[p] \in Devices
      BY <2>1 DEF InboundKnown, TypeOK, Ids
    <3> QED
      BY <2>1, <3>1 DEF InboundKnown, TypeOK, Device, EntryUnderItsId, Addressed
  <2>2. ASSUME NEW p \in Peers, NEW s \in Streams, InboundNew(p, s)
        PROVE  EntryUnderItsId' /\ Addressed'
    <3>1. PICK o \in Devices :
            /\ PeerOf[o] = p
            /\ device' = [device EXCEPT ![o] = NewDevice(s)]
            /\ table' = [table EXCEPT ![p] = o]
            /\ reader' = [reader EXCEPT ![s] = [pc |-> "spawn", dv |-> o,
                                                src |-> None]]
      BY <2>2 DEF InboundNew, FreshDevice
    <3>2. NewDevice(s).addr
      BY DEF NewDevice
    <3> QED
      BY <2>2, <3>1, <3>2 DEF InboundNew, TypeOK, EntryUnderItsId, Addressed
  <2>3. ASSUME NEW s \in Streams, OpenStream(s)
        PROVE  EntryUnderItsId' /\ Addressed'
    <3>1. PICK o \in Devices :
            /\ \/ device' = [device EXCEPT ![o].addr = TRUE, ![o].stream = s]
               \/ device' = [device EXCEPT ![o] = NewDevice(s)]
            /\ reader' = [reader EXCEPT ![s] = [pc |-> "spawn", dv |-> o,
                                                src |-> None]]
            /\ UpdateDevice(s, o)
      BY <2>3, Zenon DEF OpenStream
    <3>2. NewDevice(s).addr
      BY DEF NewDevice
    <3>3. /\ device'[o].addr
          /\ \A d \in Devices : /\ device[d].addr => device'[d].addr
                                /\ \/ device'[d].addr
                                   \/ device'[d].status = device[d].status
      <4>1. CASE device' = [device EXCEPT ![o].addr = TRUE, ![o].stream = s]
        BY <4>1 DEF TypeOK, Device
      <4>2. CASE device' = [device EXCEPT ![o] = NewDevice(s)]
        BY <3>2, <4>2 DEF TypeOK
      <4> QED
        BY <3>1, <4>1, <4>2
    <3> QED
      BY <2>3, <3>1, <3>3, UpdateKeepsKeys DEF OpenStream, TypeOK, Addressed
  <2>4. ASSUME NEW s \in Streams, Spawn(s) \/ Greet(s)
        PROVE  EntryUnderItsId' /\ Addressed'
    BY <2>4 DEF Spawn, Greet, TypeOK, Reader, EntryUnderItsId, Addressed
  <2>5. ASSUME NEW s \in Streams, SendDeviceDataFails(s)
        PROVE  EntryUnderItsId' /\ Addressed'
    <3>1. /\ reader[s].dv \in Devices /\ device'[reader[s].dv].addr
          /\ Addressed'
      BY <2>5 DEF SendDeviceDataFails, TypeOK, Device, Reader, Addressed
    <3> QED
      BY <2>5, <3>1, UpdateKeepsKeys DEF SendDeviceDataFails
  <2>6. ASSUME NEW s \in Streams, NEW k \in Keys, ReceiveDeviceData(s, k)
        PROVE  EntryUnderItsId' /\ Addressed'
    <3>1. /\ reader[s].dv \in Devices /\ device'[reader[s].dv].addr
          /\ Addressed'
      BY <2>6 DEF ReceiveDeviceData, TypeOK, Device, Reader, Addressed
    <3> QED
      BY <2>6, <3>1, UpdateKeepsKeys DEF ReceiveDeviceData
  <2>7. ASSUME NEW s \in Streams, NEW k \in Keys, ReceiveAndTrust(s, k)
        PROVE  EntryUnderItsId' /\ Addressed'
    BY <2>7 DEF ReceiveAndTrust, TypeOK, Device, Reader, Trust, Addressed,
                EntryUnderItsId
  <2>8. ASSUME NEW s \in Streams, InsertTrusted(s)
        PROVE  EntryUnderItsId' /\ Addressed'
    <3>1. /\ reader[s].dv \in Devices /\ device'[reader[s].dv].addr
          /\ Addressed'
      BY <2>8 DEF InsertTrusted, TypeOK, Addressed
    <3> QED
      BY <2>8, <3>1, UpdateKeepsKeys DEF InsertTrusted
  <2>9. ASSUME NEW s \in Streams, NEW st \in {"disconnected", "error"},
               ReaderEnds(s, st)
        PROVE  EntryUnderItsId' /\ Addressed'
    <3>1. /\ reader[s].dv \in Devices /\ device'[reader[s].dv].addr
          /\ Addressed'
      BY <2>9 DEF ReaderEnds, TypeOK, Device, Reader, Addressed
    <3> QED
      BY <2>9, <3>1, UpdateKeepsKeys DEF ReaderEnds
  <2>10. ASSUME NEW s \in Streams, ReaderCloses(s)
         PROVE  EntryUnderItsId' /\ Addressed'
    BY <2>10 DEF ReaderCloses, NoReader, TypeOK, Device, Reader, Addressed,
                 EntryUnderItsId
  <2>11. ASSUME NEW o \in Devices, WriterPicks(o)
         PROVE  EntryUnderItsId' /\ Addressed'
    BY <2>11 DEF WriterPicks, Addressed, EntryUnderItsId
  <2>12. ASSUME WriteFails
         PROVE  EntryUnderItsId' /\ Addressed'
    <3>1. writer \in Devices /\ device'[writer].addr /\ Addressed'
      BY <2>12 DEF WriteFails, TypeOK, Device, Addressed
    <3> QED
      BY <2>12, <3>1, UpdateKeepsKeys DEF WriteFails
  <2>13. ASSUME NEW g \in Goroutines, Notify(g) \/ Save(g)
         PROVE  EntryUnderItsId' /\ Addressed'
    BY <2>13, SaveFrame DEF Notify, Pending, Addressed, EntryUnderItsId
  <2>14. ASSUME UserTrusts
         PROVE  EntryUnderItsId' /\ Addressed'
    <3>1. prompt \in Devices /\ device'[prompt].addr /\ Addressed'
      BY <2>14 DEF UserTrusts, Trust, TypeOK, Device, Addressed
    <3> QED
      BY <2>14, <3>1, UpdateKeepsKeys DEF UserTrusts
  <2>15. ASSUME UserBlocks
         PROVE  EntryUnderItsId' /\ Addressed'
    <3>1. prompt \in Devices /\ device'[prompt].addr /\ Addressed'
      BY <2>15 DEF UserBlocks, TypeOK, Device, Addressed
    <3> QED
      BY <2>15, <3>1, UpdateKeepsKeys DEF UserBlocks
  <2>16. ASSUME Restart
         PROVE  EntryUnderItsId' /\ Addressed'
    <3>1. \A o \in Devices : device'[o].status \notin {"pending", "connected"}
      BY <2>16 DEF Restart, Loaded, NewDevice
    <3> QED
      BY <2>16, <3>1, CellType
         DEF Restart, NoReader, Addressed, EntryUnderItsId
  <2>17. ASSUME UNCHANGED <<device, table, reader, writer, prompt>>
         PROVE  EntryUnderItsId' /\ Addressed'
    BY <2>17 DEF Addressed, EntryUnderItsId
  <2>18. ASSUME WriteDone
         PROVE  EntryUnderItsId' /\ Addressed'
    BY <2>18 DEF WriteDone, Addressed, EntryUnderItsId
  <2> QED
    BY <2>1, <2>2, <2>3, <2>4, <2>5, <2>6, <2>7, <2>8, <2>9, <2>10, <2>11,
       <2>12, <2>13, <2>14, <2>15, <2>16, <2>17, <2>18
       DEF Next, vars, Discover, DialFails
<1> QED
  BY <1>1, <1>2, TypeCorrect, PTL DEF Spec
-----------------------------------------------------------------------------
(* Snapshot depends only on the persisted fields of the entries.           *)
LEMMA SnapshotSame ==
    ASSUME TypeOK,
           \A p \in Peers :
              \/ /\ table'[p] = table[p]
                 /\ table[p] # None =>
                       /\ device'[table[p]].named = device[table[p]].named
                       /\ device'[table[p]].key = device[table[p]].key
                       /\ device'[table[p]].status = device[table[p]].status
              \/ /\ table[p] = None
                 /\ table'[p] # None /\ ~device'[table'[p]].named
    PROVE  Snapshot' = Snapshot
  BY DEF Snapshot

(* What the file is worth while saves are under way, and afterwards.       *)
InSync == LoneSave /\ DiskInSync

(* Whoever has not finished is changing a device or saving it.             *)
LEMMA UnsavedSplit ==
    ASSUME update \in [Goroutines -> Stages]
    PROVE  Unsaved <=> Changing \/ \E g \in Goroutines : Saver(g)
  BY DEF Unsaved, Changing, Saver

(* A step that leaves the file alone and does not begin a save keeps       *)
(* InSync, when it changes a device and goes on to a save ...              *)
LEMMA SyncChanging ==
    ASSUME InSync, UNCHANGED saves, Changing',
           \A g \in Goroutines : /\ Saver(g)' => Saver(g)
                                 /\ update'[g] = "write" => update[g] = "write"
    PROVE  InSync'
  <1>1. Unsaved'
    BY DEF Changing, Unsaved
  <1>2. LoneSave'
    BY DEF InSync, LoneSave
  <1> QED
    BY <1>1, <1>2 DEF InSync, DiskInSync

(* ... or changes nothing that a save looks at.                            *)
LEMMA SyncSame ==
    ASSUME InSync, UNCHANGED saves, Snapshot' = Snapshot, Changing => Changing',
           Unsaved => Unsaved',
           \A g \in Goroutines : /\ Saver(g)' => Saver(g)
                                 /\ update'[g] = "write" => update[g] = "write"
    PROVE  InSync'
  <1>1. LoneSave'
    BY DEF InSync, LoneSave
  <1>2. DiskInSync'
    BY DEF InSync, DiskInSync
  <1> QED
    BY <1>1, <1>2 DEF InSync

(* A goroutine that calls UpdateDevice is changing a device from then on.  *)
LEMMA SyncUpdate ==
    ASSUME TypeOK, InSync, UNCHANGED saves, NEW g \in Goroutines, NEW o, UpdateDevice(g, o)
    PROVE  InSync'
  <1>1. Changing' /\ \A f \in Goroutines : update'[f] # "notify" => update'[f] = update[f]
    BY DEF UpdateDevice, TypeOK, Changing
  <1> QED
    BY <1>1, SyncChanging DEF Saver

(* The steps of a save.  One that meets no other marshals the table, finds *)
(* an empty file where it has emptied it, and writes what it has           *)
(* marshalled; whoever has changed the table since saves it again.         *)
LEMMA SyncSave ==
    ASSUME TypeOK, InSync, NEW g \in Goroutines, Save(g)
    PROVE  InSync'
  <1>1. Snapshot' = Snapshot
    BY SaveFrame, SnapshotSame
  <1>2. CASE ~alone'
    BY <1>2 DEF InSync, LoneSave, DiskInSync
  <1>3. CASE Marshal(g) /\ alone'
    <2>1. /\ update' = [update EXCEPT ![g] = "open"] /\ saving' = [saving EXCEPT ![g] = Snapshot]
          /\ UNCHANGED <<disk, torn>> /\ \A f \in Goroutines : ~Saver(f)
      BY <1>3 DEF Marshal, Saver
    <2>2. /\ \A f \in Goroutines : Saver(f)' <=> f = g
          /\ \A f \in Goroutines : update'[f] # "write"
          /\ saving'[g] = Snapshot /\ Unsaved'
      BY <2>1 DEF Saver, TypeOK, Unsaved
    <2> QED
      BY <1>1, <2>2 DEF InSync, LoneSave, DiskInSync
  <1>4. CASE Truncate(g) /\ alone'
    <2>1. /\ update' = [update EXCEPT ![g] = "write"] /\ update[g] = "open"
          /\ UNCHANGED <<saving, alone>> /\ disk' = NoRecords /\ ~torn'
      BY <1>4 DEF Truncate
    <2>2. /\ \A f \in Goroutines : Saver(f)' <=> Saver(f)
          /\ Changing' <=> Changing
          /\ Unsaved' /\ alone
      BY <1>4, <2>1 DEF Saver, TypeOK, Unsaved, Changing
    <2>3. NoRecords' = NoRecords
      BY DEF NoRecords
    <2> QED
      BY <1>1, <2>1, <2>2, <2>3 DEF InSync, LoneSave, DiskInSync
  <1>5. CASE Write(g) /\ alone'
    <2>1. update[g] = "write" /\ update' = [update EXCEPT ![g] = "none"] /\ alone
      BY <1>5 DEF Write, Return
    <2>2. /\ \A f \in Goroutines : Saver(f) <=> f = g
          /\ disk = NoRecords /\ ~torn
          /\ ~Changing => saving[g] = Snapshot
      BY <2>1 DEF InSync, LoneSave, Saver
    <2>3. disk' = saving[g] /\ ~torn'
      BY <1>5, <2>2 DEF Write
    <2>4. /\ \A f \in Goroutines : ~Saver(f)'
          /\ Changing' <=> Changing
          /\ \A f \in Goroutines : update'[f] # "write"
      BY <2>1, <2>2 DEF Saver, Changing, TypeOK
    <2>5. ~Unsaved' => ~Changing
      BY <2>4 DEF Unsaved, Changing
    <2>6. LoneSave'
      BY <2>4 DEF LoneSave
    <2>7. DiskInSync'
      BY <1>1, <2>2, <2>3, <2>5 DEF DiskInSync, Outcome, Loadable
    <2> QED
      BY <2>6, <2>7 DEF InSync
  <1>6. CASE SaveFails(g)
    BY <1>2, <1>6 DEF SaveFails
  <1> QED
    BY <1>2, <1>3, <1>4, <1>5, <1>6 DEF Save

(* Whenever no update is under way and the last save has met no other and  *)
(* has not failed, a restart would find what the table holds, whatever     *)
(* earlier saves have left of the file.                                    *)
THEOREM DiskAlwaysInSync == Spec => []DiskInSync
<1>1. Init => InSync
  <2> SUFFICES ASSUME Init PROVE InSync
    OBVIOUS
  <2>1. \A p \in Peers : table[p] = None /\ disk[p] = None
    BY DEF Init, Ids, NoRecords
  <2>2. DiskInSync
    BY <2>1 DEF Init, DiskInSync, Snapshot
  <2>3. LoneSave
    BY DEF Init, LoneSave, Saver
  <2> QED
    BY <2>2, <2>3 DEF InSync
<1>2. TypeOK /\ InSync /\ [Next]_vars => InSync'
  <2> SUFFICES ASSUME TypeOK, InSync, [Next]_vars
               PROVE  InSync'
    OBVIOUS
  <2>1. ASSUME UNCHANGED saves, NEW g \in Goroutines, \E o : UpdateDevice(g, o)
        PROVE  InSync'
    BY <2>1, SyncUpdate
  <2>2. ASSUME UNCHANGED saves, UNCHANGED update, Snapshot' = Snapshot
        PROVE  InSync'
    BY <2>2, SyncSame DEF Unsaved, Changing, Saver
  <2>3. ASSUME NEW p \in Peers, NEW s \in Streams, InboundKnown(p, s)
        PROVE  InSync'
    <3>1. table[p] \in Devices
      BY <2>3 DEF InboundKnown, TypeOK, Ids
    <3>2. \A q \in Peers : table[q] # None =>
             /\ device'[table[q]].named = device[table[q]].named
             /\ device'[table[q]].key = device[table[q]].key
             /\ device'[table[q]].status = device[table[q]].status
      BY <2>3, <3>1 DEF InboundKnown, TypeOK, Device, Ids
    <3>3. Snapshot' = Snapshot
      BY <2>3, <3>2, SnapshotSame DEF InboundKnown
    <3> QED
      BY <2>2, <2>3, <3>3 DEF InboundKnown
  <2>4. ASSUME NEW p \in Peers, NEW s \in Streams, InboundNew(p, s)
        PROVE  InSync'
    <3>1. PICK o \in Devices :
            /\ FreshDevice(p, o)
            /\ device' = [device EXCEPT ![o] = NewDevice(s)]
            /\ table' = [table EXCEPT ![p] = o]
      BY <2>4 DEF InboundNew
    <3>2. \A q \in Peers : table[q] # o
      BY <3>1 DEF FreshDevice, Referenced, Ids
    <3>3. \A q \in Peers \ {p} :
             /\ table'[q] = table[q]
             /\ table[q] # None => device'[table[q]] = device[table[q]]
      BY <3>1, <3>2 DEF TypeOK, Ids
    <3> ~NewDevice(s).named
      BY DEF NewDevice
    <3>4. table[p] = None /\ table'[p] = o /\ ~device'[o].named
      BY <2>4, <3>1 DEF InboundNew, TypeOK, Ids
    <3>5. Snapshot' = Snapshot
      BY <3>3, <3>4, SnapshotSame
    <3>6. UNCHANGED saves /\ update[s] = "none" /\ update' = [update EXCEPT ![s] = "added"]
      BY <2>4 DEF InboundNew
    <3>7. \A g \in Goroutines :
            update'[g] = update[g] \/ (update[g] = "none" /\ update'[g] = "added")
      BY <3>6 DEF TypeOK
    <3> QED
      BY <3>5, <3>6, <3>7, SyncSame DEF Unsaved, Changing, Saver
  <2>5. ASSUME NEW s \in Streams,
               \/ OpenStream(s)
               \/ SendDeviceDataFails(s)
               \/ \E k \in Keys : ReceiveDeviceData(s, k)
               \/ InsertTrusted(s)
               \/ \E st \in {"disconnected", "error"} : ReaderEnds(s, st)
        PROVE  InSync'
    <3>1. \E o : UpdateDevice(s, o)
      BY <2>5 DEF OpenStream, SendDeviceDataFails, ReceiveDeviceData,
                  InsertTrusted, ReaderEnds
    <3>2. UNCHANGED saves /\ s \in Goroutines
      BY <2>5 DEF OpenStream, SendDeviceDataFails, ReceiveDeviceData, InsertTrusted,
                  ReaderEnds, Goroutines
    <3> QED
      BY <2>1, <3>1, <3>2
  <2>6. ASSUME NEW s \in Streams, NEW k \in Keys, ReceiveAndTrust(s, k)
        PROVE  InSync'
    <3>1. /\ UNCHANGED saves /\ s \in Goroutines
          /\ update[s] = "none" /\ update' = [update EXCEPT ![s] = "insert"]
      BY <2>6 DEF ReceiveAndTrust, Goroutines
    <3>2. Changing' /\ \A g \in Goroutines : update'[g] # "insert" => update'[g] = update[g]
      BY <3>1 DEF TypeOK, Changing
    <3> QED
      BY <3>1, <3>2, SyncChanging DEF Saver
  <2>7. ASSUME WriteFails \/ UserTrusts \/ UserBlocks
        PROVE  InSync'
    <3>1. \E g \in Goroutines, o \in Devices : UpdateDevice(g, o)
      BY <2>7 DEF WriteFails, UserTrusts, UserBlocks, Goroutines, TypeOK
    <3>2. UNCHANGED saves
      BY <2>7 DEF WriteFails, UserTrusts, UserBlocks
    <3> QED
      BY <2>1, <3>1, <3>2
  <2>8. ASSUME NEW s \in Streams, ReaderCloses(s)
        PROVE  InSync'
    <3>1. \A q \in Peers : table[q] # None =>
             /\ device'[table[q]].named = device[table[q]].named
             /\ device'[table[q]].key = device[table[q]].key
             /\ device'[table[q]].status = device[table[q]].status
      BY <2>8 DEF ReaderCloses, TypeOK, Device, Ids
    <3>2. Snapshot' = Snapshot
      BY <2>8, <3>1, SnapshotSame DEF ReaderCloses
    <3> QED
      BY <2>2, <2>8, <3>2 DEF ReaderCloses
  <2>9. ASSUME NEW g \in Goroutines, Notify(g)
        PROVE  InSync'
    <3>1. UNCHANGED saves /\ Snapshot' = Snapshot
      BY <2>9, SnapshotSame DEF Notify
    <3>2. /\ \A f \in Goroutines \ {g} : update'[f] = update[f]
          /\ \/ update[g] = "notify" /\ update'[g] = "save"
             \/ update[g] = "added" /\ update'[g] = "none"
      BY <2>9 DEF Notify, TypeOK
    <3>3. (Changing => Changing') /\ (Unsaved => Unsaved')
      BY <3>2 DEF Changing, Unsaved
    <3>4. \A f \in Goroutines : /\ Saver(f)' => Saver(f)
                                /\ update'[f] = "write" => update[f] = "write"
      BY <3>2 DEF Saver
    <3> QED
      BY <3>1, <3>3, <3>4, SyncSame
  <2>10. ASSUME NEW g \in Goroutines, Save(g)
         PROVE  InSync'
    BY <2>10, SyncSave
  <2>11. ASSUME Restart
         PROVE  InSync'
    <3>1. ASSUME NEW p \in Peers
          PROVE  Outcome(Snapshot[p])' = Outcome(disk[p])
      <4>1. CASE Loadable(disk[p])
        <5>1. table'[p] = CellOf(p) /\ device'[CellOf(p)] = Loaded(disk[p])
          BY <2>11, <4>1, CellType DEF Restart, Ids
        <5>2. CellOf(p) # None
          BY CellType
        <5>3. disk[p] \in Record
          BY <4>1 DEF TypeOK, Records, Loadable
        <5>4. Snapshot'[p] = [blocked |-> Loaded(disk[p]).status = "blocked",
                              key |-> Loaded(disk[p]).key]
          BY <5>1, <5>2 DEF Snapshot, Loaded
        <5>5. Snapshot'[p] = disk[p]
          BY <5>3, <5>4 DEF Loaded, Record
        <5> QED
          BY <5>5 DEF Outcome
      <4>2. CASE ~Loadable(disk[p])
        <5>1. table'[p] = None
          BY <2>11, <4>2 DEF Restart, Ids
        <5>2. Snapshot'[p] = None
          BY <5>1 DEF Snapshot
        <5> QED
          BY <4>2, <5>2 DEF Outcome, Loadable
      <4> QED
        BY <4>1, <4>2
    <3>2. DiskInSync'
      BY <2>11, <3>1 DEF Restart, DiskInSync
    <3>3. LoneSave'
      BY <2>11 DEF Restart, LoneSave, Saver
    <3> QED
      BY <3>2, <3>3 DEF InSync
  <2>12. ASSUME UNCHANGED <<device, table, saves, update>>
         PROVE  InSync'
    BY <2>2, <2>12, SnapshotSame
  <2> QED
    BY <2>3, <2>4, <2>5, <2>6, <2>7, <2>8, <2>9, <2>10, <2>11, <2>12
       DEF Next, vars, Discover, DialFails, Spawn, Greet, WriterPicks, WriteDone
<1>3. InSync => DiskInSync
  BY DEF InSync
<1> QED
  BY <1>1, <1>2, <1>3, TypeCorrect, PTL DEF Spec

-----------------------------------------------------------------------------
(* A Device object that a step sets up for a stream is an old one with     *)
(* that stream, or a new one.                                              *)
LEMMA OpenedDevice ==
    ASSUME TypeOK, NEW s \in Streams, OpenStream(s)
    PROVE  \E o \in Devices :
              /\ \A d \in Devices \ {o} : device'[d] = device[d]
              /\ \/ /\ device'[o].named = device[o].named /\ device'[o].key = device[o].key
                    /\ device'[o].enc = device[o].enc /\ device'[o].status = device[o].status
                 \/ device'[o] = NewDevice(s)
              /\ table' = TableWith(device', o)
              /\ reader' = [reader EXCEPT ![s] = [pc |-> "spawn", dv |-> o, src |-> None]]
  <1>1. PICK o \in Devices :
          /\ \/ device' = [device EXCEPT ![o].addr = TRUE, ![o].stream = s]
             \/ device' = [device EXCEPT ![o] = NewDevice(s)]
          /\ reader' = [reader EXCEPT ![s] = [pc |-> "spawn", dv |-> o, src |-> None]]
          /\ UpdateDevice(s, o)
    BY Zenon DEF OpenStream
  <1>2. CASE device' = [device EXCEPT ![o].addr = TRUE, ![o].stream = s]
    <2>1. /\ \A d \in Devices \ {o} : device'[d] = device[d]
          /\ device'[o].named = device[o].named /\ device'[o].key = device[o].key
          /\ device'[o].enc = device[o].enc /\ device'[o].status = device[o].status
      BY <1>2 DEF TypeOK, Device
    <2> QED
      BY <1>1, <2>1 DEF UpdateDevice
  <1>3. CASE device' = [device EXCEPT ![o] = NewDevice(s)]
    BY <1>1, <1>3 DEF TypeOK, UpdateDevice
  <1> QED
    BY <1>1, <1>2, <1>3

(* A step leaves the name, the key and the encrypter of a Device as they   *)
(* are, or trusts its peer.                                                *)
Same(o) ==
    /\ device'[o].named = device[o].named /\ device'[o].key = device[o].key
    /\ device'[o].enc = device[o].enc

Trusting(o) ==
    /\ PeerOf[o] \in trusted'
    /\ device'[o].named = device[o].named /\ device'[o].key = device[o].key

(* A step other than a restart changes name, key and encrypter of a Device *)
(* in no other way than these: it makes a new one, reads a frame of device *)
(* data, or trusts it.                                                     *)
LEMMA DeviceSteps ==
    ASSUME TypeOK, [Next]_vars, ~Restart, NEW o \in Devices
    PROVE  /\ \/ Same(o)
              \/ device'[o].enc = None /\ ~device'[o].named
              \/ /\ device'[o].key \in Keys
                 /\ device'[o].enc = device[o].enc \/ PeerOf[o] \in trusted'
              \/ Trusting(o)
           /\ trusted \subseteq trusted' /\ restarts' = restarts
  <1> USE DEF Same
  <1>1. ASSUME NEW p \in Peers, NEW s \in Streams, InboundKnown(p, s)
        PROVE  Same(o) /\ UNCHANGED <<trusted, restarts>>
    BY <1>1 DEF InboundKnown, TypeOK, Device, Ids
  <1>2. ASSUME NEW p \in Peers, NEW s \in Streams, InboundNew(p, s)
        PROVE  /\ Same(o) \/ (device'[o].enc = None /\ ~device'[o].named)
               /\ UNCHANGED <<trusted, restarts>>
    <2>1. NewDevice(s).enc = None /\ ~NewDevice(s).named
      BY DEF NewDevice
    <2> QED
      BY <1>2, <2>1 DEF InboundNew, TypeOK
  <1>3. ASSUME NEW s \in Streams, OpenStream(s)
        PROVE  /\ Same(o) \/ (device'[o].enc = None /\ ~device'[o].named)
               /\ UNCHANGED <<trusted, restarts>>
    <2>1. NewDevice(s).enc = None /\ ~NewDevice(s).named
      BY DEF NewDevice
    <2>2. UNCHANGED <<trusted, restarts>>
      BY <1>3 DEF OpenStream
    <2> QED
      BY <1>3, <2>1, <2>2, OpenedDevice
  <1>4. ASSUME NEW s \in Streams, SendDeviceDataFails(s)
        PROVE  Same(o) /\ UNCHANGED <<trusted, restarts>>
    BY <1>4 DEF SendDeviceDataFails, TypeOK, Device
  <1>5. ASSUME NEW s \in Streams, NEW k \in Keys, ReceiveDeviceData(s, k)
        PROVE  /\ Same(o) \/ (device'[o].key \in Keys /\ device'[o].enc = device[o].enc)
               /\ UNCHANGED <<trusted, restarts>>
    <2>1. CASE o = reader[s].dv
      <3>1. /\ device[o] \in Device /\ UNCHANGED <<trusted, restarts>>
            /\ \E st \in Statuses : device'[o] =
                  [device[o] EXCEPT !.named = TRUE, !.key = k, !.status = st]
        BY <1>5, <2>1 DEF ReceiveDeviceData, TypeOK, Statuses
      <3> QED
        BY <3>1 DEF Device
    <2>2. CASE o # reader[s].dv
      BY <1>5, <2>2 DEF ReceiveDeviceData, TypeOK
    <2> QED
      BY <2>1, <2>2
  <1>6. ASSUME NEW s \in Streams, NEW k \in Keys, ReceiveAndTrust(s, k)
        PROVE  /\ Same(o) \/ (device'[o].key \in Keys /\ PeerOf[o] \in trusted')
               /\ trusted \subseteq trusted' /\ restarts' = restarts
    <2>1. CASE o = reader[s].dv
      <3> DEFINE d == [device[o] EXCEPT !.named = TRUE, !.key = k, !.status = "pending"]
      <3>1. /\ device[o] \in Device /\ device'[o] = Trust(d)
            /\ PeerOf[o] \in trusted' /\ trusted \subseteq trusted' /\ restarts' = restarts
        BY <1>6, <2>1 DEF ReceiveAndTrust, TypeOK
      <3>2. d.key = k /\ Trust(d).key = d.key
        BY <3>1 DEF Device, Trust
      <3> QED
        BY <3>1, <3>2
    <2>2. CASE o # reader[s].dv
      BY <1>6, <2>2 DEF ReceiveAndTrust, TypeOK
    <2> QED
      BY <2>1, <2>2
  <1>7. ASSUME NEW s \in Streams, NEW st \in {"disconnected", "error"}, ReaderEnds(s, st)
        PROVE  Same(o) /\ UNCHANGED <<trusted, restarts>>
    BY <1>7 DEF ReaderEnds, TypeOK, Device
  <1>8. ASSUME NEW s \in Streams, ReaderCloses(s)
        PROVE  Same(o) /\ UNCHANGED <<trusted, restarts>>
    BY <1>8 DEF ReaderCloses, TypeOK, Device
  <1>9. CASE WriteFails
    BY <1>9 DEF WriteFails, TypeOK, Device
  <1>12. CASE UserBlocks
    BY <1>12 DEF UserBlocks, TypeOK, Device
  <1>10. CASE UserTrusts
    BY <1>10 DEF UserTrusts, Trusting, Trust, TypeOK, Device
  <1>11. CASE UNCHANGED <<device, trusted, restarts>>
    BY <1>11
  <1> QED
    BY <1>1, <1>2, <1>3, <1>4, <1>5, <1>6, <1>7, <1>8, <1>9, <1>10, <1>11,
       <1>12, SaveFrame
       DEF Next, vars, Discover, DialFails, Spawn, Greet, InsertTrusted,
           WriterPicks, WriteDone, Notify

(* What Load makes of the records.                                         *)
LEMMA LoadedDevice ==
    ASSUME Restart, NEW o \in Devices
    PROVE  \/ /\ disk[PeerOf[o]] # None
              /\ device'[o] = Loaded(disk[PeerOf[o]])
              /\ device'[o].status \in {"blocked", "disconnected"}
           \/ /\ ~device'[o].named /\ device'[o].enc = None
              /\ device'[o].status = ""
  <1>1. CASE Loadable(disk[PeerOf[o]])
    <2>1. disk[PeerOf[o]] # None /\ device'[o] = Loaded(disk[PeerOf[o]])
      BY <1>1 DEF Restart, Loadable
    <2>2. Loaded(disk[PeerOf[o]]).status \in {"blocked", "disconnected"}
      BY DEF Loaded
    <2> QED
      BY <2>1, <2>2
  <1>2. CASE ~Loadable(disk[PeerOf[o]])
    <2>1. device'[o] = [NewDevice(None) EXCEPT !.addr = FALSE]
      BY <1>2 DEF Restart
    <2> QED
      BY <2>1 DEF NewDevice
  <1> QED
    BY <1>1, <1>2

(* Only finished handshakes reach devices.json, over any number of         *)
(* restarts: Save looks at the name, and whoever sets the name of a Device *)
(* sets its key (serialize.go, reader.go).                                 *)
THEOREM RecordsHaveKeys == Spec => []SavedHasKey
<1> DEFINE AllHaveKey == NamedHasKey /\ SavedHasKey /\ SavingHasKey
<1>1. Init => AllHaveKey
  <2> SUFFICES ASSUME Init PROVE AllHaveKey
    OBVIOUS
  <2>1. ~[NewDevice(None) EXCEPT !.addr = FALSE].named
    BY DEF NewDevice
  <2>2. SavedHasKey /\ SavingHasKey
    BY DEF Init, NoRecords, SavedHasKey, SavingHasKey
  <2> QED
    BY <2>1, <2>2 DEF Init, NamedHasKey
<1>2. TypeOK /\ AllHaveKey /\ [Next]_vars => AllHaveKey'
  <2> SUFFICES ASSUME TypeOK, AllHaveKey, [Next]_vars
               PROVE  AllHaveKey'
    OBVIOUS
  <2>1. ASSUME Restart, NEW o \in Devices, device'[o].named
        PROVE  device'[o].key # None
    <3>1. /\ disk[PeerOf[o]] # None
          /\ device'[o] = Loaded(disk[PeerOf[o]])
      BY <2>1, LoadedDevice
    <3>2. device'[o].key = disk[PeerOf[o]].key
      BY <3>1 DEF Loaded
    <3> QED
      BY <3>1, <3>2 DEF SavedHasKey
  <2>2. ASSUME ~Restart, NEW o \in Devices, device'[o].named
        PROVE  device'[o].key # None
    <3>1. \/ device'[o].named = device[o].named /\ device'[o].key = device[o].key
          \/ device'[o].key \in Keys
      BY <2>2, DeviceSteps, Zenon DEF Same, Trusting
    <3> QED
      BY <2>2, <3>1 DEF NamedHasKey
  <2>3. NamedHasKey'
    BY <2>1, <2>2 DEF NamedHasKey
  <2>4. ASSUME NEW g \in Goroutines, Save(g)
        PROVE  SavedHasKey' /\ SavingHasKey'
    <3>1. \A p \in Peers : Snapshot[p] # None => Snapshot[p].key # None
      <4>1. \A p \in Peers : table[p] # None => table[p] \in Devices
        BY DEF TypeOK, Ids
      <4> QED
        BY <4>1 DEF Snapshot, NamedHasKey
    <3>2. \A p \in Peers : NoRecords[p] = None
      BY DEF NoRecords
    <3>3. CASE Marshal(g)
      BY <2>4, <3>1, <3>3 DEF Marshal, TypeOK, SavedHasKey, SavingHasKey
    <3>4. ASSUME Return(g) PROVE SavingHasKey'
      BY <2>4, <3>2, <3>4 DEF Return, TypeOK, SavingHasKey
    <3>5. ASSUME disk' \in {disk, saving[g], NoRecords} PROVE SavedHasKey'
      BY <2>4, <3>2, <3>5 DEF SavedHasKey, SavingHasKey
    <3>6. CASE Truncate(g)
      BY <3>5, <3>6 DEF Truncate, SavingHasKey
    <3>7. CASE Write(g)
      BY <3>4, <3>5, <3>7 DEF Write, Tear
    <3>8. CASE SaveFails(g)
      BY <3>4, <3>5, <3>8 DEF SaveFails, Tear
    <3> QED
      BY <2>4, <3>3, <3>6, <3>7, <3>8 DEF Save
  <2>5. ASSUME UNCHANGED disk, UNCHANGED saving \/ Restart
        PROVE  SavedHasKey' /\ SavingHasKey'
    BY <2>5 DEF SavedHasKey, SavingHasKey, Restart, NoRecords
  <2>6. SavedHasKey' /\ SavingHasKey'
    BY <2>4, <2>5
       DEF Next, vars, InboundKnown, InboundNew, Discover, DialFails, OpenStream,
           Spawn, Greet, SendDeviceDataFails, InsertTrusted, ReaderCloses,
           ReceiveDeviceData, ReceiveAndTrust, ReaderEnds, WriterPicks, WriteDone,
           WriteFails, Notify, UserTrusts, UserBlocks, Restart
  <2> QED
    BY <2>3, <2>6
<1> QED
  BY <1>1, <1>2, TypeCorrect, PTL DEF Spec

-----------------------------------------------------------------------------
(* Until the process is restarted, no peer is connected that the user or   *)
(* auto trust has not accepted, however the goroutines interleave: what    *)
(* makes a Device connected needs an encrypter, and only Trust makes one.  *)
(* Load makes one for a device that was only pending when it was saved     *)
(* (serialize.go:77), so nothing is claimed of later instances.            *)
THEOREM ConnectedWasTrusted == Spec => [](restarts = 0 => ConnectedIsTrusted)
<1>1. Init => EncrypterIsTrusted
  <2> SUFFICES ASSUME Init PROVE EncrypterIsTrusted
    OBVIOUS
  <2>1. [NewDevice(None) EXCEPT !.addr = FALSE].enc = None
    BY DEF NewDevice
  <2> QED
    BY <2>1 DEF Init, EncrypterIsTrusted
<1>2. TypeOK /\ EncrypterIsTrusted /\ [Next]_vars => EncrypterIsTrusted'
  <2> SUFFICES ASSUME TypeOK, EncrypterIsTrusted, [Next]_vars, restarts' = 0,
                      NEW o \in Devices, device'[o].enc # None
               PROVE  PeerOf[o] \in trusted'
    BY DEF EncrypterIsTrusted
  <2>1. ~Restart
    BY DEF Restart, TypeOK
  <2>2. /\ device'[o].enc = device[o].enc \/ PeerOf[o] \in trusted'
        /\ trusted \subseteq trusted' /\ restarts' = restarts
    BY <2>1, DeviceSteps, Zenon DEF Same, Trusting
  <2> QED
    BY <2>2 DEF EncrypterIsTrusted
<1>3. EncrypterIsTrusted /\ ConnectedHasEncrypter => (restarts = 0 => ConnectedIsTrusted)
  BY DEF EncrypterIsTrusted, ConnectedHasEncrypter, ConnectedIsTrusted
<1> QED
  BY <1>1, <1>2, <1>3, TypeCorrect, EncrypterAlways, PTL DEF Spec

-----------------------------------------------------------------------------
(* A frame sets the status to connected or pending, and Trust sets none    *)
(* other than connected.                                                   *)
LEMMA ReceivedStatus ==
    ASSUME TypeOK, NEW s \in Streams, NEW k \in Keys,
           ReceiveDeviceData(s, k) \/ ReceiveAndTrust(s, k)
    PROVE  /\ reader[s].dv \in Devices
           /\ \A o \in Devices \ {reader[s].dv} : device'[o] = device[o]
           /\ device'[reader[s].dv].status \in {"connected", "pending"}
  <1> DEFINE o == reader[s].dv
             d == [device[o] EXCEPT !.named = TRUE, !.key = k, !.status = "pending"]
  <1>1. o \in Devices /\ device[o] \in Device
    BY DEF ReceiveDeviceData, ReceiveAndTrust, TypeOK
  <1>2. CASE ReceiveDeviceData(s, k)
    <2>1. /\ \A e \in Devices \ {o} : device'[e] = device[e]
          /\ \E st \in {"connected", "pending"} : device'[o] =
                [device[o] EXCEPT !.named = TRUE, !.key = k, !.status = st]
      BY <1>1, <1>2 DEF ReceiveDeviceData, TypeOK
    <2> QED
      BY <1>1, <2>1 DEF Device
  <1>3. CASE ReceiveAndTrust(s, k)
    <2>1. /\ \A e \in Devices \ {o} : device'[e] = device[e]
          /\ device'[o] = Trust(d)
      BY <1>1, <1>3 DEF ReceiveAndTrust, TypeOK
    <2>2. d.status = "pending" /\ Trust(d).status \in {"connected", d.status}
      BY <1>1 DEF Device, Trust
    <2> QED
      BY <1>1, <2>1, <2>2
  <1> QED
    BY <1>2, <1>3

(* No step other than the block button and Load makes a device blocked:    *)
(* whatever a peer sends, however its streams end and whichever prompts    *)
(* are answered with trust (reader.go:29, serialize.go:77).                *)
THEOREM OnlyTheUserBlocks == Spec => BlockedOnlyByUser
<1>1. ASSUME TypeOK, [Next]_vars, NEW o \in Devices,
             device[o].status # "blocked", device'[o].status = "blocked"
      PROVE  \/ o = prompt /\ update["user"] = "none"
             \/ restarts' # restarts /\ disk[PeerOf[o]].blocked
  <2>1. ASSUME NEW p \in Peers, NEW s \in Streams, InboundKnown(p, s) PROVE FALSE
    BY <1>1, <2>1 DEF InboundKnown, TypeOK, Device, Ids
  <2>2. ASSUME NEW p \in Peers, NEW s \in Streams, InboundNew(p, s) PROVE FALSE
    <3>1. NewDevice(s).status = ""
      BY DEF NewDevice
    <3> QED
      BY <1>1, <2>2, <3>1 DEF InboundNew, TypeOK
  <2>3. ASSUME NEW s \in Streams, OpenStream(s) PROVE FALSE
    <3>1. NewDevice(s).status = ""
      BY DEF NewDevice
    <3> QED
      BY <1>1, <2>3, <3>1, OpenedDevice
  <2>4. ASSUME NEW s \in Streams, SendDeviceDataFails(s) PROVE FALSE
    BY <1>1, <2>4 DEF SendDeviceDataFails, TypeOK, Device
  <2>5. ASSUME NEW s \in Streams, NEW k \in Keys,
               ReceiveDeviceData(s, k) \/ ReceiveAndTrust(s, k)
        PROVE  FALSE
    BY <1>1, <2>5, ReceivedStatus
  <2>6. ASSUME NEW s \in Streams, NEW st \in {"disconnected", "error"}, ReaderEnds(s, st)
        PROVE  FALSE
    BY <1>1, <2>6 DEF ReaderEnds, TypeOK, Device
  <2>7. ASSUME NEW s \in Streams, ReaderCloses(s) PROVE FALSE
    BY <1>1, <2>7 DEF ReaderCloses, TypeOK, Device
  <2>8. ASSUME WriteFails PROVE FALSE
    BY <1>1, <2>8 DEF WriteFails, TypeOK, Device
  <2>9. ASSUME UserTrusts PROVE FALSE
    BY <1>1, <2>9 DEF UserTrusts, Trust, TypeOK, Device
  <2>10. ASSUME UserBlocks PROVE o = prompt /\ update["user"] = "none"
    BY <1>1, <2>10 DEF UserBlocks, TypeOK
  <2>11. ASSUME Restart PROVE restarts' # restarts /\ disk[PeerOf[o]].blocked
    <3>1. device'[o] = Loaded(disk[PeerOf[o]])
      BY <1>1, <2>11, LoadedDevice
    <3>2. disk[PeerOf[o]].blocked
      BY <1>1, <3>1 DEF Loaded
    <3> QED
      BY <1>1, <2>11, <3>2 DEF Restart, TypeOK
  <2>12. ASSUME UNCHANGED device PROVE FALSE
    BY <1>1, <2>12
  <2> QED
    BY <1>1, <2>1, <2>2, <2>3, <2>4, <2>5, <2>6, <2>7, <2>8, <2>9, <2>10, <2>11, <2>12,
       SaveFrame
       DEF Next, vars, Discover, DialFails, Spawn, Greet, InsertTrusted,
           WriterPicks, WriteDone, Notify
<1>2. TypeOK /\ [Next]_vars =>
        [\A o \in Devices :
           device[o].status # "blocked" /\ device'[o].status = "blocked" =>
              \/ o = prompt /\ update["user"] = "none"
              \/ restarts' # restarts /\ disk[PeerOf[o]].blocked]_vars
  BY <1>1
<1> QED
  BY <1>2, TypeCorrect, PTL DEF Spec, BlockedOnlyByUser

-----------------------------------------------------------------------------
(* Whoever shrinks the table does it in UpdateDevice, and has changed the  *)
(* status of no Device but the one it stores.                              *)
LEMMA TableSteps ==
    ASSUME TypeOK, [Next]_vars, ~Restart
    PROVE  \/ \A i \in Ids : table[i] # None => table'[i] # None
           \/ \E o \in Devices :
                 /\ table' = TableWith(device', o)
                 /\ \A d \in Devices \ {o} : device'[d].status = device[d].status
  <1>1. ASSUME NEW p \in Peers, NEW s \in Streams, InboundNew(p, s)
        PROVE  \A i \in Ids : table[i] # None => table'[i] # None
    BY <1>1 DEF InboundNew, TypeOK
  <1>2. ASSUME NEW s \in Streams, OpenStream(s)
        PROVE  \E o \in Devices :
                 /\ table' = TableWith(device', o)
                 /\ \A d \in Devices \ {o} : device'[d].status = device[d].status
    BY <1>2, OpenedDevice
  <1>3. ASSUME NEW s \in Streams,
               \/ SendDeviceDataFails(s)
               \/ InsertTrusted(s)
               \/ \E st \in {"disconnected", "error"} : ReaderEnds(s, st)
        PROVE  \E o \in Devices :
                 /\ table' = TableWith(device', o)
                 /\ \A d \in Devices \ {o} : device'[d].status = device[d].status
    <2>1. /\ reader[s].dv \in Devices
          /\ table' = TableWith(device', reader[s].dv)
          /\ \A d \in Devices \ {reader[s].dv} : device'[d] = device[d]
      BY <1>3 DEF SendDeviceDataFails, InsertTrusted, ReaderEnds, UpdateDevice, TypeOK
    <2> QED
      BY <2>1
  <1>4. ASSUME NEW s \in Streams, NEW k \in Keys, ReceiveDeviceData(s, k)
        PROVE  \E o \in Devices :
                 /\ table' = TableWith(device', o)
                 /\ \A d \in Devices \ {o} : device'[d].status = device[d].status
    <2>1. table' = TableWith(device', reader[s].dv)
      BY <1>4 DEF ReceiveDeviceData, UpdateDevice
    <2> QED
      BY <1>4, <2>1, ReceivedStatus
  <1>5. ASSUME WriteFails
        PROVE  \E o \in Devices :
                 /\ table' = TableWith(device', o)
                 /\ \A d \in Devices \ {o} : device'[d].status = device[d].status
    BY <1>5 DEF WriteFails, UpdateDevice, TypeOK
  <1>6. ASSUME UserTrusts \/ UserBlocks
        PROVE  \E o \in Devices :
                 /\ table' = TableWith(device', o)
                 /\ \A d \in Devices \ {o} : device'[d].status = device[d].status
    BY <1>6 DEF UserTrusts, UserBlocks, UpdateDevice, TypeOK
  <1>7. ASSUME UNCHANGED table
        PROVE  \A i \in Ids : table[i] # None => table'[i] # None
    BY <1>7
  <1> QED
    BY <1>1, <1>2, <1>3, <1>4, <1>5, <1>6, <1>7, SaveFrame
       DEF Next, vars, InboundKnown, Discover, DialFails, Spawn, Greet, ReceiveAndTrust,
           ReaderCloses, WriterPicks, WriteDone, Notify

(* The cleanup of UpdateDevice never takes the entry of a pending,         *)
(* connected or blocked device, not even when the device it stores has     *)
(* just changed its own status (devicemanager.go:53).                      *)
THEOREM LiveEntriesAreKept == Spec => LiveEntriesStay
<1>1. ASSUME TypeOK, [Next]_vars, NEW p \in Peers, restarts' = restarts, table[p] # None,
             device[table[p]].status \in {"pending", "connected", "blocked"}
      PROVE  table'[p] # None
  <2>1. ~Restart /\ p \in Ids /\ table[p] \in Devices
    BY <1>1 DEF Restart, TypeOK, Ids
  <2>2. CASE \A i \in Ids : table[i] # None => table'[i] # None
    BY <1>1, <2>1, <2>2
  <2>3. ASSUME NEW o \in Devices, table' = TableWith(device', o),
               \A d \in Devices \ {o} : device'[d].status = device[d].status,
               table'[p] = None
        PROVE  FALSE
    <3>1. p \in Purged(device', o) /\ p # Id(device', o)
      BY <1>1, <2>1, <2>3 DEF TableWith
    <3>2. /\ device'[o].status = "connected"
          /\ device'[table[p]].status \in {"disconnected", "error", ""}
      BY <3>1 DEF Purged
    <3>3. table[p] # o
      BY <3>2
    <3> QED
      BY <1>1, <2>1, <2>3, <3>2, <3>3
  <2> QED
    BY <1>1, <2>1, <2>2, <2>3, TableSteps
<1>2. TypeOK /\ [Next]_vars =>
        [\A p \in Peers :
           /\ restarts' = restarts
           /\ table[p] # None
           /\ device[table[p]].status \in {"pending", "connected", "blocked"}
           => table'[p] # None]_vars
  BY <1>1
<1> QED
  BY <1>2, TypeCorrect, PTL DEF Spec, LiveEntriesStay

-----------------------------------------------------------------------------
(* A step in which no reader leaves its loop keeps ConnectedHasReader if   *)
(* it makes no other Device connected.                                     *)
LEMMA ReadersStay ==
    ASSUME ConnectedHasReader,
           \A o \in Devices : device'[o].status = "connected" => device[o].status = "connected",
           \A s \in Streams : reader[s].pc = "loop" =>
              reader'[s].pc = "loop" /\ reader'[s].dv = reader[s].dv
    PROVE  ConnectedHasReader'
  BY DEF ConnectedHasReader

(* A step that makes no Device connected but that of a reader in its loop  *)
(* keeps it as well.                                                       *)
LEMMA ReaderConnects ==
    ASSUME ConnectedHasReader, NEW s \in Streams, reader[s].pc = "loop", reader' = reader,
           \A o \in Devices \ {reader[s].dv} : device'[o] = device[o]
    PROVE  ConnectedHasReader'
  BY DEF ConnectedHasReader

(* As long as no prompt is answered with trust, whatever becomes connected *)
(* has a reader goroutine, and loses the status when that one ends: two    *)
(* readers of one Device, replaced streams and restarts included.          *)
THEOREM ReaderUnlessPrompted == Spec /\ [][~UserTrusts]_vars => []ConnectedHasReader
<1>1. Init => ConnectedHasReader
  <2> SUFFICES ASSUME Init PROVE ConnectedHasReader
    OBVIOUS
  <2>1. [NewDevice(None) EXCEPT !.addr = FALSE].status = ""
    BY DEF NewDevice
  <2> QED
    BY <2>1 DEF Init, ConnectedHasReader
<1>2. TypeOK /\ ConnectedHasReader /\ [Next]_vars /\ [~UserTrusts]_vars => ConnectedHasReader'
  <2> SUFFICES ASSUME TypeOK, ConnectedHasReader, [Next]_vars, [~UserTrusts]_vars
               PROVE  ConnectedHasReader'
    OBVIOUS
  <2>1. ASSUME NEW p \in Peers, NEW s \in Streams, InboundKnown(p, s)
        PROVE  ConnectedHasReader'
    <3>1. \A o \in Devices : device'[o].status = device[o].status
      BY <2>1 DEF InboundKnown, TypeOK, Device, Ids
    <3>2. reader[s].pc = "off" /\ \A t \in Streams \ {s} : reader'[t] = reader[t]
      BY <2>1 DEF InboundKnown, FreshStream, TypeOK
    <3> QED
      BY <3>1, <3>2, ReadersStay
  <2>2. ASSUME NEW p \in Peers, NEW s \in Streams, InboundNew(p, s)
        PROVE  ConnectedHasReader'
    <3>1. NewDevice(s).status = ""
      BY DEF NewDevice
    <3>2. \A o \in Devices : device'[o].status \in {device[o].status, ""}
      BY <2>2, <3>1 DEF InboundNew, TypeOK
    <3>3. reader[s].pc = "off" /\ \A t \in Streams \ {s} : reader'[t] = reader[t]
      BY <2>2 DEF InboundNew, FreshStream, TypeOK
    <3> QED
      BY <3>2, <3>3, ReadersStay
  <2>3. ASSUME NEW s \in Streams, OpenStream(s)
        PROVE  ConnectedHasReader'
    <3>1. NewDevice(s).status = ""
      BY DEF NewDevice
    <3>2. PICK o \in Devices :
            /\ \A d \in Devices \ {o} : device'[d] = device[d]
            /\ device'[o].status = device[o].status \/ device'[o] = NewDevice(s)
            /\ reader' = [reader EXCEPT ![s] = [pc |-> "spawn", dv |-> o, src |-> None]]
      BY <2>3, OpenedDevice
    <3>3. \A d \in Devices : device'[d].status \in {device[d].status, ""}
      BY <3>1, <3>2
    <3>4. reader[s].pc = "off" /\ \A t \in Streams \ {s} : reader'[t] = reader[t]
      BY <2>3, <3>2 DEF OpenStream, FreshStream, TypeOK
    <3> QED
      BY <3>3, <3>4, ReadersStay
  <2>4. ASSUME NEW s \in Streams, Spawn(s) \/ Greet(s)
        PROVE  ConnectedHasReader'
    <3>1. /\ device' = device /\ reader[s].pc # "loop"
          /\ \A t \in Streams \ {s} : reader'[t] = reader[t]
      BY <2>4 DEF Spawn, Greet, TypeOK
    <3> QED
      BY <3>1, ReadersStay
  <2>5. ASSUME NEW s \in Streams, SendDeviceDataFails(s)
        PROVE  ConnectedHasReader'
    <3>1. \A o \in Devices : device'[o].status \in {device[o].status, "error"}
      BY <2>5 DEF SendDeviceDataFails, TypeOK, Device
    <3>2. /\ \A t \in Streams \ {s} : reader'[t] = reader[t]
          /\ reader'[s].pc = "loop" /\ reader'[s].dv = reader[s].dv
      BY <2>5 DEF SendDeviceDataFails, TypeOK, Reader
    <3> QED
      BY <3>1, <3>2, ReadersStay
  <2>6. ASSUME NEW s \in Streams, NEW k \in Keys,
               ReceiveDeviceData(s, k) \/ ReceiveAndTrust(s, k)
        PROVE  ConnectedHasReader'
    <3>1. reader[s].pc = "loop" /\ reader' = reader
      BY <2>6 DEF ReceiveDeviceData, ReceiveAndTrust
    <3> QED
      BY <2>6, <3>1, ReceivedStatus, ReaderConnects
  <2>7. ASSUME NEW s \in Streams, NEW st \in {"disconnected", "error"}, ReaderEnds(s, st)
        PROVE  ConnectedHasReader'
    <3>1. /\ \A o \in Devices \ {reader[s].dv} : device'[o] = device[o]
          /\ device'[reader[s].dv].status = st
          /\ \A t \in Streams \ {s} : reader'[t] = reader[t]
      BY <2>7 DEF ReaderEnds, TypeOK, Device
    <3> QED
      BY <3>1 DEF ConnectedHasReader
  <2>8. ASSUME NEW s \in Streams, ReaderCloses(s)
        PROVE  ConnectedHasReader'
    <3>1. \A o \in Devices : device'[o].status = device[o].status
      BY <2>8 DEF ReaderCloses, TypeOK, Device
    <3>2. reader[s].pc = "close" /\ \A t \in Streams \ {s} : reader'[t] = reader[t]
      BY <2>8 DEF ReaderCloses, TypeOK
    <3> QED
      BY <3>1, <3>2, ReadersStay
  <2>9. ASSUME WriteFails
        PROVE  ConnectedHasReader'
    <3>1. \A o \in Devices : device'[o].status \in {device[o].status, "error"}
      BY <2>9 DEF WriteFails, TypeOK, Device
    <3> QED
      BY <2>9, <3>1, ReadersStay DEF WriteFails
  <2>10. ASSUME UserBlocks
         PROVE  ConnectedHasReader'
    <3>1. \A o \in Devices : device'[o].status \in {device[o].status, "blocked"}
      BY <2>10 DEF UserBlocks, TypeOK, Device
    <3> QED
      BY <2>10, <3>1, ReadersStay DEF UserBlocks
  <2>11. ASSUME Restart
         PROVE  ConnectedHasReader'
    <3>1. \A o \in Devices : device'[o].status # "connected"
      BY <2>11, LoadedDevice
    <3> QED
      BY <3>1 DEF ConnectedHasReader
  <2>12. ASSUME UNCHANGED <<device, reader>>
         PROVE  ConnectedHasReader'
    BY <2>12 DEF ConnectedHasReader
  <2> QED
    BY <2>1, <2>2, <2>3, <2>4, <2>5, <2>6, <2>7, <2>8, <2>9, <2>10, <2>11, <2>12,
       SaveFrame
       DEF Next, vars, Discover, DialFails, InsertTrusted, WriterPicks, WriteDone, Notify
<1> QED
  BY <1>1, <1>2, TypeCorrect, PTL DEF Spec

(* Under auto trust, while an encrypter can be made of every key, no       *)
(* prompt comes up, so a connected device always has a reader.             *)
THEOREM AutoTrustHasReader ==
    ASSUME AutoTrust, Keys \subseteq UsableKeys
    PROVE  Spec => []ConnectedHasReader
<1>1. Init => NeverPending
  <2> SUFFICES ASSUME Init PROVE NeverPending
    OBVIOUS
  <2>1. [NewDevice(None) EXCEPT !.addr = FALSE].status = ""
    BY DEF NewDevice
  <2> QED
    BY <2>1 DEF Init, NeverPending
<1>2. TypeOK /\ NeverPending /\ [Next]_vars => NeverPending' /\ [~UserTrusts]_vars
  <2> SUFFICES ASSUME TypeOK, NeverPending, [Next]_vars
               PROVE  NeverPending' /\ ~UserTrusts
    OBVIOUS
  <2> USE DEF NeverPending
  <2>1. ~UserTrusts /\ ~UserBlocks
    BY DEF UserTrusts, UserBlocks
  <2>2. ASSUME NEW p \in Peers, NEW s \in Streams, InboundKnown(p, s)
        PROVE  NeverPending'
    BY <2>2 DEF InboundKnown, TypeOK, Device, Ids
  <2>3. ASSUME NEW p \in Peers, NEW s \in Streams, InboundNew(p, s)
        PROVE  NeverPending'
    <3>1. NewDevice(s).status = ""
      BY DEF NewDevice
    <3> QED
      BY <2>3, <3>1 DEF InboundNew, TypeOK
  <2>4. ASSUME NEW s \in Streams, OpenStream(s)
        PROVE  NeverPending'
    <3>1. NewDevice(s).status = "" /\ prompt' = prompt
      BY <2>4 DEF NewDevice, OpenStream
    <3> QED
      BY <2>4, <3>1, OpenedDevice
  <2>5. ASSUME NEW s \in Streams, SendDeviceDataFails(s)
        PROVE  NeverPending'
    BY <2>5 DEF SendDeviceDataFails, TypeOK, Device
  <2>6. ASSUME NEW s \in Streams, NEW k \in Keys, ReceiveDeviceData(s, k)
        PROVE  NeverPending'
    <3> DEFINE o == reader[s].dv
    <3>1. /\ o \in Devices /\ device[o] \in Device /\ prompt' = prompt
          /\ \A e \in Devices \ {o} : device'[e] = device[e]
          /\ device'[o] = [device[o] EXCEPT !.named = TRUE, !.key = k, !.status = "connected"]
      BY <2>6 DEF ReceiveDeviceData, TypeOK
    <3> QED
      BY <3>1 DEF Device
  <2>7. ASSUME NEW s \in Streams, NEW k \in Keys, ReceiveAndTrust(s, k)
        PROVE  NeverPending'
    <3> DEFINE o == reader[s].dv
               d == [device[o] EXCEPT !.named = TRUE, !.key = k, !.status = "pending"]
    <3>1. /\ o \in Devices /\ device[o] \in Device /\ prompt' = prompt
          /\ \A e \in Devices \ {o} : device'[e] = device[e]
          /\ device'[o] = Trust(d)
      BY <2>7 DEF ReceiveAndTrust, TypeOK
    <3>2. d.key \in UsableKeys /\ d \in Device
      BY <3>1 DEF Device, Statuses
    <3>3. Trust(d).status = "connected"
      BY <3>2 DEF Trust, Device
    <3> QED
      BY <3>1, <3>3
  <2>8. ASSUME NEW s \in Streams, NEW st \in {"disconnected", "error"}, ReaderEnds(s, st)
        PROVE  NeverPending'
    BY <2>8 DEF ReaderEnds, TypeOK, Device
  <2>9. ASSUME NEW s \in Streams, ReaderCloses(s)
        PROVE  NeverPending'
    BY <2>9 DEF ReaderCloses, TypeOK, Device
  <2>10. ASSUME WriteFails
         PROVE  NeverPending'
    BY <2>10 DEF WriteFails, TypeOK, Device
  <2>11. ASSUME NEW g \in Goroutines, Notify(g) \/ Save(g)
         PROVE  NeverPending'
    BY <2>11, SaveFrame DEF Notify, Pending
  <2>12. ASSUME Restart
         PROVE  NeverPending'
    <3>1. \A o \in Devices : device'[o].status # "pending"
      BY <2>12, LoadedDevice
    <3> QED
      BY <2>12, <3>1 DEF Restart
  <2>13. ASSUME UNCHANGED <<device, prompt>>
         PROVE  NeverPending'
    BY <2>13
  <2> QED
    BY <2>1, <2>2, <2>3, <2>4, <2>5, <2>6, <2>7, <2>8, <2>9, <2>10, <2>11, <2>12, <2>13
       DEF Next, vars, Discover, DialFails, Spawn, Greet, InsertTrusted,
           WriterPicks, WriteDone
<1> QED
  BY <1>1, <1>2, TypeCorrect, ReaderUnlessPrompted, PTL DEF Spec
=============================================================================
