------------------------- MODULE PersistenceProofs -------------------------
(* Theorems about Persistence for any devices, goroutines, limits and      *)
(* number of starts.                                                       *)
EXTENDS Persistence, FiniteSetTheorems, TLAPS

USE PersistenceAssumption

(* A table has a size.                                                     *)
LEMMA SizeIsNat ==
    ASSUME NEW t \in SUBSET Devices
    PROVE  Size(t) \in Nat /\ Size(t) > 1
  BY FS_Subset, FS_CardinalityType DEF Size

(* What is left to do after config.yaml has been written.                  *)
LEMMA PageTail ==
    ASSUME TypeOK, page # <<>>, Head(page) = "write"
    PROVE  /\ WillWrite
           /\ Tail(page) \in {<<>>, <<"restart">>, <<"load">>}
           /\ Tail(page) = <<"load">> => WillLoad
  <1>1. CASE page = <<"write">>
    BY <1>1 DEF WillWrite
  <1>2. CASE page = <<"write", "restart">>
    <2>1. Tail(page) = <<"restart">>
      BY <1>2
    <2>2. "restart" # "load"
      OBVIOUS
    <2>3. <<"restart">> # <<"load">>
      BY <2>2
    <2> QED
      BY <1>2, <2>1, <2>3 DEF WillWrite
  <1>3. CASE page = <<"write", "load">>
    <2>1. Tail(page) = <<"load">>
      BY <1>3
    <2> QED
      BY <1>3, <2>1 DEF WillWrite, WillLoad
  <1>4. page \notin {<<"restart">>, <<"load">>}
    OBVIOUS
  <1> QED
    BY <1>1, <1>2, <1>3, <1>4 DEF TypeOK

(* When all goroutines are idle they stay typed.                           *)
LEMMA EndsTyped ==
    ASSUME TypeOK, Ends
    PROVE  /\ running' = FALSE /\ page' = <<>> /\ alone' \in 0 .. Starts
           /\ saver' \in [Instances \X Savers ->
                             [pc : {"idle", "changed", "marshalled", "truncated"},
                              data : SUBSET Devices]]
           /\ \A x \in DOMAIN saver' : saver'[x].pc = "idle"
  BY DEF Ends, TypeOK, Idle, Instances

(* Every start, also of a new instance, is typed.                          *)
LEMMA StartTyped ==
    ASSUME TypeOK, Start \/ Restart
    PROVE  TypeOK'
  <1>1. /\ instance' = instance + 1 /\ instance < Starts /\ page' = <<"write", "load">>
        /\ config' = Nothing /\ history' = 0 /\ UNCHANGED <<table, file, saver, alone>>
    BY DEF Start, Restart, NewInstance
  <1>2. instance' \in 0 .. Starts /\ instance' \in Instances /\ first' \in 1 .. Starts + 1
    BY <1>1 DEF Start, Restart, TypeOK, Instances
  <1>3. NewConfig \in Configs
    BY <1>1, <1>2 DEF NewConfig, Configs, Instances
  <1>4. running' /\ cfg' \in Configs /\ refused' \in BOOLEAN /\ lost' \in BOOLEAN /\ running' \in BOOLEAN
    <2>1. CASE Start
      BY <1>3, <2>1 DEF Start, ReadInConfig, TypeOK
    <2>2. CASE Restart
      <3>1. running
        BY <2>2 DEF Restart, TypeOK
      <3> QED
        BY <2>2, <3>1 DEF Restart, TypeOK
    <2> QED
      BY <2>1, <2>2
  <1> QED
    BY <1>1, <1>2, <1>4 DEF TypeOK

(* Writing and loading on a start, and what the user does, is typed.       *)
LEMMA PageTyped ==
    ASSUME TypeOK,
           \/ WriteConfig \/ WriteConfigFails \/ Load
           \/ \E n \in Limits : Edit(n)
           \/ SaveAndRestart
    PROVE  TypeOK'
  <1>1. CASE WriteConfig
    <2>1. /\ page' \in {<<>>, <<"restart">>, <<"load">>} /\ running
          /\ UNCHANGED <<running, instance, first, cfg, table, file, saver, history, refused,
                         alone, lost>>
      BY <1>1, PageTail DEF WriteConfig, TypeOK
    <2>2. config' \in Configs
      BY <1>1, <2>1 DEF WriteConfig, TypeOK
    <2> QED
      BY <2>1, <2>2 DEF TypeOK
  <1>2. CASE WriteConfigFails
    <2>1. /\ page' = <<>> /\ lost' = TRUE
          /\ UNCHANGED <<instance, first, cfg, config, table, file, history, refused>>
      BY <1>2, EndsTyped DEF WriteConfigFails
    <2>2. CASE Ends
      BY <2>1, <2>2, EndsTyped DEF TypeOK
    <2>3. CASE UNCHANGED <<running, saver, alone>>
      BY <2>1, <2>3 DEF TypeOK
    <2> QED
      BY <1>2, <2>2, <2>3 DEF WriteConfigFails
  <1>3. CASE Load
    <2>1. /\ UNCHANGED <<instance, first, cfg, config, file, history, lost>>
          /\ refused' = file.torn
      BY <1>3 DEF Load
    <2>2. CASE file.torn
      <3>1. Ends /\ UNCHANGED table
        BY <1>3, <2>2 DEF Load
      <3> QED
        BY <2>1, <2>2, <3>1, EndsTyped DEF TypeOK
    <2>3. CASE ~file.torn
      <3>1. /\ page' = <<>> /\ UNCHANGED <<running, saver, alone>>
            /\ table' = [table EXCEPT ![instance] =
                            IF file.data = Nothing THEN {} ELSE file.data]
        BY <1>3, <2>3 DEF Load
      <3>2. (IF file.data = Nothing THEN {} ELSE file.data) \in SUBSET Devices
        BY DEF TypeOK
      <3>3. table' \in [Instances -> SUBSET Devices]
        BY <3>1, <3>2 DEF TypeOK
      <3>4. refused' \in BOOLEAN
        BY <2>1 DEF TypeOK
      <3> QED
        BY <2>1, <3>1, <3>3, <3>4 DEF TypeOK
    <2> QED
      BY <2>2, <2>3
  <1>4. ASSUME NEW c \in Configs, NEW todo \in {<<"write">>, <<"write", "restart">>}, Saves(c, todo)
        PROVE  TypeOK'
    BY <1>4 DEF Saves, TypeOK
  <1>5. CASE \E n \in Limits : Edit(n)
    <2>1. PICK n \in Limits : Edit(n)
      BY <1>5
    <2>2. cfg \in Configs
      BY <2>1 DEF Edit, Saves, TypeOK
    <2>3. [cfg EXCEPT !.limit = n] \in Configs
      BY <2>2 DEF Configs
    <2> QED
      BY <1>4, <2>1, <2>3 DEF Edit
  <1>6. CASE SaveAndRestart
    <2>1. cfg \in Configs
      BY <1>6 DEF SaveAndRestart, Saves, TypeOK
    <2> QED
      BY <1>4, <1>6, <2>1 DEF SaveAndRestart
  <1> QED
    BY <1>1, <1>2, <1>3, <1>5, <1>6

(* The end of the process, and the history, are typed.                     *)
LEMMA EndTyped ==
    ASSUME TypeOK, ResetToDefault \/ Crash \/ AddClipboardToHistory
    PROVE  TypeOK'
  <1>1. CASE ResetToDefault
    <2>1. saver' \in [Instances \X Savers ->
                         [pc : {"idle", "changed", "marshalled", "truncated"},
                          data : SUBSET Devices]]
      BY <1>1 DEF ResetToDefault, TypeOK, Idle
    <2>2. file' \in [data : (SUBSET Devices) \cup {Nothing}, size : Nat, torn : BOOLEAN]
          /\ ~file'.torn
      BY <1>1 DEF ResetToDefault, NoFile
    <2>3. /\ config' = Nothing /\ lost' = TRUE /\ running' = FALSE /\ alone' = 0
          /\ page' = <<>>
          /\ UNCHANGED <<instance, first, cfg, table, history, refused>>
      BY <1>1 DEF ResetToDefault
    <2>4. alone' \in 0 .. Starts
      BY <2>3
    <2>5. cfg' \in Configs \cup {Nothing} /\ config' \in Configs \cup {Nothing}
      BY <2>3 DEF TypeOK
    <2> QED
      BY <2>1, <2>2, <2>3, <2>4, <2>5 DEF TypeOK
  <1>2. CASE Crash
    <2>1. Ends /\ lost' \in BOOLEAN
          /\ UNCHANGED <<instance, first, cfg, config, table, file, history, refused>>
      BY <1>2 DEF Crash, TypeOK
    <2> QED
      BY <2>1, EndsTyped DEF TypeOK
  <1>3. CASE AddClipboardToHistory
    <2>1. /\ history' \in Nat /\ lost' \in BOOLEAN
          /\ UNCHANGED <<instance, first, cfg, config, table, file, refused>>
      <3>1. UNCHANGED <<instance, first, cfg, config, table, file, refused>>
        BY <1>3 DEF AddClipboardToHistory
      <3>2. history' \in {history, history + 1} /\ lost' \in {lost, lost \/ config = Nothing}
        BY <1>3 DEF AddClipboardToHistory
      <3>3. (lost \/ config = Nothing) \in BOOLEAN
        OBVIOUS
      <3>4. history' \in Nat
        BY <3>2 DEF TypeOK
      <3>5. lost' \in BOOLEAN
        BY <3>2, <3>3 DEF TypeOK
      <3> QED
        BY <3>1, <3>4, <3>5
    <2>2. CASE Ends
      BY <2>1, <2>2, EndsTyped DEF TypeOK
    <2>3. CASE UNCHANGED <<running, page, saver, alone>>
      BY <2>1, <2>3 DEF TypeOK
    <2> QED
      BY <1>3, <2>2, <2>3 DEF AddClipboardToHistory
  <1> QED
    BY <1>1, <1>2, <1>3

(* A change of a device and the save of the table are typed.               *)
LEMMA SaveTyped ==
    ASSUME TypeOK, NEW x \in DOMAIN saver, Save(x) \/ \E d \in Devices : Change(x, d)
    PROVE  TypeOK'
  <1> DEFINE S == [pc : {"idle", "changed", "marshalled", "truncated"}, data : SUBSET Devices]
  <1>1. /\ DOMAIN saver = Instances \X Savers /\ saver \in [Instances \X Savers -> S]
        /\ saver[x] \in S /\ x[1] \in Instances /\ table[x[1]] \in SUBSET Devices
    BY DEF TypeOK
  <1>2. CASE \E d \in Devices : Change(x, d)
    <2>1. PICK d \in Devices : Change(x, d)
      BY <1>2
    <2>2. [saver[x] EXCEPT !.pc = "changed"] \in S
      BY <1>1
    <2>3. saver' \in [Instances \X Savers -> S]
      BY <1>1, <2>1, <2>2 DEF Change
    <2>4. table' \in [Instances -> SUBSET Devices]
      BY <1>1, <2>1 DEF Change, TypeOK
    <2>5. alone' \in 0 .. Starts
      BY <1>1, <2>1 DEF Change, Instances
    <2> QED
      BY <2>1, <2>3, <2>4, <2>5 DEF Change, TypeOK
  <1>3. CASE Marshal(x)
    <2>1. [pc |-> "marshalled", data |-> table[x[1]]] \in S
      BY <1>1
    <2>2. saver' \in [Instances \X Savers -> S]
      BY <1>1, <1>3, <2>1 DEF Marshal
    <2> QED
      BY <1>3, <2>2 DEF Marshal, TypeOK
  <1>4. CASE Truncate(x)
    <2>1. [saver[x] EXCEPT !.pc = "truncated"] \in S
      BY <1>1
    <2>2. saver' \in [Instances \X Savers -> S]
      BY <1>1, <1>4, <2>1 DEF Truncate
    <2>3. file' \in [data : (SUBSET Devices) \cup {Nothing}, size : Nat, torn : BOOLEAN]
          /\ ~file'.torn
      BY <1>4 DEF Truncate, NoFile
    <2> QED
      BY <1>4, <2>2, <2>3 DEF Truncate, TypeOK
  <1>5. CASE Write(x)
    <2>1. Idle \in S
      BY DEF Idle
    <2>2. saver' \in [Instances \X Savers -> S]
      BY <1>1, <1>5, <2>1 DEF Write
    <2>3. saver[x].data \in SUBSET Devices
      BY <1>1
    <2>4. Size(saver[x].data) \in Nat /\ Size(saver[x].data) > 1
      BY <2>3, SizeIsNat
    <2>5. file' \in {file, Part(saver[x].data), Over(file, saver[x].data)} /\ alone' \in 0 .. Starts
      BY <1>5 DEF Write, TypeOK
    <2>6. /\ Over(file, saver[x].data)
               \in [data : (SUBSET Devices) \cup {Nothing}, size : Nat, torn : BOOLEAN]
          /\ Over(file, saver[x].data).data = saver[x].data
          /\ Over(file, saver[x].data).torn => Over(file, saver[x].data).size # Size(saver[x].data)
      BY <2>3, <2>4 DEF Over, TypeOK
    <2>7. /\ Part(saver[x].data)
               \in [data : (SUBSET Devices) \cup {Nothing}, size : Nat, torn : BOOLEAN]
          /\ Part(saver[x].data).data = saver[x].data
          /\ Part(saver[x].data).size # Size(saver[x].data)
      BY <2>3, <2>4 DEF Part
    <2> QED
      BY <1>5, <2>2, <2>5, <2>6, <2>7 DEF Write, TypeOK
  <1> QED
    BY <1>2, <1>3, <1>4, <1>5 DEF Save

(* Every step keeps the types.                                             *)
LEMMA TypeStep == TypeOK /\ [Next]_vars => TypeOK'
  <1> SUFFICES ASSUME TypeOK, [Next]_vars PROVE TypeOK'
    OBVIOUS
  <1>1. CASE Start \/ Restart
    BY <1>1, StartTyped
  <1>2. CASE \/ WriteConfig \/ WriteConfigFails \/ Load
             \/ \E n \in Limits : Edit(n)
             \/ SaveAndRestart
    BY <1>2, PageTyped
  <1>3. CASE ResetToDefault \/ Crash \/ AddClipboardToHistory
    BY <1>3, EndTyped
  <1>4. CASE \E x \in DOMAIN saver : Save(x) \/ \E d \in Devices : Change(x, d)
    BY <1>4, SaveTyped
  <1>5. CASE UNCHANGED vars
    BY <1>5 DEF vars, TypeOK
  <1> QED
    BY <1>1, <1>2, <1>3, <1>4, <1>5 DEF Next

(* The process has not been started: nothing is kept.                      *)
LEMMA InitInv == Init => TypeOK /\ ConfigKept /\ LoneSave
  <1> SUFFICES ASSUME Init PROVE TypeOK /\ ConfigKept /\ LoneSave
    OBVIOUS
  <1>1. TypeOK
    <2>1. NoFile \in [data : (SUBSET Devices) \cup {Nothing}, size : Nat, torn : BOOLEAN]
          /\ ~NoFile.torn
      BY DEF NoFile
    <2>2. Idle \in [pc : {"idle", "changed", "marshalled", "truncated"}, data : SUBSET Devices]
      BY DEF Idle
    <2>3. saver \in [Instances \X Savers ->
                       [pc : {"idle", "changed", "marshalled", "truncated"},
                        data : SUBSET Devices]]
      BY <2>2 DEF Init
    <2>4. table \in [Instances -> SUBSET Devices]
      BY DEF Init
    <2>5. instance \in 0 .. Starts /\ first \in 1 .. Starts + 1 /\ alone \in 0 .. Starts
      BY DEF Init
    <2> QED
      BY <2>1, <2>3, <2>4, <2>5 DEF Init, TypeOK
  <1>2. ConfigKept /\ LoneSave
    BY DEF Init, ConfigKept, LoneSave
  <1> QED
    BY <1>1, <1>2

(* Every state is typed.                                                   *)
THEOREM TypeCorrect == Spec => []TypeOK
  BY InitInv, TypeStep, PTL DEF Spec

(* config.yaml holds nothing only while it is written or when it was lost. *)
LEMMA ConfigStep == TypeOK /\ ConfigKept /\ [Next]_vars => ConfigKept'
  <1> SUFFICES ASSUME TypeOK, ConfigKept, [Next]_vars PROVE ConfigKept'
    OBVIOUS
  <1>1. CASE Start \/ Restart
    <2>1. config' = Nothing /\ WillWrite' /\ running'
      <3>1. config' = Nothing /\ page' = <<"write", "load">>
        BY <1>1 DEF Start, Restart, NewInstance
      <3>2. running'
        <4>1. CASE Start
          BY <4>1 DEF Start
        <4>2. CASE Restart
          <5>1. page # <<>> /\ running' = running
            BY <4>2 DEF Restart
          <5> QED
            BY <5>1 DEF TypeOK
        <4> QED
          BY <1>1, <4>1, <4>2
      <3> QED
        BY <3>1, <3>2 DEF WillWrite
    <2> QED
      BY <2>1 DEF ConfigKept
  <1>2. CASE WriteConfig
    <2>1. running /\ cfg # Nothing
      BY <1>2 DEF WriteConfig, TypeOK, Configs, Instances
    <2> QED
      BY <1>2, <2>1 DEF WriteConfig, ConfigKept
  <1>3. CASE WriteConfigFails
    BY <1>3 DEF WriteConfigFails, ConfigKept
  <1>4. CASE Load
    <2>1. running /\ ~WillWrite
      <3>1. page = <<"load">> /\ running
        BY <1>4 DEF Load, TypeOK
      <3>2. /\ <<"load">> # <<"write">> /\ <<"load">> # <<"write", "restart">>
            /\ <<"load">> # <<"write", "load">>
        OBVIOUS
      <3> QED
        BY <3>1, <3>2 DEF WillWrite
    <2>2. UNCHANGED <<cfg, config, lost>>
      BY <1>4 DEF Load
    <2>3. lost \/ config # Nothing
      BY <2>1 DEF ConfigKept
    <2> QED
      BY <2>2, <2>3 DEF ConfigKept
  <1>5. CASE (\E n \in Limits : Edit(n)) \/ SaveAndRestart
    <2>1. config' = Nothing /\ running' = running /\ running
          /\ page' \in {<<"write">>, <<"write", "restart">>}
      BY <1>5 DEF Edit, SaveAndRestart, Saves
    <2> QED
      BY <2>1 DEF ConfigKept, WillWrite
  <1>6. CASE ResetToDefault
    BY <1>6 DEF ResetToDefault, ConfigKept
  <1>7. CASE Crash
    <2>1. running' = FALSE
      BY <1>7, EndsTyped DEF Crash
    <2> QED
      BY <1>7, <2>1 DEF Crash, ConfigKept
  <1>8. CASE AddClipboardToHistory
    <2>1. CASE Ends /\ lost' = (lost \/ config = Nothing)
      <3>1. running' = FALSE
        BY <2>1, EndsTyped
      <3> QED
        BY <1>8, <2>1, <3>1 DEF AddClipboardToHistory, ConfigKept
    <2>2. CASE UNCHANGED <<running, page, saver, alone, lost>>
      BY <1>8, <2>2 DEF AddClipboardToHistory, ConfigKept, WillWrite
    <2> QED
      BY <1>8, <2>1, <2>2 DEF AddClipboardToHistory
  <1>9. CASE \E x \in DOMAIN saver : Save(x) \/ \E d \in Devices : Change(x, d)
    <2>1. UNCHANGED <<running, page, cfg, config, lost>>
      BY <1>9 DEF Save, Marshal, Truncate, Write, Change
    <2> QED
      BY <2>1 DEF ConfigKept, WillWrite
  <1>10. CASE UNCHANGED vars
    BY <1>10 DEF vars, ConfigKept, WillWrite
  <1> QED
    BY <1>1, <1>2, <1>3, <1>4, <1>5, <1>6, <1>7, <1>8, <1>9, <1>10 DEF Next

(* A host keeps the identity that the other devices know over every start, *)
(* crash and change of its settings, unless config.yaml was lost           *)
(* (config.go:143).                                                        *)
THEOREM IdentityStays == Spec => IdentityKept
  <1>1. ASSUME TypeOK, ConfigKept, [Next]_vars
        PROVE  [cfg # Nothing /\ cfg' # Nothing /\ cfg'.id # cfg.id => lost]_vars
    <2> SUFFICES ASSUME cfg # Nothing, ~lost, ~UNCHANGED vars
                 PROVE  cfg'.id = cfg.id
      OBVIOUS
    <2>1. CASE Start
      <3>1. config # Nothing /\ config.id = cfg.id
        BY <1>1, <2>1 DEF Start, ConfigKept
      <3> QED
        BY <2>1, <3>1 DEF Start, ReadInConfig
    <2>2. CASE \E n \in Limits : Edit(n)
      <3>1. cfg \in Configs
        BY <1>1, <2>2 DEF Edit, Saves, TypeOK
      <3> QED
        BY <2>2, <3>1 DEF Edit, Saves, Configs
    <2>3. CASE \/ Restart \/ WriteConfig \/ WriteConfigFails \/ Load
               \/ SaveAndRestart \/ ResetToDefault \/ Crash \/ AddClipboardToHistory
      BY <2>3 DEF Restart, WriteConfig, WriteConfigFails, Load, SaveAndRestart, Saves,
                  ResetToDefault, Crash, AddClipboardToHistory
    <2>4. CASE \E x \in DOMAIN saver : Save(x) \/ \E d \in Devices : Change(x, d)
      BY <2>4 DEF Save, Marshal, Truncate, Write, Change
    <2> QED
      BY <1>1, <2>1, <2>2, <2>3, <2>4 DEF Next
  <1> QED
    BY <1>1, InitInv, TypeStep, ConfigStep, PTL DEF Spec, IdentityKept

(* The process ends: a save that was alone is over, or was interrupted.    *)
LEMMA LoneEnds ==
    ASSUME TypeOK, LoneSave, Ends, UNCHANGED <<instance, table, file>>
    PROVE  LoneSave'
  <1>1. page' = <<>> /\ \A x \in DOMAIN saver' : saver'[x].pc = "idle"
    BY EndsTyped
  <1>2. ~WillLoad'
    BY <1>1 DEF WillLoad
  <1>3. alone' # 0 => alone' = alone /\ \A x \in DOMAIN saver : saver[x].pc = "idle"
    BY DEF Ends
  <1> QED
    BY <1>1, <1>2, <1>3 DEF LoneSave

(* The page goes on without touching the table, the file and the savers.   *)
LEMMA LonePage ==
    ASSUME LoneSave, UNCHANGED <<instance, table, file, saver, alone>>, WillLoad' => WillLoad
    PROVE  LoneSave'
  BY DEF LoneSave

(* A goroutine changes a device and saves the table of its instance.       *)
LEMMA LoneSaver ==
    ASSUME TypeOK, LoneSave, NEW x \in DOMAIN saver, Save(x) \/ \E d \in Devices : Change(x, d)
    PROVE  LoneSave'
  <1> DEFINE S == [pc : {"idle", "changed", "marshalled", "truncated"}, data : SUBSET Devices]
  <1>1. /\ DOMAIN saver = Instances \X Savers /\ saver \in [Instances \X Savers -> S]
        /\ saver[x] \in S /\ x[1] \in Instances /\ table[x[1]] \in SUBSET Devices
    BY DEF TypeOK
  <1>2. UNCHANGED <<instance, page>>
    BY DEF Save, Marshal, Truncate, Write, Change
  <1>3. WillLoad' = WillLoad
    BY <1>2 DEF WillLoad
  <1>4. SUFFICES ASSUME alone' # 0 PROVE LoneSave'
    BY DEF LoneSave
  <1>5. CASE \E d \in Devices : Change(x, d)
    <2>1. PICK d \in Devices : Change(x, d)
      BY <1>5
    <2>2. (\A y \in DOMAIN saver : saver[y].pc = "idle") /\ alone' = x[1] /\ file' = file
      BY <1>4, <2>1 DEF Change
    <2>3. x[1] \in 1 .. instance
      BY <1>1, <2>1 DEF Change, Process, TypeOK
    <2>4. WillLoad => x[1] # instance
      <3>1. /\ <<"write", "load">> \notin {<<>>, <<"write">>, <<"write", "restart">>, <<"restart">>}
            /\ <<"load">> \notin {<<>>, <<"write">>, <<"write", "restart">>, <<"restart">>}
        OBVIOUS
      <3> QED
        BY <2>1, <3>1 DEF Change, WillLoad
    <2>5. saver' = [saver EXCEPT ![x] = [saver[x] EXCEPT !.pc = "changed"]]
      BY <2>1 DEF Change
    <2>6. [saver[x] EXCEPT !.pc = "changed"].pc = "changed"
      BY <1>1
    <2>7. /\ DOMAIN saver' = DOMAIN saver /\ saver'[x].pc = "changed"
          /\ \A y \in DOMAIN saver : y # x => saver'[y].pc = "idle"
      BY <1>1, <2>2, <2>5, <2>6
    <2> QED
      BY <1>2, <1>3, <2>2, <2>3, <2>4, <2>7 DEF LoneSave
  <1>6. CASE Save(x)
    <2>1. saver[x].pc # "idle" /\ table' = table
      BY <1>6 DEF Save, Marshal, Truncate, Write
    <2>2. alone' = alone
      BY <1>4, <1>6 DEF Save, Marshal, Truncate, Write
    <2>3. /\ x[1] = alone /\ alone \in 1 .. instance /\ (WillLoad => alone # instance)
          /\ \A y \in DOMAIN saver : saver[y].pc # "idle" => y = x
          /\ saver[x].pc \in {"marshalled", "truncated"} => saver[x].data = table[alone]
          /\ saver[x].pc = "truncated" => file = NoFile
      BY <1>4, <2>1, <2>2 DEF LoneSave
    <2>4. CASE Marshal(x)
      <3>1. /\ saver' = [saver EXCEPT ![x] = [pc |-> "marshalled", data |-> table[alone]]]
            /\ file' = file
        BY <2>3, <2>4 DEF Marshal
      <3>2. /\ DOMAIN saver' = DOMAIN saver
            /\ saver'[x].pc = "marshalled" /\ saver'[x].data = table[alone]
            /\ \A y \in DOMAIN saver : y # x => saver'[y].pc = "idle"
        BY <1>1, <2>3, <3>1
      <3> QED
        BY <1>2, <1>3, <2>1, <2>2, <2>3, <3>2 DEF LoneSave
    <2>5. CASE Truncate(x)
      <3>1. /\ saver' = [saver EXCEPT ![x] = [saver[x] EXCEPT !.pc = "truncated"]]
            /\ file' = NoFile /\ saver[x].pc = "marshalled"
        BY <2>5 DEF Truncate
      <3>2. /\ [saver[x] EXCEPT !.pc = "truncated"].pc = "truncated"
            /\ [saver[x] EXCEPT !.pc = "truncated"].data = saver[x].data
        BY <1>1
      <3>3. /\ DOMAIN saver' = DOMAIN saver
            /\ saver'[x].pc = "truncated" /\ saver'[x].data = table[alone]
            /\ \A y \in DOMAIN saver : y # x => saver'[y].pc = "idle"
        BY <1>1, <2>3, <3>1, <3>2
      <3> QED
        BY <1>2, <1>3, <2>1, <2>2, <2>3, <3>1, <3>3 DEF LoneSave, NoFile
    <2>6. CASE Write(x)
      <3>1. saver' = [saver EXCEPT ![x] = Idle] /\ file' = Over(file, saver[x].data)
            /\ file = NoFile /\ saver[x].data = table[alone]
        BY <1>4, <2>3, <2>6 DEF Write
      <3>2. saver[x].data \in SUBSET Devices
        BY <1>1
      <3>3. Size(saver[x].data) \in Nat
        BY <3>2, SizeIsNat
      <3>4. file'.data = table[alone] /\ ~file'.torn
        <4>1. file.size = 0
          BY <3>1 DEF NoFile
        <4>2. file' = [data |-> saver[x].data, size |-> Size(saver[x].data), torn |-> FALSE]
          BY <3>1, <3>3, <4>1 DEF Over
        <4> QED
          BY <3>1, <4>2
      <3>5. DOMAIN saver' = DOMAIN saver /\ \A y \in DOMAIN saver : saver'[y].pc = "idle"
        BY <1>1, <2>3, <3>1 DEF Idle
      <3> QED
        BY <1>2, <1>3, <2>1, <2>2, <2>3, <3>4, <3>5 DEF LoneSave
    <2> QED
      BY <1>6, <2>4, <2>5, <2>6 DEF Save
  <1> QED
    BY <1>5, <1>6

(* A save that is alone stays so, or is forgotten.                         *)
LEMMA LoneStep == TypeOK /\ LoneSave /\ [Next]_vars => LoneSave'
  <1> SUFFICES ASSUME TypeOK, LoneSave, [Next]_vars PROVE LoneSave'
    OBVIOUS
  <1>1. CASE Start \/ Restart
    <2>1. instance' = instance + 1 /\ UNCHANGED <<table, file, saver, alone>>
      BY <1>1 DEF Start, Restart, NewInstance
    <2>2. alone # 0 => alone \in 1 .. instance' /\ alone # instance'
      BY <2>1 DEF LoneSave, TypeOK
    <2> QED
      BY <2>1, <2>2 DEF LoneSave
  <1>2. CASE WriteConfig
    <2>1. WillLoad' => WillLoad
      <3>1. page' = Tail(page) /\ Tail(page) \in {<<>>, <<"restart">>, <<"load">>}
            /\ (Tail(page) = <<"load">> => WillLoad)
        BY <1>2, PageTail DEF WriteConfig
      <3>2. /\ <<>> \notin {<<"write", "load">>, <<"load">>}
            /\ <<"restart">> \notin {<<"write", "load">>, <<"load">>}
        OBVIOUS
      <3> QED
        BY <3>1, <3>2 DEF WillLoad
    <2> QED
      BY <1>2, <2>1, LonePage DEF WriteConfig
  <1>3. CASE WriteConfigFails
    <2>1. CASE Ends
      BY <1>3, <2>1, LoneEnds DEF WriteConfigFails
    <2>2. CASE page' = <<>> /\ UNCHANGED <<running, saver, alone>>
      <3>1. ~WillLoad'
        BY <2>2 DEF WillLoad
      <3> QED
        BY <1>3, <2>2, <3>1, LonePage DEF WriteConfigFails
    <2> QED
      BY <1>3, <2>1, <2>2 DEF WriteConfigFails
  <1>4. CASE Load
    <2>1. CASE file.torn
      BY <1>4, <2>1, LoneEnds DEF Load
    <2>2. CASE ~file.torn
      <3>1. /\ page' = <<>> /\ UNCHANGED <<instance, file, saver, alone>> /\ WillLoad
            /\ table' = [table EXCEPT ![instance] =
                            IF file.data = Nothing THEN {} ELSE file.data]
        BY <1>4, <2>2 DEF Load, WillLoad
      <3>2. ~WillLoad'
        BY <3>1 DEF WillLoad
      <3>3. alone # 0 => table'[alone] = table[alone]
        BY <3>1 DEF LoneSave, TypeOK, Instances
      <3> QED
        BY <3>1, <3>2, <3>3 DEF LoneSave
    <2> QED
      BY <2>1, <2>2
  <1>5. CASE (\E n \in Limits : Edit(n)) \/ SaveAndRestart
    <2>1. /\ page' \in {<<"write">>, <<"write", "restart">>}
          /\ UNCHANGED <<instance, table, file, saver, alone>>
      BY <1>5 DEF Edit, SaveAndRestart, Saves
    <2>2. /\ <<"write">> \notin {<<"write", "load">>, <<"load">>}
          /\ <<"write", "restart">> \notin {<<"write", "load">>, <<"load">>}
      OBVIOUS
    <2>3. ~WillLoad'
      BY <2>1, <2>2 DEF WillLoad
    <2> QED
      BY <2>1, <2>3, LonePage
  <1>6. CASE ResetToDefault
    BY <1>6 DEF ResetToDefault, LoneSave
  <1>7. CASE Crash
    BY <1>7, LoneEnds DEF Crash
  <1>8. CASE AddClipboardToHistory
    <2>1. CASE Ends
      BY <1>8, <2>1, LoneEnds DEF AddClipboardToHistory
    <2>2. CASE UNCHANGED <<running, page, saver, alone, lost>>
      BY <1>8, <2>2, LonePage DEF AddClipboardToHistory, WillLoad
    <2> QED
      BY <1>8, <2>1, <2>2 DEF AddClipboardToHistory
  <1>9. CASE \E x \in DOMAIN saver : Save(x) \/ \E d \in Devices : Change(x, d)
    BY <1>9, LoneSaver
  <1>10. CASE UNCHANGED vars
    BY <1>10, LonePage DEF vars, WillLoad
  <1> QED
    BY <1>1, <1>2, <1>3, <1>4, <1>5, <1>6, <1>7, <1>8, <1>9, <1>10 DEF Next

(* Whatever crashes, failed writes and overlapping saves had left in       *)
(* devices.json, a save that runs alone to its end leaves the table of its *)
(* instance there (serialize.go:34).                                       *)
THEOREM LoneSaveRepairs == Spec => []SaveRepairs
  <1>1. LoneSave => SaveRepairs
    BY DEF LoneSave, SaveRepairs
  <1> QED
    BY <1>1, InitInv, TypeStep, LoneStep, PTL DEF Spec
=============================================================================
