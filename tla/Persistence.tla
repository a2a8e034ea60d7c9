---------------------------- MODULE Persistence ----------------------------
(***************************************************************************)
(* What a host keeps from one start to the next: config.yaml, with the     *)
(* identity of the host and its settings, and devices.json, the table of   *)
(* devices.  A file is written by truncating it and writing it anew; the   *)
(* process may be killed in between.  config.yaml is written by the user   *)
(* interface alone, devices.json by any goroutine that has changed a       *)
(* device, also by those of an instance that the user interface has        *)
(* replaced by a new one in the same process.                              *)
(***************************************************************************)
EXTENDS Naturals, Sequences, FiniteSets

CONSTANTS
    Devices,    \* devices with a name
    Savers,     \* goroutines of an instance that change devices
    Limits,     \* what users enter for max_history
    Default,    \* its default
    Starts,     \* how often an instance is started (bounds the model)
    Nothing     \* no data

ASSUME PersistenceAssumption ==
    /\ Limits \subseteq Nat /\ Default \in Nat \ {0} /\ Starts \in Nat
    /\ IsFiniteSet(Devices)
    /\ \A c \in [id : 1 .. Starts, limit : Limits \cup {Default}] : c # Nothing

VARIABLES
    running,    \* the process is running
    instance,   \* instances started so far; the newest is the one in use
    first,      \* the first instance of this process
    cfg,        \* the Config in memory
    config,     \* config.yaml
    page,       \* what the goroutine of the user interface has still to do
    table,      \* Devices of each instance
    file,       \* devices.json
    saver,      \* the goroutines of each instance
    history,    \* the length of ClipboardsHistory
    refused,    \* the last start ended with a fatal error
    alone,      \* history variable: the instance whose save was the last and ran
                \* alone to its end, or 0
    lost        \* history variable: config.yaml was lost since the last start

vars == <<running, instance, first, cfg, config, page, table, file, saver, history,
          refused, alone, lost>>

Instances == 1 .. Starts
Process == first .. instance        \* the instances of the running process

(* A file holds nothing (it does not exist or is empty) or data; data that *)
(* was written over longer data, or in part only, is torn.                 *)
NoFile == [data |-> Nothing, size |-> 0, torn |-> FALSE]
Size(t) == Cardinality(t) + 2
Over(old, t) ==
    IF old.size <= Size(t) THEN [data |-> t, size |-> Size(t), torn |-> FALSE]
    ELSE [data |-> t, size |-> old.size, torn |-> TRUE]
Part(t) == [data |-> t, size |-> 1, torn |-> TRUE]

Configs == [id : Instances, limit : Limits \cup {Default}]
Idle == [pc |-> "idle", data |-> {}]

TypeOK ==
    /\ running \in BOOLEAN /\ refused \in BOOLEAN /\ alone \in 0 .. Starts /\ lost \in BOOLEAN
    /\ instance \in 0 .. Starts /\ first \in 1 .. Starts + 1
    /\ cfg \in Configs \cup {Nothing} /\ config \in Configs \cup {Nothing}
    /\ (running => cfg \in Configs) /\ (page # <<>> => running)
    /\ page \in {<<>>, <<"write">>, <<"write", "restart">>, <<"restart">>, <<"write", "load">>, <<"load">>}
    /\ table \in [Instances -> SUBSET Devices]
    /\ file \in [data : (SUBSET Devices) \cup {Nothing}, size : Nat, torn : BOOLEAN]
    /\ file.torn => file.size # Size(file.data)
    /\ saver \in [Instances \X Savers -> [pc : {"idle", "changed", "marshalled", "truncated"},
                                          data : SUBSET Devices]]
    /\ history \in Nat

Init ==
    /\ running = FALSE /\ instance = 0 /\ first = 1
    /\ cfg = Nothing /\ config = Nothing /\ page = <<>>
    /\ table = [i \in Instances |-> {}]
    /\ file = NoFile
    /\ saver = [x \in Instances \X Savers |-> Idle]
    /\ history = 0
    /\ refused = FALSE /\ alone = 0 /\ lost = FALSE
-----------------------------------------------------------------------------
(* LoadConfig.  A start of the process reads config.yaml, or makes a new   *)
(* identity if it holds nothing; a new instance in the same process gets   *)
(* what was saved last, which viper keeps.  Then config.yaml is written.   *)
(* A file that was written in part is no YAML, and the host does not start *)
(* again (config.go:130-135): it stays as it is, which needs no step.      *)
NewConfig == [id |-> instance + 1, limit |-> Default]

(* A variant that makes a new identity on every start.                     *)
ReadNothing == NewConfig

(* A variant that takes an empty file for the settings.                    *)
ReadAsIs == config

ReadInConfig == IF config = Nothing THEN NewConfig ELSE config

NewInstance ==
    /\ instance < Starts
    /\ instance' = instance + 1
    /\ page' = <<"write", "load">>
    /\ config' = Nothing
    /\ history' = 0
    /\ UNCHANGED <<table, file, saver, alone>>

Start ==
    /\ ~running
    /\ NewInstance
    /\ running' = TRUE
    /\ first' = instance'
    /\ cfg' = ReadInConfig
    /\ refused' = FALSE
    /\ lost' = FALSE

Restart ==
    /\ page = <<"restart">>
    /\ NewInstance
    /\ UNCHANGED <<running, first, cfg, refused, lost>>

(* The process ends: it is stopped or killed, at any point, or panics.     *)
Ends ==
    /\ running' = FALSE
    /\ page' = <<>>
    /\ saver' = [x \in DOMAIN saver |-> Idle]
    /\ alone' = IF \A x \in DOMAIN saver : saver[x].pc = "idle" THEN alone ELSE 0

(* The rest of WriteConfig, which began by truncating the file.  If it     *)
(* fails, a start ends, and a user is told that the settings are not saved.*)
WriteConfig ==
    /\ page # <<>> /\ Head(page) = "write"
    /\ config' = cfg
    /\ page' = Tail(page)
    /\ UNCHANGED <<running, instance, first, cfg, table, file, saver, history, refused, alone, lost>>

WriteConfigFails ==
    /\ page # <<>> /\ Head(page) = "write"
    /\ lost' = TRUE
    /\ IF page = <<"write", "load">>
       THEN Ends
       ELSE page' = <<>> /\ UNCHANGED <<running, saver, alone>>
    /\ UNCHANGED <<instance, first, cfg, config, table, file, history, refused>>

(* Load.  A file that is torn ends the process with a fatal error; one     *)
(* that holds nothing is no table.                                         *)
Load ==
    /\ page = <<"load">>
    /\ refused' = file.torn
    /\ IF file.torn
       THEN Ends /\ UNCHANGED table
       ELSE /\ page' = <<>>
            /\ table' = [table EXCEPT ![instance] =
                   IF file.data = Nothing THEN {} ELSE file.data]
            /\ UNCHANGED <<running, saver, alone>>
    /\ UNCHANGED <<instance, first, cfg, config, file, history, lost>>
-----------------------------------------------------------------------------
(* A goroutine adds or removes a device of its instance, and goes on to    *)
(* save the table as it is by then.                                        *)
Change(x, d) ==
    /\ running /\ x[1] \in Process /\ saver[x].pc = "idle"
    /\ x[1] = instance => page \in {<<>>, <<"write">>, <<"write", "restart">>, <<"restart">>}
    /\ table' = [table EXCEPT ![x[1]] = IF d \in @ THEN @ \ {d} ELSE @ \cup {d}]
    /\ saver' = [saver EXCEPT ![x].pc = "changed"]
    /\ alone' = IF \A y \in DOMAIN saver : saver[y].pc = "idle" THEN x[1] ELSE 0
    /\ UNCHANGED <<running, instance, first, cfg, config, page, file, history, refused, lost>>

Marshal(x) ==
    /\ saver[x].pc = "changed"
    /\ saver' = [saver EXCEPT ![x] = [pc |-> "marshalled", data |-> table[x[1]]]]
    /\ UNCHANGED <<running, instance, first, cfg, config, page, table, file, history,
                   refused, alone, lost>>

(* A variant that leaves what the file holds.                              *)
OpenOnly(x) ==
    /\ saver[x].pc = "marshalled"
    /\ saver' = [saver EXCEPT ![x].pc = "truncated"]
    /\ UNCHANGED <<running, instance, first, cfg, config, page, table, file, history,
                   refused, alone, lost>>

(* os.WriteFile truncates the file and then writes it.  The write may fail *)
(* half way or altogether, and nobody looks at its error.                  *)
Truncate(x) ==
    /\ saver[x].pc = "marshalled"
    /\ saver' = [saver EXCEPT ![x].pc = "truncated"]
    /\ file' = NoFile
    /\ UNCHANGED <<running, instance, first, cfg, config, page, table, history,
                   refused, alone, lost>>

Write(x) ==
    /\ saver[x].pc = "truncated"
    /\ saver' = [saver EXCEPT ![x] = Idle]
    /\ \/ file' = Over(file, saver[x].data) /\ UNCHANGED alone
       \/ file' \in {file, Part(saver[x].data)} /\ alone' = 0
    /\ UNCHANGED <<running, instance, first, cfg, config, page, table, history, refused, lost>>
-----------------------------------------------------------------------------
(* A user edits the length of the history on the settings page, which      *)
(* takes effect at once and is saved; or saves and restarts; or resets all *)
(* settings and exits.                                                     *)
Saves(c, todo) ==
    /\ running /\ page = <<>>
    /\ cfg' = c
    /\ config' = Nothing
    /\ page' = todo
    /\ UNCHANGED <<running, instance, first, table, file, saver, history, refused, alone, lost>>

Edit(n) == Saves([cfg EXCEPT !.limit = n], <<"write">>)
SaveAndRestart == Saves(cfg, <<"write", "restart">>)

ResetToDefault ==
    /\ running /\ page = <<>>
    /\ config' = Nothing
    /\ file' = NoFile
    /\ lost' = TRUE
    /\ running' = FALSE
    /\ saver' = [x \in DOMAIN saver |-> Idle]
    /\ alone' = 0
    /\ UNCHANGED <<instance, first, cfg, page, table, history, refused>>

Crash ==
    /\ running
    /\ Ends
    /\ lost' = (lost \/ config = Nothing)
    /\ UNCHANGED <<instance, first, cfg, config, table, file, history, refused>>

(* limitAppend: no room for another entry, so that one is dropped for it,  *)
(* and a limit that was lowered is not reached; slice[1:] of an empty      *)
(* history panics.                                                         *)
Full(limit) == history >= limit

AddClipboardToHistory ==
    /\ running /\ page \in {<<>>, <<"write">>}
    /\ IF Full(cfg.limit) /\ history = 0
       THEN Ends /\ lost' = (lost \/ config = Nothing) /\ UNCHANGED history
       ELSE /\ history' = IF Full(cfg.limit) THEN history ELSE history + 1
            /\ UNCHANGED <<running, page, saver, alone, lost>>
    /\ UNCHANGED <<instance, first, cfg, config, table, file, refused>>
-----------------------------------------------------------------------------
Save(x) == Marshal(x) \/ Truncate(x) \/ Write(x)

Next ==
    \/ Start \/ Restart \/ WriteConfig \/ WriteConfigFails \/ Load
    \/ \E x \in DOMAIN saver : Save(x) \/ \E d \in Devices : Change(x, d)
    \/ \E n \in Limits : Edit(n)
    \/ SaveAndRestart \/ ResetToDefault \/ Crash \/ AddClipboardToHistory

Spec == Init /\ [][Next]_vars
-----------------------------------------------------------------------------
(* What the proofs rest on.  While the process runs, config.yaml holds     *)
(* nothing only if it is yet to be written or was lost; otherwise it holds *)
(* what is in memory.                                                      *)
WillWrite == page \in {<<"write">>, <<"write", "restart">>, <<"write", "load">>}
WillLoad == page \in {<<"write", "load">>, <<"load">>}

ConfigKept ==
    /\ config # Nothing /\ cfg # Nothing => config.id = cfg.id
    /\ running /\ ~lost /\ config = Nothing => WillWrite
    /\ ~running /\ ~lost /\ cfg # Nothing => config # Nothing

(* As long as no other goroutine has saved since, the one that saves alone *)
(* has, or is about to write, the table of its instance, into no file.     *)
LoneSave ==
    alone # 0 =>
        /\ alone \in 1 .. instance
        /\ WillLoad => alone # instance
        /\ \A x \in DOMAIN saver : saver[x].pc # "idle" =>
              /\ x[1] = alone
              /\ \A y \in DOMAIN saver : saver[y].pc # "idle" => y = x
              /\ saver[x].pc \in {"marshalled", "truncated"} => saver[x].data = table[alone]
              /\ saver[x].pc = "truncated" => file = NoFile
        /\ (\A x \in DOMAIN saver : saver[x].pc = "idle") =>
              file.data = table[alone] /\ ~file.torn

(* The identity that the other devices know changes only if config.yaml    *)
(* was lost: in a reset, or because a write of it was cut short, as one of *)
(* every start may be (config.go:143).                                     *)
IdentityKept == [][cfg # Nothing /\ cfg' # Nothing /\ cfg'.id # cfg.id => lost]_vars

(* A save that runs alone to its end leaves the table that its instance    *)
(* has, whatever overlapping, interrupted or failed saves had left in the  *)
(* file before (serialize.go:34).                                          *)
SaveRepairs ==
    alone # 0 /\ (\A x \in DOMAIN saver : saver[x].pc = "idle") =>
        file.data = table[alone] /\ ~file.torn

(* The claim of a comment that what an aborted write leaves in the file    *)
(* does not keep the program from starting (serialize.go:58-60).           *)
StartsAgain == ~refused
=============================================================================
