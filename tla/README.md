# A TLA+ model of cross-clipboard

cross-clipboard shares the clipboard, and copied files, between the computers of
a local network. Every host runs the same program: it finds its peers with mDNS,
opens one libp2p stream to each, exchanges device data (name, OS, PGP key), asks
the user whether to trust the peer, and from then on sends what is copied. Files
travel over a stream of their own. This directory models its concurrent core and
what it keeps on the disk, checks the models with TLC and proves the safety of
most of them with TLAPS.

## The system

| Component | Source | State it keeps | Operations |
|---|---|---|---|
| Device, device manager | `pkg/device`, `pkg/devicemanager` | `Devices` (map, no lock), status, key, encrypter, stream of each Device, `devices.json` | AddDevice, UpdateDevice, Save, Load, Trust, Block |
| Stream handler | `pkg/stream/stream.go` | – | HandleStream (inbound stream) |
| Reader | `pkg/stream/reader.go` | one goroutine per stream | greet, receive device data / clipboard / signal, end, close |
| Writer | `pkg/stream/writer.go` | one goroutine | sendClipboard to every device |
| Discovery loop | `pkg/crossclipboard/crossclipboard.go` | the peer in hand, the entry it read | wait, dial, open a stream, update, start a reader |
| Terminal UI | `ui/` | the prompt on the screen, a goroutine per page | redraw on DevicesUpdated, trust, block, drain progress, restart |
| Terminal mode | `main.go` | – | one select loop instead of the UI |
| File transfer | `pkg/filetransfer`, `pkg/crossclipboard/filetransfer.go` | the two goroutines, the destination file, `FileProgressChan` | SendFile, ReceiveFile, handleFileStream |
| File clipboard | `pkg/crossclipboard/fileclipboard.go`, `pkg/clipboardfile` | recent self-set paths | watch, filter, send to the first device, paste |
| Clipboard manager | `pkg/clipboard` | history, last received clipboard, file window | write, add to history, loop guard |
| System clipboard | `pkg/xclipboard` | a lock; on X11 a daemon per write | Read, Write, Watch |
| Config, settings page | `pkg/config`, `ui/setting_page.go` | `config.yaml`: identity, settings | load, save, reset, save and restart |
| Framing, crypto, protobuf, errors | `pkg/stream/{io,encode,decode}.go`, `pkg/crypto`, `pkg/protobuf`, `pkg/xerror` | – | pure conversions and calls of libraries |

How they interact. Readers, the stream handler, the discovery loop, the writer
and the UI all hold pointers to the same `Device` objects and call
`UpdateDevice`, which writes the map, sends on the unbuffered `DevicesUpdated`
(so it waits for the UI) and then saves. libp2p calls the stream handlers on
goroutines of its own. Every log line is a send on an unbuffered channel that the
UI empties. The file transfer uses the table only to admit a peer.

What is hard here: no lock protects the table or the Devices, so anything read
before a channel send or a network call may be stale after it (`Discover` then
`OpenStream`, the prompt, the old stream's reader); the disk is written after a
blocking send; a restart turns what was saved into trusted devices; a transfer
ends in many ways on each side, and the sides learn of each other only through
the stream; nearly every channel is unbuffered, so that a log line waits for the
user interface; what is received is put on the clipboard, where the host's own
watchers find it a second later; files are truncated before they are written.
`PROJECT.json` lists the hazards by line, with the properties that cover them or
the reason why none does.

What makes each component correct:

- device table: entries stand under their peer's ID, a live entry is not
  dropped, a connected device has an encrypter, was accepted, and has a reader;
  a save that meets no other leaves the table on the disk; only the user blocks;
  every update returns;
- file transfer: stop-and-wait, acknowledged bytes are written, the two ends
  agree, a refused transfer touches nothing, only whole files are pasted, both
  ends finish;
- the goroutines of a host: startup ends, whoever sends goes on;
- clipboard synchronisation: a copy reaches every host and stays, nothing returns
  to its origin, the histories follow, traffic ends;
- file clipboard: a received file is sent back, and a copied one sent again, only
  after a poll of the clipboard has failed; the suppression of text ends;
- persistence: a save repairs what earlier ones left, the identity is kept;
- X11 clipboard: what was written is served, calls return, daemons end.

## Modules

### DeviceLifecycle

One host. A step is what a goroutine does between two points where it can block.

| Model | Code |
|---|---|
| `device[o]`, `table`, `disk` | the `Device` objects, `dm.Devices`, `devices.json` |
| `reader[s]` | `CreateReadData` for the stream `s`; `src` is the stream its `bufio.Reader` wraps, which differs from `s` when the entry changed during `UpdateDevice` |
| `update[g]` | where goroutine `g` is in UpdateDevice/AddDevice: `insert` is before the map write, `notify`, `added` wait on DevicesUpdated, `save`, `open`, `write` are before the three steps of Save |
| `saving[g]`, `torn` | what `g` has marshalled in Save; whether `devices.json` is not JSON |
| `discovery` | the local variables of the discovery loop |
| `writer`, `prompt` | the Device sendClipboard has in hand; the Device of the modal on the screen |
| `trusted`, `restarts`, `alone` | history variables: which peers were accepted, how often the process restarted, whether the last save has met no other and has not failed |
| `InboundKnown`, `InboundNew` | `HandleStream` |
| `Discover`, `DialFails`, `OpenStream`, `Spawn` | the discovery loop |
| `Greet`, `SendDeviceDataFails`, `ReceiveDeviceData`, `ReceiveAndTrust`, `InsertTrusted`, `ReaderEnds`, `ReaderCloses` | `CreateReadData` |
| `WriterPicks`, `WriteDone`, `WriteFails` | `sendClipboard` |
| `Notify` | the UI's receive and redraw |
| `Marshal`, `Truncate`, `Write`, `SaveFails` | `Save`: marshal, then `os.WriteFile`, which empties the file and writes it, or fails at either point; nobody looks at its error (`devicemanager.go:64`) |
| `UserTrusts`, `UserBlocks` | the buttons of the prompt |
| `Restart` | the end of the process at any point, then `Load` |

Abstractions: a key is a model value that makes an encrypter or does not; name
and OS are one value, `Identity[p]`; a peer may be dialled at any time because
links come and go at any time (the comparison of peer IDs and the waiting only
make dials rarer); a stream that was closed is not told from no stream. The disk
keeps what Load looks at: whether the record is blocked, and its key. Saves of
several goroutines overlap in any order, since no lock is held; the file of one that
was written into that of another, or was cut short, is `torn`, and a start that finds
such a file ends (`Restart` waits; `Persistence` has the refused start). Where the
code updates a Device before it blocks on LogChan and calls UpdateDevice only
after it, the step is split (`ReceiveAndTrust`, `InsertTrusted`); the log sends
that come before any change are not steps of their own.

`MCDeviceLifecycle` gives instances.

### FileTransfer and FileDelivery

One file, one stream, two hosts. `snd` and `rcv` are the goroutines of
`sendFileToPeerStream`/`SendFile` and `handleFileStream`/`ReceiveFile`; `toRecv`
and `toSend` are the directions of the stream; `closed` and `up` say which end
has closed and whether the link stands; `progress` is the fill of each host's
`FileProgressChan`, which may hold the reports of earlier transfers at the start.
The contents of files are sequences of bytes, so that prefixes, short last chunks
and files that change are real. Encryption is reduced to two questions: does the
wrapped key fit, does a chunk decrypt. The 200 ms timer of the progress reports
is a choice (`tick`).

`FileDelivery` is the promise: the copy grows by whole prefixes of the file, and
neither side reports success before it is whole. `Delivers` says FileTransfer
implements it (copy = what the open destination holds), fairness included.

`MCFileTransfer` gives instances.

### HostLoops

One host: who waits for whom. `todo[g]` is what goroutine `g` has still to send;
it waits at the head until a receiver takes it. What a goroutine does between two
points where it waits for the outside is one of its scripts (`ReaderScripts`,
`WriterScripts`, ...), every path through its code with the sends in order.

| Model | Code |
|---|---|
| `main` | the goroutine of `main`: startup, the loop of terminal mode, the UI goroutine, the prompt, `Stop` |
| `discovery` | the goroutine of `NewCrossClipboard` and `discoveryLoop`: load, set up, select, wait, dial, open |
| `prompt`, `pending` | a prompt on the screen; a Device that waits for the user |
| `redraw`, `progress` | the clipboard table waits for `QueueUpdateDraw`; the fill of `FileProgressChan` |
| `TakeMessage`, `TakeUpdate`, `TakeHistory`, `TakeReport` | the receives of `main.go:41-57`, `log_page.go`, `device.go`, `clipboard.go` |
| `FoundPeer`, `TakeStop` | the receives of the discovery loop |
| `Answer`, `SettingsFail`, `Stop`, `Quit` | what the user does |

Log and error lines share their receivers and are one kind of send; a fatal one
ends the process. Drawing before `View.Start` has made the application crashes it
(`log_page.go:15`), which is an end of the process here. After a restart from the
settings page (`view.go:83-98`) the goroutines of the old host stay in the process and
may wait for ever on channels that nobody receives from; the module goes on with the
new host and no longer speaks of them.

### ClipboardSync and SharedClipboard

Several hosts whose devices are connected. `clip` is the system clipboard, `seen`
what each watcher handed over last (on Windows: the sequence number), `queue` the
channel of each watcher with the value that waits for its place, `writer` the
call of `sendClipboard`, `net` the frames, `reading` what a reader has recorded
and not yet put on the clipboard, `received` and `history` the fields of the
manager. Data are model values; an image that a Windows clipboard has converted
is another one (`Reencoded`), `Unsent` is what `sendClipboard` drops (empty, too
large, a list of file URIs). Users wait until the last copy has arrived before
they copy again (`Copy` requires `Quiet`); what happens otherwise is among the
disagreements below. The suppression during a file copy is in FileClipboard.

`SharedClipboard` is the promise, over the hosts that show the last copy: the set
grows until it holds every host, and a host that shows the copy keeps showing it.
`Shares` says that ClipboardSync implements it, liveness included, unless the
copy was not noticeable (`missed`): the watcher has seen the same data before, or
the data is not to be sent, at least not to the device it was last received from.
Of three hosts the third may get such a copy; the promise allows any change after it.

### FileClipboard

`clip` is the file clipboard of each host, `last` and `emitted` belong to the
watcher, `selfSet` to `recentSelfSet`, `active` and `timers` to
`fileClipboardActive`, `sends` are the goroutines of `sendFileCopies` with what
is left of the walk through a directory, `hooks` the receive hooks. Time is
counted in polls; a window of 2 polls stands for 5 s and SetFiles may take 1
(`Slow`) or none of them. A poll in progress and SetFiles overlap in any order. A
poll whose tool fails (`PollFails`) finds nothing, so that the watcher forgets what
it has reported (`linux.go:112-116`, `windows.go:58-62`); `Failures` bounds how many
polls fail. The history variables `missed` and `sent` count, for each host and copy,
the polls that failed with it on the clipboard and how often it was sent; a file that
a hook has put there counts as the copy `ByHook`. The assumption
`Slow + 2 <= Window` is what the guard needs: with slower tools files are sent
back. A file's transfer is one step, or fails at any point; `Relink` cuts and
restores connections. Paths given by users and paths of received files are
distinct.

### Persistence

`config` and `file` are the two files, `cfg` and `table` what is in memory,
`saver` the goroutines that save the device table, of the instance in use and of
those that `View.restart` has replaced in the same process. `Change`, `Marshal`,
`Truncate` and `Write` are the steps of UpdateDevice and Save; a file that was
written over longer data, or in part, is `torn`, and Load refuses it. `page` is
what the UI goroutine has still to do: write config.yaml (truncated when the step
begins), then load or restart. The process may crash at any point. A config.yaml of
which only a part was written is no YAML, and every later start ends with a fatal
error (`config.go:130-135`): the host then stays as it is, which any behaviour of the
model may do from the state before.

### XSelection

The X11 driver. `call` is the Read or Write of a caller, `lock` the mutex,
`daemon` the goroutines of `write` in `clipboard_write`, `owner`, `events` and
`answer` the X server and its queues, `offer` other applications. INCR transfers
are not modelled: an owner that never answers is one that exits with the request.

## Runs

`DeviceLifecycle` (bounds: the number of Devices, streams and restarts, and the
peers; nothing else is cut):

| Run | Instance | Shows |
|---|---|---|
| one_peer | 1 peer, 2 Devices, 2 streams, auto trust, 1 restart | TypeOK, ConnectedHasEncrypter, SavedHasKey, ConnectedHasReader |
| restarts | prompts, 1 Device, 1 stream, 2 keys (one unusable), 2 restarts | EntryUnderItsId, DiskInSync, BlockedOnlyByUser |
| two_peers | 2 peers with one identity, 2 streams, auto trust, no restart | LiveEntriesStay |
| updates | prompts, 1 stream, 1 Device, no restart, fairness | UpdatesReturn, ConnectedIsSaved, ConnectedIsTrusted |

Two streams are enough for an old and a new connection of one peer, two Devices
for an entry and the orphan that replaced it, two peers for the cleanup to have
another entry to look at, and two restarts for a record that was written by a
process that had itself loaded one. In restarts and updates one stream is enough:
its reader, the writer and the user interface are three goroutines that save, and
may meet in any order. LiveEntriesStay says nothing of a restart.

The three large runs use views, which leave out what cannot matter for their
properties: `Live`, the contents of Devices nothing refers to (they are overwritten
before they are used again), the difference between the statuses "error" and
"disconnected", which no code looks at, the history `trusted`, and the saves, which
nothing reads but a restart, and two_peers has none; `LiveState` keeps the saves, for
DiskInSync; `ReadState` keeps them without `alone`, for SavedHasKey. TLC evaluates an
invariant on the state it has found, so a hidden field of an unreferenced Device is
seen at least once in each form that a step gives it. one_peer and two_peers use
symmetry of streams and interchangeable Devices, too; updates, which has temporal
properties, uses neither. Prompts with two streams and two Devices at once are left
to the proofs.

Two properties hold only under a condition, and the run has it: ConnectedHasReader
where peers are trusted automatically (a prompt that is answered after its peer
has gone connects a device without a stream), ConnectedIsTrusted where the
process is not restarted (a restart turns a pending device into a trusted one).

`FileTransfer` (files of 0 to 5 bytes, chunks of 2, a channel of 1 place, filled
or not by earlier transfers):

| Run | Instance | Shows |
|---|---|---|
| transfer | source fixed; link, disk and decryption may fail | TypeOK, StopAndWait, EndsAgree, Delivers, BothFinish |
| changing | source changes, size limit 2 | AckedIsWritten, RefusedLeavesNoTrace, PastedIsWhole |

The files cover none, one, a full and a short last chunk, and three chunks; the
contents only grow or shrink, so lengths tell what is lost. `CHECK_DEADLOCK FALSE`
because a transfer really ends.

The other modules:

| Run | Instance | Shows |
|---|---|---|
| loops | both modes, with and without the file tools; three pairs of kinds of goroutine, `FileProgressChan` of 1 place, 2 tries to connect | TypeOK, StartupEnds, SendsReturn, FirstAnswerIsLast |
| sync | two Linux hosts, a Linux and a Windows host, two Windows hosts: 2 texts, an unsendable one, an image and its converted form; three Linux hosts: 2 texts; history of 1 | TypeOK, NoEcho, HistoryUpToDate, Quiesces, Shares |
| files | 2 hosts, of which one copies a directory of two files, 2 copies, window of 2 polls, SetFiles in no time, 1 failed poll, fairness | TypeOK, EchoNeedsFailure, ResendNeedsFailure, Rests |
| saves | 2 starts, 2 savers per instance, 1 device, limits 0 and 1 | TypeOK, SaveRepairs, IdentityKept |
| selection | 2 callers, 1 application, 3 data of 2 formats, 2 daemons | TypeOK, WrittenIsServed, CallsReturn, DaemonsEnd |

Why these are enough. loops: the goroutines of one kind have the same scripts, so
one of each kind meets every receiver; the pairs (`MCHostLoops`) are those that
share a receiver, and one place makes the progress channel full; the process may
end and terminal mode may stop for ever, hence `CHECK_DEADLOCK FALSE`. sync: a second
and a third host are needed for an echo and for a detour; a history of 1 makes
room at every copy; two texts let one be copied again after the other. files: a
walk of two files keeps a send alive while a hook of the same copy is at work, and
the second copy may fall into each phase of the first, as may the poll that fails.
The window is what `Slow + 2 <= Window` demands and no longer, so that the one poll
which makes the guard tight is met; any other window, and a slower SetFiles, is what
the proofs of the two invariants are for (TLC takes 1.8 million states for a window of
3 and a SetFiles of 1, and finds no error either). saves: two starts are a
start and either a second process or a restart inside the first, two savers
overlap, and a device more or less changes the length of the file. selection: a
daemon that still serves and one that takes over, two callers for the lock, two
texts so that old and new data differ. `saves` ends when the bound on starts is
reached, hence `CHECK_DEADLOCK FALSE`.

### Disagreements between the code and what is said of it

One run is expected to fail (`PROJECT.json` quotes the lines):

- torn: a write of devices.json that fails half way, or two saves that overlap,
  leave a file that Load refuses on every start.

Known from the same models, without a run of their own:

- Devices. A block is overwritten by the end of the reader or a new handshake
  (`reader.go:29`; the runbook, line 62, calls it permanent). A reader closes the
  stream of its peer's newer connection (`reader.go:140`). Entries of handshakes
  under way count as failed ones (`devicemanager.go:53`). A pending device is
  trusted by a restart (`serialize.go:77`). The discovery loop replaces an entry
  made while it was dialling, and its trust is lost (`crossclipboard.go:198`). Two
  machines with one user name and OS delete each other's stale entries
  (`devicemanager.go:57`). A prompt answered late connects a device that has gone
  (`trust_modal.go:22`). A save that fails, or that another overtakes with an older
  table, leaves devices.json behind the table until the next one
  (`devicemanager.go:64`).
- File transfers. An empty file fails at the receiver (`receiver.go:132`). A
  transfer that fails on an altered chunk leaves its part of the file
  (`receiver.go:114`; TEST_REQUIREMENTS.md:73 says nothing remains).
- Goroutines. In terminal mode nothing is received after the first answer
  (`main.go:65`, which is what FirstAnswerIsLast says), nothing empties
  `FileProgressChan`, so transfers block once its 32 places are taken
  (`main.go:40-76`), and Stop sends to receivers that are its own goroutine. Without
  the tools of the file clipboard the program waits for ever at startup
  (`fileclipboard.go:22`, whose comment calls it a no-op). After a restart from the
  settings page files are no longer watched.
- Clipboards. Of two quick copies the first is sent back and reverts the
  clipboard of the host that made both (`clipboard_manager.go:58`). Data that was
  last received from a device is not sent to it, even if that device shows
  something else by now (`writer.go:87`). With three hosts a copy comes back to its
  origin by way of the third; three Windows hosts pass it round for ever. A text
  copied again after an image is not noticed on Linux (`clipboard_linux.go:156`).
  An image that a Windows host has converted comes back to its origin. Colours of
  translucent images are not preserved (`clipboard_windows.go:234`), and such an
  image may go round between two Windows hosts. A write that fails on Windows has
  emptied the clipboard already.
- File clipboard. The timer of an earlier copy ends the suppression of a later one
  (`clipboard_manager.go:121`). A poll whose tool fails makes the watcher
  forget what it saw (`linux.go:112-116`, `windows.go:58-62`), so that a copied file
  is sent again, and a received one, once its window is over, is sent back, although
  `fileclipboard.go:12-13,30-31` calls it guarded. Several received files
  overwrite each other's clipboard, and two hooks within 150 ms paste one file twice.
- Settings. A history limit that was lowered is never reached, since each new entry
  makes room for itself only (`clipboard_manager.go:49`; `config.go:28` calls it a
  limit). A cleared history limit is saved as 0 and makes the next clipboard
  panic, on every start from then on (`setting_page.go:94`,
  `clipboard_manager.go:50`). A change of any setting saves half-typed values of the
  advanced form too. The reset removes the directory that the form shows, also if
  it was just edited (`config.go:78`).
- X11. A request to an application that exits keeps the lock for ever
  (`clipboard.go:117`, runbook line 80).

## Fairness

Weak fairness is assumed of the steps that a goroutine takes without waiting for
anything outside the host: receiving from DevicesUpdated (the UI loops over it on
a goroutine of its own), Save (its steps come to an end, one way or the other, and
succeeding is not assumed), starting a reader, its close, and the insert after
an automatic trust. Nothing is assumed of peers, users, the network, the writer's
input or restarts. ConnectedIsSaved is claimed of behaviours in which saves at last
no longer meet or fail (`<>[]alone`), because the code does not try again. In
FileTransfer both goroutines and a UI that drains the progress channel
(`ui/clipboard.go:101-113`) are fair; losing the link is not, and a message under way
is read or the link is lost. `BothFinish` needs no more.

HostLoops: every goroutine runs; those that only receive lines or updates are
weakly fair. Where a goroutine comes back to several channels, none is passed
over for ever: Go's `select` chooses at random, and queued redraws are executed
between the events of a user. Users do nothing of necessity, so a prompt may stay
open. ClipboardSync: the watchers' tickers, the goroutines and the connections go
on; nothing is assumed of users. FileClipboard: time passes, watchers poll,
transfers end one way or the other; a poll may fail, but `Failures` bounds how often,
without which a file could go round for ever; SetFiles takes a bounded time (it is
bounded by guards of `Tick`, not by fairness). XSelection: Go's mutex starves nobody (strong
fairness of taking it), daemons run on threads of their own, an application that
is alive answers. Persistence has no liveness property and no fairness.

## Proofs

`DeviceLifecycleProofs` proves, for any sets of peers, Devices, streams and keys,
any identities and any number of restarts (from `ConstantsAssumption` alone):

- `TypeCorrect`: the type invariant is inductive. Its conjunct that a running
  reader has a Device is what makes every other proof possible.
- `EncrypterAlways`: ConnectedHasEncrypter is inductive given the types; the
  argument is `TrustGivesEncrypter` and that the reader sets "connected" only on
  a Device that has an encrypter.
- `EntriesUnderTheirIds`: EntryUnderItsId is not inductive: UpdateDevice takes
  the ID from AddressInfo, which Load leaves empty. The strengthening is
  `Addressed`: whoever can call UpdateDevice holds a Device whose AddressInfo
  was set, because a stream handler or the discovery loop came before it, and
  pending or connected is only reached through one.
- `DiskAlwaysInSync`: DiskInSync, for saves that overlap and fail. `InSync` joins it
  with `LoneSave`: while `alone` holds, at most one goroutine is past Marshal, it
  finds an empty file where it writes, and what it has marshalled is the table unless
  another goroutine has changed it and is on its way to a Marshal of its own
  (`Changing`), which then finds it there and ends `alone`, or comes after it. A step
  that changes a persisted field of an entry leaves its goroutine in `Changing`
  (`SyncChanging`, `SyncUpdate`); the others leave the table's records as they are
  (`SyncSame`), are a step of Save (`SyncSave`), or are Restart, where Load gives back
  what the disk holds.
- `RecordsHaveKeys`: SavedHasKey, by `NamedHasKey` and `SavingHasKey`: whoever sets the
  name of a Device sets its key, Save looks at the name, and what was marshalled is
  all that is ever written.
- `ConnectedWasTrusted`: ConnectedIsTrusted while `restarts = 0`, by
  `EncrypterIsTrusted`: only Trust makes an encrypter. The hypothesis is what the
  code needs: Load makes one for a device that was merely pending
  (`serialize.go:77`), and TLC shows such a device connecting after a restart.
- `OnlyTheUserBlocks`, `LiveEntriesAreKept`: the action properties
  BlockedOnlyByUser and LiveEntriesStay, from TypeOK (the cleanup compares the
  statuses before and after, and what the caller itself has changed is never an
  entry the cleanup takes).
- `ReaderUnlessPrompted`: ConnectedHasReader is an invariant of every behaviour
  in which no prompt is answered with trust; a prompt that is answered after its
  peer has gone connects a device without a reader (`trust_modal.go:22`).
  `AutoTrustHasReader` draws the conclusion for hosts that trust automatically,
  while an encrypter can be made of every key: `NeverPending` says that no prompt
  comes up there.

`FileTransferProofs` proves, for any contents, chunk size, size limit, channel
capacity and any of the failures (from `TransferAssumption` alone):

- `TypeCorrect` and `OneMessageUnderWay`: TypeOK and StopAndWait are inductive
  only together with who may act: nothing is under way while it is the sender's
  turn (`SenderTurn`), the metadata comes first and then only chunks
  (`MetaDataFirst`; without it ReceiveMetaData could read a chunk's size), and
  the receive loop has an open file (`OpenWhileReceiving`). `Shape` is the
  conjunction; `ShapeSender` and `ShapeReceiver` have a step per action.
- `AcknowledgedIsWritten`: AckedIsWritten. The strengthening `BytesAddUp` counts
  the bytes of the one chunk under way, or of the one not yet counted answer.
- `RefusalLeavesNoTrace`: through `OpenedIfAccepted`, since a destination that
  was not opened is still the old one.
- `PastedFileIsWhole`: through `OkIsWhole`, which says that nothing touches the
  destination between the check of its size and the hook.
- `BothEndsAgree`: EndsAgree, by five strengthenings for a source that does not
  change: each end knows its outcome when its work is over (`OutcomeKnown`); what
  has arrived is a beginning of the source, between what was acknowledged and what
  was sent, and the chunk under way goes on from there (`CopyIsPrefix`); both have
  the size of the source (`SizeAgreed`); who is done knows that the file has
  arrived (`WholeWhenDone`); and who waits for an answer gets it unless the
  receiver or the link has failed (`AnswersCome`).
- `TransferDelivers`: from the same, every step is a step of `FileDelivery` or a
  stutter, for a source that does not change. What `Delivers` adds is the fairness,
  which TLC checks.

The strengthenings are in `FileTransfer` before the properties; `Shape` and
`Accounts` are only conjunctions of them.

`HostLoopsProofs` proves, for any goroutines, capacity and number of tries (from
`LoopsAssumption`):

- `TypeCorrect`: TypeOK falls into `Shape` (where the goroutines are) and `Queues`
  (what they have still to send). That main sends only at a point where it waits
  is in it, since otherwise one script would overwrite another.
- `AnswerIsLast`: FirstAnswerIsLast, by `Stuck`: after an answer in terminal mode
  main has one update left to send, and the only receiver of updates is main.

`XSelectionProofs` proves, for any callers, applications, data and daemons (from
`XSelectionAssumption`):

- `TypeCorrect` and `WrittenServed`: neither is inductive. `OneStarts` says that a
  daemon that has not taken the selection yet belongs to the one Write that holds
  the lock; `Ownership` that a daemon does not own the selection before it asked
  for it, nor while the notice of its loss is queued. Together (`Inv`) they give
  that the daemon of a Write that returned is the owner and serves its data.

`PersistenceProofs` proves, for any devices, limits, starts and savers (from
`PersistenceAssumption`):

- `TypeCorrect`.
- `IdentityStays`: by `ConfigKept`: file and memory have one identity, and where
  the file is empty although nothing was lost, the page that emptied it is about
  to write.
- `LoneSaveRepairs`: by `LoneSave`: as long as no other saver has begun, the one
  that saves alone holds the table of its instance, and writes it into an empty
  file; it stays alone only until `View.restart` or another update.

`FileClipboardProofs` proves, for any hosts, names, walks and copies (from
`FileClipboardAssumption`):

- `TypeCorrect`.
- `NothingGoesBack` and `EveryCopyOnce`: EchoNeedsFailure and ResendNeedsFailure, by
  one account (`Paid`): what a host has sent of a copy, what its watcher has in hand to
  be sent (`InHand`) and what its next poll would find new (`Unseen`) are together no
  more than the polls that failed with the copy on the clipboard, and one for the user
  who made it. For a received file there is no such one, so it must never be Unseen
  without a failed poll; that is `Known`, a bound on time: a path that SetFiles has yet
  to put on the clipboard was marked no longer ago than SetFiles has taken. `Slow + 2 <=
  Window` is used for the one poll before the watcher sees it and the one in progress.
  `Owned` says that a copy of a user has been on one host only.

`ClipboardSyncProofs` proves, for any groups of hosts, data, conversions that are
idempotent and length of the history (from `SyncAssumption`):

- `TypeCorrect`. A lemma per action (`WatchDoes` ... `CopyDoes`) says what it does
  to each of the queues, so that the other proofs need not look at sequences.
- `NothingComesBack`: NoEcho, by `OneWayOfTwo`: what one of two hosts sends is the
  copy as its clipboard shows it; the other knows that as received, or reports a
  form it has converted itself, and that form is recognised when it comes back. A
  host whose own clipboard converts sends the converted form, which no further
  conversion changes; hence the assumption that converting twice changes nothing.
- `HistoriesFollow`: HistoryUpToDate where no clipboard converts what is copied
  (`Unconverted`), with any number of hosts. `OnlyTheCopy` says that all that is
  under way is the last copy or what it has been converted to, because a user
  copies when all is quiet; `Spreads` that a noticed copy is about to be taken by
  the writer of its host, or comes to each other host from there: it is yet to be
  sent, is under way, or is recorded and shown. Both are inductive for every group.
- `SharesStepByStep`: every step is a step of `SharedClipboard` or a stutter, for
  every group, by the same invariants. What `Shares` adds is the fairness.

Model-checked only: the liveness properties (UpdatesReturn, ConnectedIsSaved,
BothFinish, StartupEnds, SendsReturn, Quiesces, Rests, CallsReturn, DaemonsEnd) and
what `Delivers` and `Shares` say beyond the single steps, because liveness under
fairness and ENABLED are beyond the prover; and HistoryUpToDate for two hosts of
which one converts an image, where the histories get both forms in turn. For three
hosts with a converting one it is not claimed. No module has a RECURSIVE operator.

## Not modelled

libp2p's connection management, PGP and AES, protobuf, the encoding of frames, the
layout of the UI, the mobile placeholder: they are calls of libraries or pure
conversions. Where they can fail, the model lets them fail. `RemoveDevice` has no
caller. Three kinds of undefined behaviour are left out: bytes of two writers mixed
on one `bufio.Writer`, a frame read by two goroutines from one `bufio.Reader`, and
entries lost in the races on the history slice. Of the Windows driver only what the
synchronisation sees is modelled (the sequence number and the conversion of
images). Several transfers to one destination are not modelled.

## Plan

What is left, most important first:

1. `Session`: the stream's frames, two readers on one `bufio.Reader`, unlocked
   writers, connectedness and reconnection of devices in error.
2. `IncomingDir`: several transfers with one destination, directory walks, names.
3. Quick copies in ClipboardSync: what still holds when users do not wait.
4. `Framing`: the size field, the limits, the boundary at `max_size`.
5. Proofs: HistoryUpToDate for two hosts that convert images, and the lemmas behind
   the liveness arguments (what a fair step makes progress on).
