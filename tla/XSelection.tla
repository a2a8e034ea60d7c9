----------------------------- MODULE XSelection -----------------------------
(***************************************************************************)
(* The clipboard of a host with X11, as the driver of the program uses it. *)
(* The watchers, the readers of the streams and the file clipboard call    *)
(* Read and Write, which hold one lock.  Write starts a daemon that owns   *)
(* the selection and answers requests for it until it loses it; Read asks  *)
(* the owner, be it a daemon or another application, and waits for the     *)
(* answer.  The X server is modelled by the events it queues.              *)
(***************************************************************************)
EXTENDS Naturals, Sequences

CONSTANTS
    Callers,    \* goroutines that read and write the clipboard
    Daemons,    \* as many daemons as may be alive at a time (bounds the model)
    Apps,       \* other applications
    Data,       \* what is copied
    Formats,
    Format,     \* the format of data
    None

ASSUME XSelectionAssumption ==
    /\ Format \in [Data -> Formats]
    /\ None \notin Callers \cup Daemons \cup Apps \cup Data
    /\ Daemons \cap Apps = {}
    /\ "clear" \notin Callers

VARIABLES
    call,       \* the call of each caller
    lock,       \* the caller that holds the lock
    daemon,     \* the daemons: what they serve, and for which caller they start
    owner,      \* the owner of the selection
    offer,      \* what each application offers while it is the owner
    events,     \* events that the server has queued: callers that request, or "clear"
    answer,     \* the SelectionNotify on its way to a caller
    held        \* history variable: the data of the last Write that has returned
                \* with success, while nobody else has taken the selection

vars == <<call, lock, daemon, owner, offer, events, answer, held>>

Clients == Daemons \cup Apps
Out == [pc |-> "out", arg |-> None]
Gone == [pc |-> "gone", data |-> None, for |-> None]
NoAnswer == [sent |-> FALSE, data |-> None]

TypeOK ==
    /\ call \in [Callers -> [pc : {"out", "read", "write", "asking", "starting"},
                             arg : Formats \cup Data \cup {None}]]
    /\ lock \in Callers \cup {None}
    /\ daemon \in [Daemons -> [pc : {"gone", "opening", "owning", "serving"},
                               data : Data \cup {None}, for : Callers \cup {None}]]
    /\ owner \in Clients \cup {None}
    /\ offer \in [Apps -> Data \cup {None}]
    /\ events \in [Clients -> Seq(Callers \cup {"clear"})]
    /\ answer \in [Callers -> [sent : BOOLEAN, data : Data \cup {None}]]
    /\ held \in Data \cup {None}
    /\ \A c \in Callers : call[c].pc \in {"asking", "starting"} <=> lock = c
    /\ \A d \in Daemons : daemon[d].pc \in {"opening", "owning"} => lock = daemon[d].for

Init ==
    /\ call = [c \in Callers |-> Out]
    /\ lock = None
    /\ daemon = [d \in Daemons |-> Gone]
    /\ owner = None
    /\ offer = [a \in Apps |-> None]
    /\ events = [x \in Clients |-> <<>>]
    /\ answer = [c \in Callers |-> NoAnswer]
    /\ held = None
-----------------------------------------------------------------------------
(* A goroutine calls Read or Write.                                        *)
Read(c, f) ==
    /\ call[c] = Out
    /\ call' = [call EXCEPT ![c] = [pc |-> "read", arg |-> f]]
    /\ UNCHANGED <<lock, daemon, owner, offer, events, answer, held>>

Write(c, d) ==
    /\ call[c] = Out
    /\ call' = [call EXCEPT ![c] = [pc |-> "write", arg |-> d]]
    /\ UNCHANGED <<lock, daemon, owner, offer, events, answer, held>>

Return(c) ==
    /\ call' = [call EXCEPT ![c] = Out]
    /\ lock' = None

(* clipboard_read with the lock: the selection is converted, by its owner  *)
(* or, if there is none, by the server; or the display cannot be opened,   *)
(* or nobody has ever named the format, and Read returns nothing.          *)
ClipboardRead(c) ==
    /\ call[c].pc = "read" /\ lock = None
    /\ \/ /\ lock' = c
          /\ call' = [call EXCEPT ![c].pc = "asking"]
          /\ IF owner = None
             THEN answer' = [answer EXCEPT ![c] = [sent |-> TRUE, data |-> None]]
                  /\ UNCHANGED events
             ELSE events' = [events EXCEPT ![owner] = Append(@, c)] /\ UNCHANGED answer
       \/ Return(c) /\ UNCHANGED <<events, answer>>
    /\ UNCHANGED <<daemon, owner, offer, held>>

(* SelectionNotify has come.                                               *)
ReadReturns(c) ==
    /\ call[c].pc = "asking" /\ answer[c].sent
    /\ answer' = [answer EXCEPT ![c] = NoAnswer]
    /\ Return(c)
    /\ UNCHANGED <<daemon, owner, offer, events, held>>

(* write with the lock starts a daemon and waits for its status.           *)
StartDaemon(c) ==
    /\ call[c].pc = "write" /\ lock = None
    /\ lock' = c
    /\ call' = [call EXCEPT ![c].pc = "starting"]
    /\ \E d \in Daemons :
          /\ daemon[d] = Gone
          /\ daemon' = [daemon EXCEPT ![d] = [pc |-> "opening", data |-> call[c].arg, for |-> c]]
    /\ UNCHANGED <<owner, offer, events, answer, held>>
-----------------------------------------------------------------------------
(* A client becomes the owner; the server tells the one before, which      *)
(* matters if it is a daemon.                                              *)
Takes(x) ==
    /\ owner' = x
    /\ events' = IF owner \in Daemons THEN [events EXCEPT ![owner] = Append(@, "clear")]
                 ELSE events

(* syncStatus: Write returns, with or without success.                     *)
Sync(d, ok) ==
    /\ Return(daemon[d].for)
    /\ held' = IF ok THEN daemon[d].data ELSE held

(* A variant that reports success before it asks for the selection.        *)
OwnsLate(d) ==
    /\ daemon[d].pc = "opening"
    /\ Sync(d, TRUE)
    /\ daemon' = [daemon EXCEPT ![d].pc = "owning"]
    /\ UNCHANGED <<owner, offer, events, answer>>

(* clipboard_write opens the display, names the format and asks for the    *)
(* selection; one of the first two may fail.                               *)
Owns(d) ==
    /\ daemon[d].pc = "opening"
    /\ Takes(d)
    /\ held' = None
    /\ daemon' = [daemon EXCEPT ![d].pc = "owning"]
    /\ UNCHANGED <<call, lock, offer, answer>>

(* A variant that fails without a status.                                  *)
FailsSilently(d) ==
    /\ daemon[d].pc = "opening"
    /\ daemon' = [daemon EXCEPT ![d] = Gone]
    /\ UNCHANGED <<call, lock, owner, offer, events, answer, held>>

Fails(d) ==
    /\ daemon[d].pc = "opening"
    /\ Sync(d, FALSE)
    /\ daemon' = [daemon EXCEPT ![d] = Gone]
    /\ UNCHANGED <<owner, offer, events, answer>>

(* A variant that does not look who the owner is.                          *)
ServesAnyway(d) ==
    /\ daemon[d].pc = "owning"
    /\ Sync(d, TRUE)
    /\ daemon' = [daemon EXCEPT ![d].pc = "serving", ![d].for = None]
    /\ UNCHANGED <<owner, offer, events, answer>>

(* XGetSelectionOwner: the daemon serves if it is still the owner.         *)
Serves(d) ==
    /\ daemon[d].pc = "owning"
    /\ Sync(d, owner = d)
    /\ daemon' = [daemon EXCEPT ![d] =
          IF owner = d THEN [@ EXCEPT !.pc = "serving", !.for = None] ELSE Gone]
    /\ events' = IF owner = d THEN events ELSE [events EXCEPT ![d] = <<>>]
    /\ UNCHANGED <<owner, offer, answer>>

(* XNextEvent: a request is answered with the data if it is for their      *)
(* format, and with none otherwise.                                        *)
Answers(x, data) ==
    LET c == Head(events[x]) IN
    answer' = [answer EXCEPT ![c] =
       [sent |-> TRUE,
        data |-> IF data # None /\ Format[data] = call[c].arg THEN data ELSE None]]

SelectionRequest(d) ==
    /\ daemon[d].pc = "serving"
    /\ events[d] # <<>> /\ Head(events[d]) \in Callers
    /\ Answers(d, daemon[d].data)
    /\ events' = [events EXCEPT ![d] = Tail(@)]
    /\ UNCHANGED <<call, lock, daemon, owner, offer, held>>

(* A variant that goes on when it has lost the selection.                  *)
ClearIgnored(d) ==
    /\ daemon[d].pc = "serving"
    /\ events[d] # <<>> /\ Head(events[d]) = "clear"
    /\ events' = [events EXCEPT ![d] = Tail(@)]
    /\ UNCHANGED <<call, lock, daemon, owner, offer, answer, held>>

SelectionClear(d) ==
    /\ daemon[d].pc = "serving"
    /\ events[d] # <<>> /\ Head(events[d]) = "clear"
    /\ daemon' = [daemon EXCEPT ![d] = Gone]
    /\ events' = [events EXCEPT ![d] = <<>>]
    /\ UNCHANGED <<call, lock, owner, offer, answer, held>>
-----------------------------------------------------------------------------
(* Another application: its user copies, it answers requests, and it may   *)
(* exit without having answered them all.                                  *)
Copies(a, d) ==
    /\ Takes(a)
    /\ offer' = [offer EXCEPT ![a] = d]
    /\ held' = None
    /\ UNCHANGED <<call, lock, daemon, answer>>

AppHandles(a) ==
    /\ events[a] # <<>>
    /\ Answers(a, offer[a])
    /\ events' = [events EXCEPT ![a] = Tail(@)]
    /\ UNCHANGED <<call, lock, daemon, owner, offer, held>>

Exits(a) ==
    /\ owner = a
    /\ owner' = None
    /\ offer' = [offer EXCEPT ![a] = None]
    /\ events' = [events EXCEPT ![a] = <<>>]
    /\ UNCHANGED <<call, lock, daemon, answer, held>>

Runs(d) == Owns(d) \/ Fails(d) \/ Serves(d) \/ SelectionRequest(d) \/ SelectionClear(d)

Next ==
    \/ \E c \in Callers :
          \/ \E f \in Formats : Read(c, f)
          \/ \E d \in Data : Write(c, d)
          \/ ClipboardRead(c) \/ ReadReturns(c) \/ StartDaemon(c)
    \/ \E d \in Daemons : Runs(d)
    \/ \E a \in Apps : AppHandles(a) \/ Exits(a) \/ \E d \in Data : Copies(a, d)

(* The mutex of Go starves nobody, the daemons run on threads of their own,*)
(* and an application that is alive answers.                               *)
Fairness ==
    /\ \A c \in Callers :
          WF_vars(ReadReturns(c)) /\ SF_vars(ClipboardRead(c) \/ StartDaemon(c))
    /\ \A d \in Daemons : WF_vars(Runs(d))
    /\ \A a \in Apps : WF_vars(AppHandles(a))

Spec == Init /\ [][Next]_vars /\ Fairness
-----------------------------------------------------------------------------
(* What the proof of WrittenIsServed rests on.  A caller that starts a     *)
(* daemon holds the lock for it, so there is one such daemon at a time.    *)
Starting(d) == daemon[d].pc \in {"opening", "owning"}

OneStarts ==
    /\ \A c \in Callers : call[c].pc \in {"write", "starting"} => call[c].arg \in Data
    /\ \A d \in Daemons : Starting(d) =>
          /\ daemon[d].for \in Callers /\ lock = daemon[d].for
          /\ call[daemon[d].for].pc = "starting"
    /\ \A d, e \in Daemons : Starting(d) /\ Starting(e) => d = e

(* A daemon that does not ask for the selection yet does not own it and is *)
(* told nothing; one that was told that it lost the selection has lost it. *)
Ownership ==
    \A d \in Daemons :
        /\ daemon[d].pc \in {"gone", "opening"} => owner # d /\ events[d] = <<>>
        /\ (\E i \in DOMAIN events[d] : events[d][i] = "clear") => owner # d

Inv == TypeOK /\ OneStarts /\ Ownership

(* When Write has returned with success, a Read finds what was written     *)
(* until somebody else copies: the daemon already serves it                *)
(* (clipboard_linux.go:133).                                               *)
WrittenIsServed ==
    held # None => owner \in Daemons /\ daemon[owner].pc = "serving" /\ daemon[owner].data = held

(* A caller whose request went to an application that has exited.          *)
Forgotten(c) ==
    call[c].pc = "asking" /\ ~answer[c].sent /\
        \A x \in Clients : \A i \in DOMAIN events[x] : events[x][i] # c

(* Every Read and Write returns, also those that fail, unless a request    *)
(* was forgotten; then the lock is held, and nobody reads or writes again  *)
(* (clipboard.go:117, deployment-runbook.md:80).                           *)
CallsReturn == \A c \in Callers : call[c] # Out ~> (call[c] = Out \/ \E b \in Callers : Forgotten(b))

(* A daemon that has lost the selection ends, so that its thread is free   *)
(* for the next one (clipboard_linux.go:113).                              *)
DaemonsEnd == \A d \in Daemons :
    daemon[d].pc = "serving" /\ owner # d ~> daemon[d].pc = "gone"
=============================================================================
