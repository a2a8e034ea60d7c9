-------------------------- MODULE XSelectionProofs --------------------------
(* Theorems about XSelection for any callers, daemons, applications, data  *)
(* and formats.                                                            *)
EXTENDS XSelection, SequenceTheorems, TLAPS

USE XSelectionAssumption

(* Appending to the queue of one client keeps the queues well typed and    *)
(* adds no entry but that one.                                             *)
LEMMA QueueOne ==
    ASSUME TypeOK, NEW x \in Clients, NEW e \in Callers \cup {"clear"},
           events' = [events EXCEPT ![x] = Append(@, e)]
    PROVE  /\ events' \in [Clients -> Seq(Callers \cup {"clear"})]
           /\ \A y \in Clients : y # x => events'[y] = events[y]
           /\ e # "clear" =>
                ((\E i \in DOMAIN events'[x] : events'[x][i] = "clear")
                 => \E i \in DOMAIN events[x] : events[x][i] = "clear")
  <1> DEFINE s == events[x]
  <1>1. s \in Seq(Callers \cup {"clear"})
    BY DEF TypeOK
  <1>2. Append(s, e) \in Seq(Callers \cup {"clear"})
    BY <1>1
  <1>3. ASSUME e # "clear", NEW i \in DOMAIN Append(s, e), Append(s, e)[i] = "clear"
        PROVE  \E j \in DOMAIN s : s[j] = "clear"
    BY <1>1, <1>3
  <1> QED
    BY <1>2, <1>3 DEF TypeOK

(* Taking the head from a queue keeps the queues well typed and adds no    *)
(* entry.                                                                  *)
LEMMA UnqueueOne ==
    ASSUME TypeOK, NEW x \in Clients, events[x] # <<>>,
           events' = [events EXCEPT ![x] = Tail(@)]
    PROVE  /\ events' \in [Clients -> Seq(Callers \cup {"clear"})]
           /\ \A y \in Clients : y # x => events'[y] = events[y]
           /\ (\E i \in DOMAIN events'[x] : events'[x][i] = "clear")
              => \E i \in DOMAIN events[x] : events[x][i] = "clear"
  <1> DEFINE s == events[x]
  <1>1. s \in Seq(Callers \cup {"clear"}) /\ s # <<>>
    BY DEF TypeOK
  <1>2. Tail(s) \in Seq(Callers \cup {"clear"})
    BY <1>1
  <1>3. ASSUME NEW i \in DOMAIN Tail(s), Tail(s)[i] = "clear"
        PROVE  \E j \in DOMAIN s : s[j] = "clear"
    <2>1. i + 1 \in DOMAIN s /\ s[i + 1] = "clear"
      BY <1>1, <1>3
    <2> QED
      BY <2>1
  <1> QED
    BY <1>2, <1>3 DEF TypeOK

(* Inv holds at the start.                                                 *)
LEMMA InvInit == Init => Inv
  <1> SUFFICES ASSUME Init PROVE Inv
    OBVIOUS
  <1>1. <<>> \in Seq(Callers \cup {"clear"})
    OBVIOUS
  <1>2. TypeOK
    BY <1>1 DEF Init, TypeOK, Out, Gone, NoAnswer, Clients
  <1>3. OneStarts
    BY DEF Init, OneStarts, Starting, Out, Gone
  <1>4. Ownership
    BY DEF Init, Ownership, Clients
  <1> QED
    BY <1>2, <1>3, <1>4 DEF Inv

(* Changing the pc of one record keeps all of them typed.                 *)
LEMMA PcTyped ==
    ASSUME NEW S, NEW P, NEW A, NEW f \in [S -> [pc : P, arg : A]],
           NEW x \in S, NEW p \in P
    PROVE  [f EXCEPT ![x].pc = p] \in [S -> [pc : P, arg : A]]
  <1>1. [f[x] EXCEPT !.pc = p] \in [pc : P, arg : A]
    OBVIOUS
  <1>2. [f EXCEPT ![x] = [f[x] EXCEPT !.pc = p]] \in [S -> [pc : P, arg : A]]
    BY <1>1
  <1> QED
    BY <1>2

(* The call of a caller stays typed when it goes to another step.          *)
LEMMA CallTyped ==
    ASSUME TypeOK, NEW c \in Callers, NEW p \in {"asking", "starting"},
           call' = [call EXCEPT ![c].pc = p]
    PROVE  /\ call' \in [Callers -> [pc : {"out", "read", "write", "asking", "starting"},
                                     arg : Formats \cup Data \cup {None}]]
           /\ call'[c].pc = p
           /\ \A b \in Callers : b # c => call'[b] = call[b]
           /\ call'[c].arg = call[c].arg
  <1> DEFINE P == {"out", "read", "write", "asking", "starting"}
             A == Formats \cup Data \cup {None}
  <1>1. call \in [Callers -> [pc : P, arg : A]] /\ p \in P
    BY DEF TypeOK
  <1>2. [call EXCEPT ![c].pc = p] \in [Callers -> [pc : P, arg : A]]
    <2> HIDE DEF P, A
    <2> QED
      BY <1>1, PcTyped
  <1>3. call' \in [Callers -> [pc : P, arg : A]]
    BY <1>2
  <1>4. call'[c] = [call[c] EXCEPT !.pc = p] /\ \A b \in Callers : b # c => call'[b] = call[b]
    BY <1>1
  <1>5. call[c] \in [pc : P, arg : A]
    BY <1>1
  <1>6. call'[c].pc = p /\ call'[c].arg = call[c].arg
    <2> HIDE DEF P, A
    <2> QED
      BY <1>4, <1>5
  <1> QED
    BY <1>3, <1>4, <1>6

(* A daemon stays typed when it goes to another step.                      *)
LEMMA DaemonTyped ==
    ASSUME TypeOK, NEW d \in Daemons, daemon' = [daemon EXCEPT ![d].pc = "owning"]
    PROVE  /\ daemon' \in [Daemons -> [pc : {"gone", "opening", "owning", "serving"},
                                       data : Data \cup {None}, for : Callers \cup {None}]]
           /\ daemon'[d].pc = "owning" /\ daemon'[d].for = daemon[d].for
           /\ daemon'[d].data = daemon[d].data
           /\ \A e \in Daemons : e # d => daemon'[e] = daemon[e]
  <1>1. daemon[d] \in [pc : {"gone", "opening", "owning", "serving"},
                       data : Data \cup {None}, for : Callers \cup {None}]
    BY DEF TypeOK
  <1>2. daemon'[d] = [daemon[d] EXCEPT !.pc = "owning"]
    BY DEF TypeOK
  <1>3. /\ [daemon[d] EXCEPT !.pc = "owning"]
              \in [pc : {"gone", "opening", "owning", "serving"},
                   data : Data \cup {None}, for : Callers \cup {None}]
        /\ [daemon[d] EXCEPT !.pc = "owning"].pc = "owning"
        /\ [daemon[d] EXCEPT !.pc = "owning"].for = daemon[d].for
        /\ [daemon[d] EXCEPT !.pc = "owning"].data = daemon[d].data
    BY <1>1
  <1>4. daemon' = [daemon EXCEPT ![d] = [daemon[d] EXCEPT !.pc = "owning"]]
    BY DEF TypeOK
  <1>5. daemon' \in [Daemons -> [pc : {"gone", "opening", "owning", "serving"},
                                data : Data \cup {None}, for : Callers \cup {None}]]
    BY <1>3, <1>4 DEF TypeOK
  <1> QED
    BY <1>2, <1>3, <1>4, <1>5 DEF TypeOK

(* An answer is typed, whatever it answers with.                           *)
LEMMA AnswerTyped ==
    ASSUME TypeOK, NEW x \in Clients, NEW data \in Data \cup {None}, Answers(x, data)
    PROVE  answer' \in [Callers -> [sent : BOOLEAN, data : Data \cup {None}]]
  <1> DEFINE c == Head(events[x])
             v == IF data # None /\ Format[data] = call[c].arg THEN data ELSE None
  <1>1. v \in Data \cup {None}
    OBVIOUS
  <1>2. answer' = [answer EXCEPT ![c] = [sent |-> TRUE, data |-> v]]
    BY DEF Answers
  <1> HIDE DEF c, v
  <1> QED
    BY <1>1, <1>2 DEF TypeOK

(* The calls of the driver's users.                                        *)
LEMMA CallsStep ==
    ASSUME Inv, NEW c \in Callers,
           \/ \E f \in Formats : Read(c, f)
           \/ \E d \in Data : Write(c, d)
           \/ ClipboardRead(c) \/ ReadReturns(c) \/ StartDaemon(c)
    PROVE  Inv'
  <1> USE DEF Inv
  <1>1. CASE \E f \in Formats : Read(c, f)
    <2>1. PICK f \in Formats : Read(c, f)
      BY <1>1
    <2>2. TypeOK'
      BY <2>1 DEF Read, TypeOK, Out
    <2>3. OneStarts'
      BY <2>1 DEF Read, TypeOK, Out, OneStarts, Starting
    <2> QED
      BY <2>1, <2>2, <2>3 DEF Read, Ownership
  <1>2. CASE \E d \in Data : Write(c, d)
    <2>1. PICK d \in Data : Write(c, d)
      BY <1>2
    <2>2. TypeOK'
      BY <2>1 DEF Write, TypeOK, Out
    <2>3. OneStarts'
      BY <2>1 DEF Write, TypeOK, Out, OneStarts, Starting
    <2> QED
      BY <2>1, <2>2, <2>3 DEF Write, Ownership
  <1>3. CASE ClipboardRead(c)
    <2>1. CASE Return(c) /\ UNCHANGED <<events, answer, daemon, owner, offer, held>>
      <3>1. TypeOK'
        BY <1>3, <2>1 DEF ClipboardRead, Return, TypeOK, Out
      <3>2. OneStarts'
        BY <1>3, <2>1 DEF ClipboardRead, Return, TypeOK, Out, OneStarts, Starting
      <3> QED
        BY <2>1, <3>1, <3>2 DEF Ownership
    <2>2. CASE /\ lock' = c
               /\ call' = [call EXCEPT ![c].pc = "asking"]
               /\ owner = None
               /\ answer' = [answer EXCEPT ![c] = [sent |-> TRUE, data |-> None]]
               /\ UNCHANGED <<events, daemon, owner, offer, held>>
      <3>0. answer' \in [Callers -> [sent : BOOLEAN, data : Data \cup {None}]]
        BY <2>2 DEF TypeOK
      <3>1. TypeOK'
        <4>1. /\ call' \in [Callers -> [pc : {"out", "read", "write", "asking", "starting"},
                                        arg : Formats \cup Data \cup {None}]]
              /\ call'[c].pc = "asking"
              /\ \A b \in Callers : b # c => call'[b] = call[b]
          BY <2>2, CallTyped
        <4>2. \A b \in Callers : call'[b].pc \in {"asking", "starting"} <=> lock' = b
          BY <1>3, <2>2, <4>1 DEF ClipboardRead, TypeOK
        <4>3. \A d \in Daemons : ~Starting(d)
          BY <1>3 DEF ClipboardRead, TypeOK, OneStarts
        <4> QED
          BY <2>2, <3>0, <4>1, <4>2, <4>3 DEF TypeOK, Starting
      <3>2. OneStarts'
        BY <1>3, <2>2 DEF ClipboardRead, TypeOK, OneStarts, Starting
      <3> QED
        BY <2>2, <3>1, <3>2 DEF Ownership
    <2>3. CASE /\ lock' = c
               /\ call' = [call EXCEPT ![c].pc = "asking"]
               /\ owner # None
               /\ events' = [events EXCEPT ![owner] = Append(@, c)]
               /\ UNCHANGED <<answer, daemon, owner, offer, held>>
      <3>0. owner \in Clients /\ c # "clear"
        BY <2>3 DEF TypeOK
      <3>1. /\ events' \in [Clients -> Seq(Callers \cup {"clear"})]
            /\ \A y \in Clients : y # owner => events'[y] = events[y]
            /\ (\E i \in DOMAIN events'[owner] : events'[owner][i] = "clear")
               => \E i \in DOMAIN events[owner] : events[owner][i] = "clear"
        BY <2>3, <3>0, QueueOne
      <3>2. TypeOK'
        <4>1. /\ call' \in [Callers -> [pc : {"out", "read", "write", "asking", "starting"},
                                        arg : Formats \cup Data \cup {None}]]
              /\ call'[c].pc = "asking"
              /\ \A b \in Callers : b # c => call'[b] = call[b]
          BY <2>3, CallTyped
        <4>2. \A b \in Callers : call'[b].pc \in {"asking", "starting"} <=> lock' = b
          BY <1>3, <2>3, <4>1 DEF ClipboardRead, TypeOK
        <4>3. \A d \in Daemons : ~Starting(d)
          BY <1>3 DEF ClipboardRead, TypeOK, OneStarts
        <4> QED
          BY <2>3, <3>1, <4>1, <4>2, <4>3 DEF TypeOK, Starting
      <3>3. OneStarts'
        BY <1>3, <2>3 DEF ClipboardRead, TypeOK, OneStarts, Starting
      <3>4. ASSUME NEW d \in Daemons
            PROVE  /\ daemon[d].pc \in {"gone", "opening"} => owner # d /\ events'[d] = <<>>
                   /\ (\E i \in DOMAIN events'[d] : events'[d][i] = "clear") => owner # d
        <4>1. d \in Clients
          BY DEF Clients
        <4> QED
          BY <3>1, <4>1 DEF Ownership
      <3>5. Ownership'
        BY <2>3, <3>4 DEF Ownership
      <3> QED
        BY <3>2, <3>3, <3>5
    <2> QED
      BY <1>3, <2>1, <2>2, <2>3 DEF ClipboardRead
  <1>4. CASE ReadReturns(c)
    <2>1. TypeOK'
      BY <1>4 DEF ReadReturns, Return, TypeOK, Out, NoAnswer, OneStarts, Starting
    <2>2. OneStarts'
      BY <1>4 DEF ReadReturns, Return, TypeOK, Out, OneStarts, Starting
    <2> QED
      BY <1>4, <2>1, <2>2 DEF ReadReturns, Ownership
  <1>5. CASE StartDaemon(c)
    <2>1. PICK d \in Daemons :
             /\ daemon[d] = Gone
             /\ daemon' = [daemon EXCEPT ![d] =
                              [pc |-> "opening", data |-> call[c].arg, for |-> c]]
      BY <1>5 DEF StartDaemon
    <2>2. \A e \in Daemons : ~Starting(e)
      BY <1>5 DEF StartDaemon, OneStarts
    <2>3. call[c].arg \in Data
      BY <1>5 DEF StartDaemon, OneStarts
    <2>4. TypeOK'
      <3>1. call' = [call EXCEPT ![c].pc = "starting"]
        BY <1>5 DEF StartDaemon
      <3>2. call' \in [Callers -> [pc : {"out", "read", "write", "asking", "starting"},
                                   arg : Formats \cup Data \cup {None}]]
        BY <3>1, CallTyped
      <3>3. daemon' \in [Daemons -> [pc : {"gone", "opening", "owning", "serving"},
                                     data : Data \cup {None}, for : Callers \cup {None}]]
        BY <2>1, <2>3 DEF TypeOK
      <3>4. \A b \in Callers : call'[b].pc \in {"asking", "starting"} <=> lock' = b
        BY <1>5, <3>1 DEF StartDaemon, TypeOK
      <3>5. \A e \in Daemons : daemon'[e].pc \in {"opening", "owning"} => lock' = daemon'[e].for
        BY <1>5, <2>1, <2>2 DEF StartDaemon, TypeOK, Starting
      <3> QED
        BY <1>5, <3>2, <3>3, <3>4, <3>5 DEF StartDaemon, TypeOK
    <2>5. OneStarts'
      BY <1>5, <2>1, <2>2, <2>3 DEF StartDaemon, TypeOK, OneStarts, Starting
    <2>6. Ownership'
      BY <1>5, <2>1 DEF StartDaemon, TypeOK, Ownership, Gone
    <2> QED
      BY <2>4, <2>5, <2>6
  <1> QED
    BY <1>1, <1>2, <1>3, <1>4, <1>5

(* What a daemon does with the selection before it serves.                 *)
LEMMA OwnsStep ==
    ASSUME Inv, NEW d \in Daemons, Owns(d)
    PROVE  Inv'
  <1> USE DEF Inv
  <1>1. d \in Clients
    BY DEF Clients
  <1>2. /\ events' \in [Clients -> Seq(Callers \cup {"clear"})]
        /\ \A y \in Clients : y # owner \/ owner \notin Daemons => events'[y] = events[y]
    <2>1. CASE owner \in Daemons
      <3>1. owner \in Clients /\ events' = [events EXCEPT ![owner] = Append(@, "clear")]
        BY <2>1 DEF Owns, Takes, Clients
      <3> QED
        BY <2>1, <3>1, QueueOne
    <2>2. CASE owner \notin Daemons
      BY <2>2 DEF Owns, Takes, TypeOK
    <2> QED
      BY <2>1, <2>2
  <1>3. /\ daemon' \in [Daemons -> [pc : {"gone", "opening", "owning", "serving"},
                                    data : Data \cup {None}, for : Callers \cup {None}]]
        /\ daemon'[d].pc = "owning" /\ daemon'[d].for = daemon[d].for
        /\ daemon'[d].data = daemon[d].data
        /\ \A e \in Daemons : e # d => daemon'[e] = daemon[e]
    BY DaemonTyped DEF Owns
  <1>4. TypeOK'
    BY <1>1, <1>2, <1>3 DEF Owns, Takes, TypeOK
  <1>5. OneStarts'
    BY <1>3 DEF Owns, OneStarts, Starting
  <1>6. ASSUME NEW e \in Daemons
        PROVE  /\ daemon'[e].pc \in {"gone", "opening"} => owner' # e /\ events'[e] = <<>>
               /\ (\E i \in DOMAIN events'[e] : events'[e][i] = "clear") => owner' # e
    <2>1. e \in Clients /\ owner' = d
      BY DEF Clients, Owns, Takes
    <2>2. CASE e = d
      <3>1. events'[d] = events[d] /\ events[d] = <<>>
        BY <1>1, <1>2 DEF Owns, Ownership
      <3>2. ~\E i \in DOMAIN <<>> : <<>>[i] = "clear"
        OBVIOUS
      <3> QED
        BY <1>3, <2>2, <3>1, <3>2
    <2>3. CASE e # d
      BY <1>2, <1>3, <2>1, <2>3 DEF Ownership
    <2> QED
      BY <2>2, <2>3
  <1>7. Ownership'
    BY <1>6 DEF Ownership
  <1> QED
    BY <1>4, <1>5, <1>7

(* The call of the caller that holds the lock ends.                        *)
LEMMA ReturnTyped ==
    ASSUME TypeOK, NEW c \in Callers, lock = c, Return(c)
    PROVE  /\ call' \in [Callers -> [pc : {"out", "read", "write", "asking", "starting"},
                                     arg : Formats \cup Data \cup {None}]]
           /\ lock' = None /\ lock' \in Callers \cup {None}
           /\ call'[c] = Out
           /\ \A b \in Callers : b # c => call'[b] = call[b]
           /\ \A b \in Callers : call'[b].pc \in {"asking", "starting"} <=> lock' = b
  BY DEF TypeOK, Return, Out

(* A daemon ends, or serves from now on: no daemon starts any more.        *)
LEMMA StartEnds ==
    ASSUME Inv, NEW d \in Daemons, Starting(d), Return(daemon[d].for),
           \A e \in Daemons : e # d => daemon'[e] = daemon[e],
           daemon'[d].pc \in {"gone", "serving"}
    PROVE  /\ call' \in [Callers -> [pc : {"out", "read", "write", "asking", "starting"},
                                     arg : Formats \cup Data \cup {None}]]
           /\ lock' \in Callers \cup {None}
           /\ \A b \in Callers : call'[b].pc \in {"asking", "starting"} <=> lock' = b
           /\ \A e \in Daemons : ~Starting(e)'
           /\ OneStarts'
  <1>1. daemon[d].for \in Callers /\ lock = daemon[d].for
    BY DEF Inv, OneStarts
  <1>2. /\ call' \in [Callers -> [pc : {"out", "read", "write", "asking", "starting"},
                                  arg : Formats \cup Data \cup {None}]]
        /\ lock' \in Callers \cup {None}
        /\ call'[daemon[d].for] = Out
        /\ \A b \in Callers : b # daemon[d].for => call'[b] = call[b]
        /\ \A b \in Callers : call'[b].pc \in {"asking", "starting"} <=> lock' = b
    BY <1>1, ReturnTyped DEF Inv
  <1>3. \A e \in Daemons : ~Starting(e)'
    BY DEF Inv, OneStarts, Starting
  <1>4. OneStarts'
    BY <1>2, <1>3 DEF Inv, OneStarts, Out, Starting
  <1> QED
    BY <1>2, <1>3, <1>4

(* The daemon cannot open the display.                                     *)
LEMMA FailsStep ==
    ASSUME Inv, NEW d \in Daemons, Fails(d)
    PROVE  Inv'
  <1>1. /\ Starting(d) /\ Return(daemon[d].for) /\ held' = held
        /\ daemon' = [daemon EXCEPT ![d] = Gone]
        /\ UNCHANGED <<owner, offer, events, answer>>
    BY DEF Fails, Sync, Starting
  <1>2. /\ daemon' \in [Daemons -> [pc : {"gone", "opening", "owning", "serving"},
                                    data : Data \cup {None}, for : Callers \cup {None}]]
        /\ daemon'[d].pc = "gone"
        /\ \A e \in Daemons : e # d => daemon'[e] = daemon[e]
    BY <1>1 DEF Inv, TypeOK, Gone
  <1>3. /\ call' \in [Callers -> [pc : {"out", "read", "write", "asking", "starting"},
                                  arg : Formats \cup Data \cup {None}]]
        /\ lock' \in Callers \cup {None}
        /\ \A b \in Callers : call'[b].pc \in {"asking", "starting"} <=> lock' = b
        /\ \A e \in Daemons : ~Starting(e)'
        /\ OneStarts'
    BY <1>1, <1>2, StartEnds
  <1>4. TypeOK'
    BY <1>1, <1>2, <1>3 DEF Inv, TypeOK, Starting
  <1>5. Ownership'
    BY <1>1, <1>2 DEF Inv, Ownership, Fails
  <1> QED
    BY <1>3, <1>4, <1>5 DEF Inv

(* A daemon that does not own the selection ends, and so does its queue.   *)
LEMMA DaemonEnds ==
    ASSUME TypeOK, Ownership, NEW d \in Daemons, owner # d, owner' = owner,
           daemon' = [daemon EXCEPT ![d] = Gone], events' = [events EXCEPT ![d] = <<>>]
    PROVE  /\ daemon' \in [Daemons -> [pc : {"gone", "opening", "owning", "serving"},
                                       data : Data \cup {None}, for : Callers \cup {None}]]
           /\ daemon'[d].pc = "gone"
           /\ \A e \in Daemons : e # d => daemon'[e] = daemon[e]
           /\ events' \in [Clients -> Seq(Callers \cup {"clear"})]
           /\ Ownership'
  <1>1. d \in Clients /\ <<>> \in Seq(Callers \cup {"clear"})
    BY DEF Clients
  <1>2. /\ events' \in [Clients -> Seq(Callers \cup {"clear"})]
        /\ events'[d] = <<>>
        /\ \A y \in Clients : y # d => events'[y] = events[y]
    BY <1>1 DEF TypeOK
  <1>3. /\ daemon' \in [Daemons -> [pc : {"gone", "opening", "owning", "serving"},
                                    data : Data \cup {None}, for : Callers \cup {None}]]
        /\ daemon'[d].pc = "gone"
        /\ \A e \in Daemons : e # d => daemon'[e] = daemon[e]
    BY DEF TypeOK, Gone
  <1>4. ASSUME NEW e \in Daemons
        PROVE  /\ daemon'[e].pc \in {"gone", "opening"} => owner' # e /\ events'[e] = <<>>
               /\ (\E i \in DOMAIN events'[e] : events'[e][i] = "clear") => owner' # e
    <2>1. CASE e = d
      BY <1>2, <2>1
    <2>2. CASE e # d
      <3>1. e \in Clients
        BY DEF Clients
      <3> QED
        BY <1>2, <1>3, <2>2, <3>1 DEF Ownership
    <2> QED
      BY <2>1, <2>2
  <1> QED
    BY <1>2, <1>3, <1>4 DEF Ownership

(* The daemon finds out who owns the selection.                            *)
LEMMA ServesStep ==
    ASSUME Inv, NEW d \in Daemons, Serves(d)
    PROVE  Inv'
  <1>0. d \in Clients /\ <<>> \in Seq(Callers \cup {"clear"})
    BY DEF Clients
  <1>1. Starting(d) /\ Return(daemon[d].for) /\ UNCHANGED <<owner, offer, answer>>
    BY DEF Serves, Sync, Starting
  <1>2. daemon[d] \in [pc : {"gone", "opening", "owning", "serving"},
                       data : Data \cup {None}, for : Callers \cup {None}]
    BY DEF Inv, TypeOK
  <1>3. held' \in Data \cup {None}
    BY <1>2 DEF Inv, TypeOK, Serves, Sync
  <1>4. CASE owner = d
    <2> DEFINE r == [daemon[d] EXCEPT !.pc = "serving", !.for = None]
    <2>1. /\ r \in [pc : {"gone", "opening", "owning", "serving"},
                     data : Data \cup {None}, for : Callers \cup {None}]
          /\ r.pc = "serving"
      BY <1>2
    <2>2. daemon' = [daemon EXCEPT ![d] = r] /\ events' = events
      BY <1>4 DEF Serves
    <2>3. /\ daemon' \in [Daemons -> [pc : {"gone", "opening", "owning", "serving"},
                                      data : Data \cup {None}, for : Callers \cup {None}]]
          /\ daemon'[d].pc = "serving"
          /\ \A e \in Daemons : e # d => daemon'[e] = daemon[e]
      <3> HIDE DEF r
      <3> QED
        BY <2>1, <2>2 DEF Inv, TypeOK
    <2>4. /\ call' \in [Callers -> [pc : {"out", "read", "write", "asking", "starting"},
                                    arg : Formats \cup Data \cup {None}]]
          /\ lock' \in Callers \cup {None}
          /\ \A b \in Callers : call'[b].pc \in {"asking", "starting"} <=> lock' = b
          /\ \A e \in Daemons : ~Starting(e)'
          /\ OneStarts'
      BY <1>1, <2>3, StartEnds
    <2>5. TypeOK'
      BY <1>1, <1>3, <2>2, <2>3, <2>4 DEF Inv, TypeOK, Starting
    <2>6. Ownership'
      BY <1>1, <2>2, <2>3 DEF Inv, Ownership
    <2> QED
      BY <2>4, <2>5, <2>6 DEF Inv
  <1>5. CASE owner # d
    <2>1. /\ daemon' = [daemon EXCEPT ![d] = Gone]
          /\ events' = [events EXCEPT ![d] = <<>>]
      BY <1>5 DEF Serves
    <2>2. /\ daemon' \in [Daemons -> [pc : {"gone", "opening", "owning", "serving"},
                                      data : Data \cup {None}, for : Callers \cup {None}]]
          /\ daemon'[d].pc = "gone"
          /\ \A e \in Daemons : e # d => daemon'[e] = daemon[e]
          /\ events' \in [Clients -> Seq(Callers \cup {"clear"})]
          /\ Ownership'
      BY <1>1, <1>5, <2>1, DaemonEnds DEF Inv
    <2>3. /\ call' \in [Callers -> [pc : {"out", "read", "write", "asking", "starting"},
                                    arg : Formats \cup Data \cup {None}]]
          /\ lock' \in Callers \cup {None}
          /\ \A b \in Callers : call'[b].pc \in {"asking", "starting"} <=> lock' = b
          /\ \A e \in Daemons : ~Starting(e)'
          /\ OneStarts'
      BY <1>1, <2>2, StartEnds
    <2>4. TypeOK'
      BY <1>1, <1>3, <2>2, <2>3 DEF Inv, TypeOK, Starting
    <2> QED
      BY <2>2, <2>3, <2>4 DEF Inv
  <1> QED
    BY <1>4, <1>5

(* A daemon that serves answers a request, or ends when it is told that it *)
(* has lost the selection.                                                 *)
LEMMA EventsStep ==
    ASSUME Inv, NEW d \in Daemons, SelectionRequest(d) \/ SelectionClear(d)
    PROVE  Inv'
  <1> USE DEF Inv
  <1>0. d \in Clients
    BY DEF Clients
  <1>1. CASE SelectionRequest(d)
    <2>1. /\ events' \in [Clients -> Seq(Callers \cup {"clear"})]
          /\ \A y \in Clients : y # d => events'[y] = events[y]
          /\ (\E i \in DOMAIN events'[d] : events'[d][i] = "clear")
             => \E i \in DOMAIN events[d] : events[d][i] = "clear"
      BY <1>0, <1>1, UnqueueOne DEF SelectionRequest
    <2>2. answer' \in [Callers -> [sent : BOOLEAN, data : Data \cup {None}]]
      <3>1. daemon[d].data \in Data \cup {None}
        BY DEF TypeOK
      <3> QED
        BY <1>0, <1>1, <3>1, AnswerTyped DEF SelectionRequest
    <2>3. UNCHANGED <<call, lock, daemon, owner, offer, held>> /\ daemon[d].pc = "serving"
      BY <1>1 DEF SelectionRequest
    <2>4. TypeOK' /\ OneStarts'
      BY <2>1, <2>2, <2>3 DEF TypeOK, OneStarts, Starting
    <2>5. ASSUME NEW e \in Daemons
          PROVE  /\ daemon'[e].pc \in {"gone", "opening"} => owner' # e /\ events'[e] = <<>>
                 /\ (\E i \in DOMAIN events'[e] : events'[e][i] = "clear") => owner' # e
      <3>1. e \in Clients
        BY DEF Clients
      <3> QED
        BY <2>1, <2>3, <3>1 DEF Ownership
    <2> QED
      BY <2>4, <2>5 DEF Ownership
  <1>2. CASE SelectionClear(d)
    <2>1. owner # d
      <3>1. events[d] \in Seq(Callers \cup {"clear"}) /\ events[d] # <<>>
        BY <1>0, <1>2 DEF SelectionClear, TypeOK
      <3>2. 1 \in DOMAIN events[d] /\ events[d][1] = "clear"
        BY <1>2, <3>1 DEF SelectionClear
      <3> QED
        BY <3>2 DEF Ownership
    <2>2. /\ daemon' \in [Daemons -> [pc : {"gone", "opening", "owning", "serving"},
                                      data : Data \cup {None}, for : Callers \cup {None}]]
          /\ daemon'[d].pc = "gone"
          /\ \A e \in Daemons : e # d => daemon'[e] = daemon[e]
          /\ events' \in [Clients -> Seq(Callers \cup {"clear"})]
          /\ Ownership'
      BY <1>2, <2>1, DaemonEnds DEF SelectionClear
    <2>3. UNCHANGED <<call, lock, owner, offer, answer, held>>
      BY <1>2 DEF SelectionClear
    <2>4. TypeOK' /\ OneStarts'
      BY <2>2, <2>3 DEF TypeOK, OneStarts, Starting
    <2> QED
      BY <2>2, <2>4
  <1> QED
    BY <1>1, <1>2

(* The other applications.                                                 *)
LEMMA AppsStep ==
    ASSUME Inv, NEW a \in Apps, AppHandles(a) \/ Exits(a) \/ \E x \in Data : Copies(a, x)
    PROVE  Inv'
  <1> USE DEF Inv
  <1>0. a \in Clients /\ a \notin Daemons
    BY DEF Clients
  <1>1. CASE AppHandles(a)
    <2>1. /\ events' \in [Clients -> Seq(Callers \cup {"clear"})]
          /\ \A y \in Clients : y # a => events'[y] = events[y]
      BY <1>0, <1>1, UnqueueOne DEF AppHandles
    <2>2. offer[a] \in Data \cup {None}
      BY DEF TypeOK
    <2>3. answer' \in [Callers -> [sent : BOOLEAN, data : Data \cup {None}]]
      BY <1>0, <1>1, <2>2, AnswerTyped DEF AppHandles
    <2>4. UNCHANGED <<call, lock, daemon, owner, offer, held>>
      BY <1>1 DEF AppHandles
    <2>5. TypeOK' /\ OneStarts'
      BY <2>1, <2>3, <2>4 DEF TypeOK, OneStarts, Starting
    <2>6. \A e \in Daemons : events'[e] = events[e]
      BY <1>0, <2>1 DEF Clients
    <2> QED
      BY <2>4, <2>5, <2>6 DEF Ownership
  <1>2. CASE Exits(a)
    <2>1. /\ events' \in [Clients -> Seq(Callers \cup {"clear"})]
          /\ \A e \in Daemons : events'[e] = events[e]
      <3>1. <<>> \in Seq(Callers \cup {"clear"})
        OBVIOUS
      <3> QED
        BY <1>0, <1>2, <3>1 DEF Exits, TypeOK, Clients
    <2>2. TypeOK' /\ OneStarts'
      BY <1>2, <2>1 DEF Exits, TypeOK, OneStarts, Starting
    <2>3. Ownership'
      BY <1>2, <2>1 DEF Exits, Ownership
    <2> QED
      BY <2>2, <2>3
  <1>3. CASE \E x \in Data : Copies(a, x)
    <2>1. PICK x \in Data : Copies(a, x)
      BY <1>3
    <2>2. /\ events' \in [Clients -> Seq(Callers \cup {"clear"})]
          /\ \A y \in Clients : y # owner \/ owner \notin Daemons => events'[y] = events[y]
      <3>1. CASE owner \in Daemons
        <4>1. owner \in Clients /\ events' = [events EXCEPT ![owner] = Append(@, "clear")]
          BY <2>1, <3>1 DEF Copies, Takes, Clients
        <4> QED
          BY <3>1, <4>1, QueueOne
      <3>2. CASE owner \notin Daemons
        BY <2>1, <3>2 DEF Copies, Takes, TypeOK
      <3> QED
        BY <3>1, <3>2
    <2>3. TypeOK' /\ OneStarts'
      BY <1>0, <2>1, <2>2 DEF Copies, Takes, TypeOK, OneStarts, Starting
    <2>4. ASSUME NEW e \in Daemons
          PROVE  /\ daemon'[e].pc \in {"gone", "opening"} => owner' # e /\ events'[e] = <<>>
                 /\ (\E i \in DOMAIN events'[e] : events'[e][i] = "clear") => owner' # e
      <3>1. e \in Clients /\ owner' # e
        BY <1>0, <2>1 DEF Clients, Copies, Takes
      <3> QED
        BY <2>1, <2>2, <3>1 DEF Copies, Ownership
    <2> QED
      BY <2>3, <2>4 DEF Ownership
  <1> QED
    BY <1>1, <1>2, <1>3

(* Every step keeps Inv.                                                   *)
LEMMA InvStep == Inv /\ [Next]_vars => Inv'
  <1> SUFFICES ASSUME Inv, [Next]_vars PROVE Inv'
    OBVIOUS
  <1>1. CASE \E c \in Callers :
                \/ \E f \in Formats : Read(c, f)
                \/ \E d \in Data : Write(c, d)
                \/ ClipboardRead(c) \/ ReadReturns(c) \/ StartDaemon(c)
    BY <1>1, CallsStep
  <1>2. CASE \E d \in Daemons : Runs(d)
    BY <1>2, OwnsStep, FailsStep, ServesStep, EventsStep DEF Runs
  <1>3. CASE \E a \in Apps : AppHandles(a) \/ Exits(a) \/ \E d \in Data : Copies(a, d)
    BY <1>3, AppsStep
  <1>4. CASE UNCHANGED vars
    BY <1>4 DEF vars, Inv, TypeOK, OneStarts, Starting, Ownership
  <1> QED
    BY <1>1, <1>2, <1>3, <1>4 DEF Next

(* Every state is typed: the lock is held by the caller that waits for an  *)
(* answer or a daemon, and by no other (clipboard.go:117, clipboard.go:132)*)
THEOREM TypeCorrect == Spec => []TypeOK
  <1>1. Inv => TypeOK
    BY DEF Inv
  <1> QED
    BY <1>1, InvInit, InvStep, PTL DEF Spec

(* A step keeps WrittenIsServed, since Inv says that a daemon that does    *)
(* not serve yet is not the owner of what was written, and that the one    *)
(* that is told that it lost the selection is no longer its owner.         *)
LEMMA ServedStep == Inv /\ WrittenIsServed /\ [Next]_vars => WrittenIsServed'
  <1> SUFFICES ASSUME Inv, WrittenIsServed, [Next]_vars, held' # None
               PROVE  /\ owner' \in Daemons
                      /\ daemon'[owner'].pc = "serving" /\ daemon'[owner'].data = held'
    BY DEF WrittenIsServed
  <1>1. ASSUME NEW c \in Callers, StartDaemon(c)
        PROVE  owner' \in Daemons /\ daemon'[owner'] = daemon[owner] /\ owner' = owner
               /\ held' = held
    BY <1>1 DEF StartDaemon, Gone, WrittenIsServed, Inv, TypeOK
  <1>2. ASSUME NEW d \in Daemons, Fails(d) \/ SelectionClear(d) \/ (Serves(d) /\ owner # d)
        PROVE  owner' \in Daemons /\ daemon'[owner'] = daemon[owner] /\ owner' = owner
               /\ held' = held
    <2>1. /\ owner' = owner /\ held' = held /\ daemon' = [daemon EXCEPT ![d] = Gone]
      BY <1>2 DEF Fails, SelectionClear, Serves, Sync
    <2>2. owner \in Daemons /\ daemon[owner].pc = "serving"
      BY <2>1 DEF WrittenIsServed
    <2>3. owner # d
      <3>1. CASE SelectionClear(d)
        <4>1. events[d] \in Seq(Callers \cup {"clear"}) /\ events[d] # <<>>
          BY <3>1 DEF SelectionClear, Inv, TypeOK, Clients
        <4>2. 1 \in DOMAIN events[d] /\ events[d][1] = "clear"
          BY <3>1, <4>1 DEF SelectionClear
        <4> QED
          BY <4>2 DEF Inv, Ownership
      <3>2. CASE Fails(d)
        BY <2>2, <3>2 DEF Fails
      <3> QED
        BY <1>2, <3>1, <3>2
    <2> QED
      BY <2>1, <2>2, <2>3 DEF Inv, TypeOK
  <1>3. ASSUME NEW d \in Daemons, Serves(d), owner = d
        PROVE  /\ owner' = d /\ held' = daemon[d].data
               /\ daemon'[d].pc = "serving" /\ daemon'[d].data = daemon[d].data
    <2>1. daemon[d] \in [pc : {"gone", "opening", "owning", "serving"},
                         data : Data \cup {None}, for : Callers \cup {None}]
      BY DEF Inv, TypeOK
    <2>2. daemon'[d] = [daemon[d] EXCEPT !.pc = "serving", !.for = None]
      BY <1>3 DEF Serves, Inv, TypeOK
    <2> QED
      BY <1>3, <2>1, <2>2 DEF Serves, Sync
  <1>4. ASSUME UNCHANGED <<daemon, owner, held>>
        PROVE  owner' \in Daemons /\ daemon'[owner'] = daemon[owner] /\ owner' = owner
               /\ held' = held
    BY <1>4 DEF WrittenIsServed
  <1>5. CASE \E c \in Callers :
                \/ \E f \in Formats : Read(c, f)
                \/ \E d \in Data : Write(c, d)
                \/ ClipboardRead(c) \/ ReadReturns(c) \/ StartDaemon(c)
    BY <1>1, <1>4, <1>5 DEF Read, Write, ClipboardRead, ReadReturns, WrittenIsServed
  <1>6. CASE \E d \in Daemons : Runs(d)
    <2>1. PICK d \in Daemons : Runs(d)
      BY <1>6
    <2>2. CASE Owns(d)
      BY <2>2 DEF Owns
    <2>3. CASE Fails(d) \/ SelectionClear(d) \/ (Serves(d) /\ owner # d)
      BY <1>2, <2>3 DEF WrittenIsServed
    <2>4. CASE Serves(d) /\ owner = d
      BY <1>3, <2>4
    <2>5. CASE SelectionRequest(d)
      BY <1>4, <2>5 DEF SelectionRequest, WrittenIsServed
    <2>6. \/ Owns(d) \/ SelectionRequest(d)
          \/ Fails(d) \/ SelectionClear(d) \/ (Serves(d) /\ owner # d)
          \/ (Serves(d) /\ owner = d)
      BY <2>1 DEF Runs
    <2> QED
      BY <2>2, <2>3, <2>4, <2>5, <2>6
  <1>7. CASE \E a \in Apps : AppHandles(a) \/ Exits(a) \/ \E d \in Data : Copies(a, d)
    BY <1>4, <1>7 DEF AppHandles, Exits, Copies, WrittenIsServed
  <1>8. CASE UNCHANGED vars
    BY <1>4, <1>8 DEF vars, WrittenIsServed
  <1> QED
    BY <1>5, <1>6, <1>7, <1>8 DEF Next

(* Whatever the other callers and applications do, what a Write that       *)
(* returned with success put on the clipboard is served until somebody     *)
(* else copies (clipboard_linux.go:133).                                   *)
THEOREM WrittenServed == Spec => []WrittenIsServed
  <1>1. Init => WrittenIsServed
    BY DEF Init, WrittenIsServed
  <1> QED
    BY <1>1, InvInit, InvStep, ServedStep, PTL DEF Spec
=============================================================================
