------------------------------- MODULE Router -------------------------------
(***************************************************************************)
(* The kernel as the router of messages between the child processes:       *)
(* select and handleMessage in kernel/main.cpp, the two reads and two      *)
(* writes of kernel/Message.cpp, the whitelist of kernel/Access.cpp and    *)
(* the asynchronous writes of kernel/AIOHelper.cpp.                        *)
(*                                                                         *)
(* A message is a header and, when it has data, one more unit of payload;  *)
(* pipes hold a number of units.  A child has one thread: while it is      *)
(* blocked in a write it does not read, and the other way round.  Nor does *)
(* the kernel go back to select() before it has read the whole message.    *)
(*                                                                         *)
(* What syscalls do to the kernel's own state is the subject of WebAppMgr; *)
(* here they make the kernel write messages of its own.  FAULT marks a     *)
(* slip in the definition below it, as in WebAppMgr.                       *)
(***************************************************************************)
EXTENDS Integers, Sequences

CONSTANTS
    Procs,        \* ids of the child processes
    Mortal,       \* web apps that may crash
    Sends,        \* records [from, dst, type, len]: what children may write
    AioRefuses,   \* aio_write may fail, and write() is used instead
    Pipe,         \* bound: units a pipe holds
    MaxSends      \* bound: how many messages each child writes

KERNEL_ID == 0
NETWORK_ID == 2
UI_ID == 3
COOKIE_ID == 4
STORAGE_ID == 6
WEBAPP_FIRST_ID == 1024

\* The types of messages that the kernel tells apart
MessageTypes ==
    {"NEW_URL", "SET_URL", "NEW_WEBAPP", "UI_MSG", "WEBAPP_MSG", "FETCH_URL",
     "FETCH_URL_ABORT", "RETURN_URL", "RETURN_URL_METADATA", "COOKIE_SET", "COOKIE_GET",
     "COOKIE_GET_RETURN", "DOM_COOKIE_SET", "DOM_COOKIE_GET", "DOM_COOKIE_GET_RETURN",
     "WRITE_FILE", "READ_FILE", "READ_FILE_RETURN", "DOWNLOAD_INFO", "OTHER"}

ASSUME RouterAssumption ==
    /\ Procs \subseteq Nat \ {KERNEL_ID}
    /\ UI_ID \in Procs
    /\ Mortal \subseteq {p \in Procs : p >= WEBAPP_FIRST_ID}
    /\ \A s \in Sends : /\ s.from \in Procs /\ s.dst \in Nat /\ s.len \in {0, 1}
                        /\ s.type \in MessageTypes
    /\ AioRefuses \in BOOLEAN
    /\ Pipe \in Nat \ {0}
    /\ MaxSends \in [Procs -> Nat]

Writers == Procs \cup {KERNEL_ID}
NoMsg == [from |-> -1]

\* `from' and `num' tell messages apart; the program sees src, dst and type.
Messages == [from : Writers, num : Nat, src : Writers, dst : Nat, type : MessageTypes,
             len : {0, 1}]
Units == [part : {"header", "payload"}, msg : Messages]

VARIABLES
    kernel,    \* "up", or "short_read": an assertion of readMessageKernel failed
    procMap,   \* main.cpp procMap
    alive,     \* children that run
    sent,      \* history: what each process, or the kernel, has begun to write
    writing,   \* units a child has yet to write
    out,       \* each child's pipe to the kernel
    kReading,  \* the message whose payload the kernel waits for
    kWriting,  \* units the handler has yet to write, with their destination
    aio,       \* asynchronous writes under way to each child
    in,        \* each child's pipe from the kernel
    reading,   \* the message whose payload a child waits for
    received,  \* history: messages each child has read
    garbled    \* children that have read something that is no message

child == <<sent, writing, reading, received, garbled>>
vars == <<kernel, procMap, alive, child, out, kReading, kWriting, aio, in>>

TypeOK ==
    /\ kernel \in {"up", "short_read"}
    /\ procMap \in SUBSET Procs /\ alive \in SUBSET Procs
    /\ sent \in [Writers -> Seq(Messages)]
    /\ writing \in [Procs -> Seq(Units)]
    /\ out \in [Procs -> Seq(Units)] /\ in \in [Procs -> Seq(Units)]
    /\ \A p \in Procs : Len(out[p]) <= Pipe /\ Len(in[p]) <= Pipe
    /\ kReading \in Messages \cup {NoMsg}
    /\ kWriting \in Seq([to : Procs, unit : Units])
    /\ aio \in [Procs -> Seq(Units)]
    /\ reading \in [Procs -> Messages \cup {NoMsg}]
    /\ received \in [Procs -> Seq(Messages)]
    /\ garbled \in SUBSET Procs

Init ==
    /\ kernel = "up"
    /\ procMap = Procs /\ alive = Procs
    /\ sent = [w \in Writers |-> <<>>]
    /\ writing = [p \in Procs |-> <<>>]
    /\ out = [p \in Procs |-> <<>>] /\ in = [p \in Procs |-> <<>>]
    /\ kReading = NoMsg /\ kWriting = <<>>
    /\ aio = [p \in Procs |-> <<>>]
    /\ reading = [p \in Procs |-> NoMsg]
    /\ received = [p \in Procs |-> <<>>]
    /\ garbled = {}

-----------------------------------------------------------------------------
\* Messages

Header(m) == [part |-> "header", msg |-> m]
Payload(m) == [part |-> "payload", msg |-> m]

\* llwriteMessage: the header, then the data if there is any
Parts(m) == IF m.len = 0 THEN <<Header(m)>> ELSE <<Header(m), Payload(m)>>

\* FAULT: a full pipe takes one more.
OneTooMany(pipe) == Len(pipe) <= Pipe

HasRoom(pipe) == Len(pipe) < Pipe

\* The constructor of AccessControl: who may write what to whom.  WEBAPP_FIRST_ID
\* stands for every web app.
Whitelist ==
    {<<WEBAPP_FIRST_ID, UI_ID, t>> : t \in {"UI_MSG", "NEW_WEBAPP"}}
    \cup {<<WEBAPP_FIRST_ID, COOKIE_ID, t>> : t \in {"DOM_COOKIE_SET", "DOM_COOKIE_GET"}}
    \cup {<<WEBAPP_FIRST_ID, NETWORK_ID, t>> : t \in {"FETCH_URL", "FETCH_URL_ABORT"}}
    \cup {<<WEBAPP_FIRST_ID, STORAGE_ID, t>> : t \in {"WRITE_FILE", "READ_FILE"}}
    \cup {<<NETWORK_ID, COOKIE_ID, t>> : t \in {"COOKIE_SET", "COOKIE_GET"}}
    \cup {<<NETWORK_ID, WEBAPP_FIRST_ID, t>> : t \in {"RETURN_URL", "RETURN_URL_METADATA"}}
    \cup {<<UI_ID, WEBAPP_FIRST_ID, "WEBAPP_MSG">>,
          <<COOKIE_ID, WEBAPP_FIRST_ID, "DOM_COOKIE_GET_RETURN">>,
          <<COOKIE_ID, NETWORK_ID, "COOKIE_GET_RETURN">>,
          <<STORAGE_ID, WEBAPP_FIRST_ID, "READ_FILE_RETURN">>,
          <<STORAGE_ID, UI_ID, "DOWNLOAD_INFO">>}

Kind(id) == IF id >= WEBAPP_FIRST_ID THEN WEBAPP_FIRST_ID ELSE id

\* AccessControl::checkWrite
CheckWrite(m) ==
    \/ KERNEL_ID \in {m.src, m.dst}
    \/ <<Kind(m.src), Kind(m.dst), m.type>> \in Whitelist

-----------------------------------------------------------------------------
\* A child process

\* It starts to write a message.
Send(p) ==
    /\ p \in alive
    /\ writing[p] = <<>> /\ reading[p] = NoMsg
    /\ Len(sent[p]) < MaxSends[p]
    /\ \E s \in Sends :
          /\ s.from = p
          /\ LET m == [from |-> p, num |-> Len(sent[p]) + 1, src |-> p, dst |-> s.dst,
                       type |-> s.type, len |-> s.len]
             IN  /\ sent' = [sent EXCEPT ![p] = Append(@, m)]
                 /\ writing' = [writing EXCEPT ![p] = Parts(m)]
    /\ UNCHANGED <<kernel, procMap, alive, out, kReading, kWriting, aio, in, reading,
                   received, garbled>>

\* write() of a unit returns when the pipe has room.
WriteUnit(p) ==
    /\ p \in alive
    /\ writing[p] # <<>> /\ HasRoom(out[p])
    /\ out' = [out EXCEPT ![p] = Append(@, Head(writing[p]))]
    /\ writing' = [writing EXCEPT ![p] = Tail(@)]
    /\ UNCHANGED <<kernel, procMap, alive, sent, kReading, kWriting, aio, in, reading,
                   received, garbled>>

\* readMessage: a header, then the payload it announces
Understands(p, unit) ==
    \/ /\ reading[p] = NoMsg /\ unit.part = "header"
       /\ IF unit.msg.len = 0
          THEN /\ received' = [received EXCEPT ![p] = Append(@, unit.msg)]
               /\ UNCHANGED reading
          ELSE /\ reading' = [reading EXCEPT ![p] = unit.msg]
               /\ UNCHANGED received
       /\ UNCHANGED garbled
    \/ /\ reading[p] # NoMsg /\ unit = Payload(reading[p])
       /\ received' = [received EXCEPT ![p] = Append(@, reading[p])]
       /\ reading' = [reading EXCEPT ![p] = NoMsg]
       /\ UNCHANGED garbled

\* What it takes for a header, or for the payload, is something else.
Misreads(p, unit) ==
    /\ \/ reading[p] = NoMsg /\ unit.part # "header"
       \/ reading[p] # NoMsg /\ unit # Payload(reading[p])
    /\ garbled' = garbled \cup {p}
    /\ UNCHANGED <<reading, received>>

ReadUnit(p) ==
    /\ p \in alive
    /\ writing[p] = <<>> /\ in[p] # <<>>
    /\ Understands(p, Head(in[p])) \/ Misreads(p, Head(in[p]))
    /\ in' = [in EXCEPT ![p] = Tail(@)]
    /\ UNCHANGED <<kernel, procMap, alive, sent, writing, out, kReading, kWriting, aio>>

\* A web app crashes, in the middle of a message or not.  Its memory is gone;
\* what it wrote stays in the pipe.
Crash(p) ==
    /\ p \in Mortal \cap alive
    /\ alive' = alive \ {p}
    /\ writing' = [writing EXCEPT ![p] = <<>>]
    /\ UNCHANGED <<kernel, procMap, sent, out, kReading, kWriting, aio, in, reading,
                   received, garbled>>

-----------------------------------------------------------------------------
\* The kernel

To(p, units) == [i \in DOMAIN units |-> [to |-> p, unit |-> units[i]]]

\* What handleNewUrl writes: MSG_SET_URL to the web app it has chosen, then
\* MSG_NEW_WEBAPP to the UI under the web app's id.  Every web app of the model
\* may be the one that prepNewProc takes; when all have crashed it would create
\* another, and the model stops there.
NewUrl(app) ==
    LET n == Len(sent[KERNEL_ID])
        setUrl == [from |-> KERNEL_ID, num |-> n + 1, src |-> KERNEL_ID, dst |-> app,
                   type |-> "SET_URL", len |-> 1]
        newWebApp == [from |-> KERNEL_ID, num |-> n + 2, src |-> app, dst |-> UI_ID,
                      type |-> "NEW_WEBAPP", len |-> 1]
    IN  /\ sent' = [sent EXCEPT ![KERNEL_ID] = @ \o <<setUrl, newWebApp>>]
        /\ kWriting' = To(app, Parts(setUrl)) \o To(UI_ID, Parts(newWebApp))

\* The rest of handleMessage, and the check that comes before every write:
\* a message for no process, or for one that the sender may not write to, is
\* dropped.
Route(m) ==
    \/ /\ m.dst = KERNEL_ID /\ m.type = "NEW_URL"
       /\ \E app \in procMap : app >= WEBAPP_FIRST_ID /\ NewUrl(app)
    \/ /\ m.dst = KERNEL_ID /\ m.type # "NEW_URL"
       /\ kWriting' = <<>> /\ UNCHANGED sent
    \/ /\ m.dst \in procMap /\ CheckWrite(m)
       /\ kWriting' = To(m.dst, Parts(m)) /\ UNCHANGED sent
    \/ /\ m.dst # KERNEL_ID /\ (m.dst \in procMap => ~CheckWrite(m))
       /\ kWriting' = <<>> /\ UNCHANGED sent

\* select() finds data, or the end of the file that a crashed child leaves
\* until the signal handler has removed it.
Ready(p) == p \in procMap /\ (out[p] # <<>> \/ p \notin alive)

\* The main loop serves the first ready process of procMap only.  At end of
\* file there is nothing to read, and the empty message, which is taken for a
\* MSG_NEW_URL without a container, has no effect: no step, but nobody behind
\* it is served either.
Serve(p) ==
    /\ kernel = "up" /\ kReading = NoMsg /\ kWriting = <<>>
    /\ Ready(p) /\ \A q \in procMap : Ready(q) => p <= q
    /\ out[p] # <<>>
    /\ LET m == Head(out[p]).msg IN
       IF m.len = 0
       THEN Route(m) /\ UNCHANGED kReading
       ELSE kReading' = m /\ UNCHANGED <<kWriting, sent>>
    /\ out' = [out EXCEPT ![p] = Tail(@)]
    /\ UNCHANGED <<kernel, procMap, alive, writing, aio, in, reading, received, garbled>>

\* The second read of readMessageKernel blocks until the payload is there.
ReadPayload ==
    /\ kernel = "up" /\ kReading # NoMsg
    /\ LET p == kReading.from IN
       /\ out[p] # <<>>
       /\ Route(kReading)
       /\ out' = [out EXCEPT ![p] = Tail(@)]
    /\ kReading' = NoMsg
    /\ UNCHANGED <<kernel, procMap, alive, writing, aio, in, reading, received, garbled>>

\* Its writer has crashed: read() returns 0 and assert(ret == getDataLen())
\* fails.
ReadsTooLittle ==
    /\ kernel = "up" /\ kReading # NoMsg
    /\ out[kReading.from] = <<>> /\ kReading.from \notin alive
    /\ kernel' = "short_read"
    /\ UNCHANGED <<procMap, alive, child, out, kReading, kWriting, aio, in>>

\* FAULT: payloads are written at once.
PayloadsSync(p, unit) ==
    IF unit.part = "payload" /\ p \in alive
    THEN HasRoom(in[p]) /\ in' = [in EXCEPT ![p] = Append(@, unit)] /\ UNCHANGED aio
    ELSE aio' = [aio EXCEPT ![p] = Append(@, unit)] /\ UNCHANGED in

\* FAULT: messages without data are written at once.
ShortSync(p, unit) ==
    IF unit.msg.len = 0 /\ p \in alive
    THEN HasRoom(in[p]) /\ in' = [in EXCEPT ![p] = Append(@, unit)] /\ UNCHANGED aio
    ELSE aio' = [aio EXCEPT ![p] = Append(@, unit)] /\ UNCHANGED in

\* FAULT: the kernel writes and waits.
AllSync(p, unit) ==
    /\ p \in alive => HasRoom(in[p])
    /\ in' = IF p \in alive THEN [in EXCEPT ![p] = Append(@, unit)] ELSE in
    /\ UNCHANGED aio

\* AIOHelper::write: aio_write takes the unit and returns, or the kernel
\* writes it itself, past whatever is still under way.
Written(p, unit) ==
    \/ aio' = [aio EXCEPT ![p] = Append(@, unit)] /\ UNCHANGED in
    \/ /\ AioRefuses
       /\ p \in alive => HasRoom(in[p])
       /\ in' = IF p \in alive THEN [in EXCEPT ![p] = Append(@, unit)] ELSE in
       /\ UNCHANGED aio

KernelWrites ==
    /\ kernel = "up" /\ kWriting # <<>>
    /\ Written(Head(kWriting).to, Head(kWriting).unit)
    /\ kWriting' = Tail(kWriting)
    /\ UNCHANGED <<kernel, procMap, alive, child, out, kReading>>

\* glibc completes the writes to one descriptor in order, when there is room;
\* to a pipe that nobody reads they fail.
AioCompletes(p) ==
    /\ kernel = "up" /\ aio[p] # <<>>
    /\ \/ p \in alive /\ HasRoom(in[p]) /\ in' = [in EXCEPT ![p] = Append(@, Head(aio[p]))]
       \/ p \notin alive /\ UNCHANGED in
    /\ aio' = [aio EXCEPT ![p] = Tail(@)]
    /\ UNCHANGED <<kernel, procMap, alive, child, out, kReading, kWriting>>

\* sigchldHandler, wherever the kernel is: handleUnexpectedClose.
Sigchld(p) ==
    /\ kernel = "up"
    /\ p \in procMap /\ p \notin alive
    /\ procMap' = procMap \ {p}
    /\ UNCHANGED <<kernel, alive, child, out, kReading, kWriting, aio, in>>

Next ==
    \/ \E p \in Procs : Send(p)
    \/ \E p \in Procs : WriteUnit(p)
    \/ \E p \in Procs : ReadUnit(p)
    \/ \E p \in Procs : Crash(p)
    \/ \E p \in Procs : Serve(p)
    \/ ReadPayload
    \/ ReadsTooLittle
    \/ KernelWrites
    \/ \E p \in Procs : AioCompletes(p)
    \/ \E p \in Procs : Sigchld(p)

Spec == Init /\ [][Next]_vars

\* Children write what they have begun and read when they are idle, the kernel
\* and its asynchronous writes run, and SIGCHLD is delivered.  Nobody has to
\* begin another message, or to crash.
Fairness ==
    /\ \A p \in Procs : /\ WF_vars(WriteUnit(p)) /\ WF_vars(ReadUnit(p))
                        /\ WF_vars(Serve(p))
                        /\ WF_vars(AioCompletes(p)) /\ WF_vars(Sigchld(p))
    /\ WF_vars(ReadPayload) /\ WF_vars(ReadsTooLittle) /\ WF_vars(KernelWrites)

FairSpec == Spec /\ Fairness

-----------------------------------------------------------------------------
\* Properties

\* No process ever takes a payload for a header, or the other way round, or
\* the payload of one message for that of another, although header and payload
\* are written apart and other messages to the same process are under way.
MessagesStayWhole == garbled = {}

\* What w has to bring to p
Routable(p, m) == m.dst = p /\ CheckWrite(m)
GotFrom(p, w) == {i \in DOMAIN received[p] : received[p][i].from = w}

\* What p has read from w is what w wrote to it, as far as the whitelist lets
\* it pass: nothing forbidden or made up, nothing twice or out of order, and
\* nothing lost in between.
DeliveredInOrder ==
    \A p \in Procs, w \in Writers :
        /\ \A i \in GotFrom(p, w) :
              LET m == received[p][i] IN
              m.num \in DOMAIN sent[w] /\ sent[w][m.num] = m /\ Routable(p, m)
        /\ \A i, j \in GotFrom(p, w) : i < j => received[p][i].num < received[p][j].num
        /\ \A i \in GotFrom(p, w), k \in DOMAIN sent[w] :
              k < received[p][i].num /\ Routable(p, sent[w][k]) =>
                  \E j \in GotFrom(p, w) : received[p][j] = sent[w][k]

\* In the end everything that one child, or the kernel, has written to another
\* has arrived, unless one of them or the kernel has crashed: no cycle of full
\* pipes ever forms, and no child is passed over.  (Each of them writes a
\* bounded number of messages, so there is an end.)
EverythingArrives ==
    <>[]( kernel = "up" =>
            \A p \in alive, w \in alive \cup {KERNEL_ID} :
                \A k \in DOMAIN sent[w] : Routable(p, sent[w][k]) =>
                    \E i \in DOMAIN received[p] : received[p][i] = sent[w][k] )

-----------------------------------------------------------------------------
\* The inductive invariant behind MessagesStayWhole, where aio_write does not
\* fail: what is on the way to a child that runs continues what it has read.

\* The message whose payload must come next after a unit
Pending(unit) == IF unit.part = "header" /\ unit.msg.len = 1 THEN unit.msg ELSE NoMsg

\* A unit that may come while the payload of m, or of no message, is due
Fits(m, unit) == IF m = NoMsg THEN unit.part = "header" ELSE unit = Payload(m)

\* What is due after the first n units of a stream, if m was due before them
DueAfter(m, units, n) == IF n = 0 THEN m ELSE Pending(units[n])
Flows(m, units) == \A i \in 1..Len(units) : Fits(DueAfter(m, units, i - 1), units[i])

DueAfterPipe(p) == DueAfter(reading[p], in[p], Len(in[p]))
DueAfterAio(p) == DueAfter(DueAfterPipe(p), aio[p], Len(aio[p]))

PipesFlow == \A p \in alive : Flows(reading[p], in[p])
AioFlows == \A p \in alive : Flows(DueAfterPipe(p), aio[p])

\* The handler writes whole messages, one after the other ...
HandlerFlows ==
    /\ \A i \in 2..Len(kWriting) :
          /\ Fits(Pending(kWriting[i - 1].unit), kWriting[i].unit)
          /\ Pending(kWriting[i - 1].unit) # NoMsg => kWriting[i].to = kWriting[i - 1].to
    /\ kWriting # <<>> => Pending(kWriting[Len(kWriting)].unit) = NoMsg

\* ... and goes on where it is: nobody else is in the middle of a message.
HandlerContinues ==
    \A p \in alive :
        IF kWriting # <<>> /\ kWriting[1].to = p
        THEN Fits(DueAfterAio(p), kWriting[1].unit)
        ELSE DueAfterAio(p) = NoMsg

\* The kernel reads a message to its end before it writes.
ReadsThenWrites == kReading = NoMsg \/ kWriting = <<>>

IInv ==
    /\ TypeOK
    /\ ReadsThenWrites
    /\ PipesFlow
    /\ AioFlows
    /\ HandlerFlows
    /\ HandlerContinues
    /\ MessagesStayWhole

-----------------------------------------------------------------------------
\* The inductive invariant behind DeliveredInOrder, which needs IInv too: all
\* that was sent and not dropped is in one place on its way, and along the way
\* the messages of one writer are older the further they have come.

\* The messages whose headers are among some units
Begun(units) == {units[i].msg : i \in {j \in DOMAIN units : units[j].part = "header"}}

\* The places of a message that p is to have, from the last to the first
Got(p) == {received[p][i] : i \in DOMAIN received[p]}
Held(p) == {reading[p]} \ {NoMsg}
Carried(k, p) == {k[i].unit.msg : i \in {j \in DOMAIN k : k[j].to = p
                                                       /\ k[j].unit.part = "header"}}
InHand(p) == Carried(kWriting, p)
OnWay(p) == Got(p) \cup Held(p) \cup Begun(in[p]) \cup Begun(aio[p]) \cup InHand(p)

\* Those before the kernel decides where it goes
AtDoor == {kReading} \ {NoMsg}
Before(w) == Begun(out[w]) \cup Begun(writing[w])
NotYet == AtDoor \cup UNION {Before(w) : w \in Procs}

\* Older messages first
Lower(S, T) == \A m \in S, n \in T : m.from = n.from => m.num < n.num
Ascend(msgs) == \A i, j \in DOMAIN msgs :
                   i < j /\ msgs[i].from = msgs[j].from => msgs[i].num < msgs[j].num
AscendUnits(units) ==
    \A i, j \in DOMAIN units :
        /\ i < j /\ units[i].part = "header" /\ units[j].part = "header"
        /\ units[i].msg.from = units[j].msg.from
        => units[i].msg.num < units[j].msg.num

QueueInOrder(p) ==
    /\ Ascend(received[p]) /\ AscendUnits(in[p]) /\ AscendUnits(aio[p])
    /\ Lower(Got(p), Held(p))
    /\ Lower(Got(p) \cup Held(p), Begun(in[p]))
    /\ Lower(Got(p) \cup Held(p) \cup Begun(in[p]), Begun(aio[p]))
    /\ Lower(Got(p) \cup Held(p) \cup Begun(in[p]) \cup Begun(aio[p]), InHand(p))

DoorInOrder(w) ==
    /\ AscendUnits(out[w]) /\ AscendUnits(writing[w])
    /\ Lower(Begun(out[w]), Begun(writing[w]))
    /\ Lower(AtDoor, Before(w))

AscendCarried(k) ==
    \A i, j \in DOMAIN k :
        /\ i < j /\ k[i].unit.part = "header" /\ k[j].unit.part = "header"
        /\ k[i].unit.msg.from = k[j].unit.msg.from
        => k[i].unit.msg.num < k[j].unit.msg.num

OldestAreAhead ==
    /\ \A p \in Procs : QueueInOrder(p) /\ Lower(OnWay(p), NotYet)
    /\ AscendCarried(kWriting)
    /\ \A w \in Procs : DoorInOrder(w)

\* Whatever is under way was sent, and is where it belongs.
Known(m) == m.num \in DOMAIN sent[m.from] /\ sent[m.from][m.num] = m
AllWereSent ==
    /\ \A w \in Writers : \A k \in DOMAIN sent[w] :
          sent[w][k].from = w /\ sent[w][k].num = k
    /\ \A p \in Procs : \A m \in OnWay(p) : Known(m) /\ Routable(p, m)
    /\ \A m \in NotYet : Known(m)
    /\ \A m \in AtDoor : m.from \in Procs
    /\ \A w \in Procs : /\ \A m \in Before(w) : m.from = w
                        /\ \A m \in Begun(writing[w]) : m.num = Len(sent[w])

\* What was sent is under way, except the last message of one who crashed.
NoneIsLost ==
    \A p \in alive, w \in Writers : \A k \in DOMAIN sent[w] :
        /\ Routable(p, sent[w][k])
        /\ w \in alive \cup {KERNEL_ID} \/ k < Len(sent[w])
        => sent[w][k] \in OnWay(p) \cup NotYet

\* The kernel, too, never takes a payload for a header.
DueFrom(w) == IF kReading.from = w THEN kReading ELSE NoMsg
DueAfterOut(w) == DueAfter(DueFrom(w), out[w], Len(out[w]))
ReadsWhole(w) ==
    /\ Flows(DueFrom(w), out[w])
    /\ w \in alive => /\ Flows(DueAfterOut(w), writing[w])
                      /\ DueAfter(DueAfterOut(w), writing[w], Len(writing[w])) = NoMsg
KernelReadsWhole == \A w \in Procs : ReadsWhole(w)

UnderWay ==
    /\ alive \subseteq procMap
    /\ KernelReadsWhole
    /\ OldestAreAhead
    /\ AllWereSent
    /\ NoneIsLost

WayInv == UnderWay /\ DeliveredInOrder

-----------------------------------------------------------------------------
\* What EverythingArrives says of a moment: nothing is stuck.

\* A message can be handled, but for a MSG_NEW_URL when no web app is left
\* (see NewUrl).
CanRoute(m) == m.dst = KERNEL_ID /\ m.type = "NEW_URL" =>
                  \E app \in procMap : app >= WEBAPP_FIRST_ID

ChildCanStep(p) == \/ writing[p] # <<>> /\ HasRoom(out[p])
                   \/ writing[p] = <<>> /\ in[p] # <<>>

KernelCanServe ==
    /\ kReading = NoMsg /\ kWriting = <<>>
    /\ \E p \in procMap :
          /\ Ready(p) /\ \A q \in procMap : Ready(q) => p <= q
          /\ out[p] # <<>>
          /\ Head(out[p]).msg.len = 0 => CanRoute(Head(out[p]).msg)

KernelCanRead ==
    /\ kReading # NoMsg
    /\ IF out[kReading.from] # <<>> THEN CanRoute(kReading) ELSE kReading.from \notin alive

AioCanComplete(p) == aio[p] # <<>> /\ (p \in alive => HasRoom(in[p]))

\* Somebody can do more than begin a message or crash: the guards of the actions
\* that Fairness is about.
CanStep ==
    \/ \E p \in alive : ChildCanStep(p)
    \/ /\ kernel = "up"
       /\ \/ KernelCanServe \/ KernelCanRead \/ kWriting # <<>>
          \/ \E p \in Procs : AioCanComplete(p)
          \/ procMap \ alive # {}

\* When nobody can go on, not even a cycle of writers that wait for each other,
\* all that one child, or the kernel, has written to another has arrived.
NothingIsStuck ==
    kernel = "up" /\ (\E app \in procMap : app >= WEBAPP_FIRST_ID) /\ ~CanStep =>
        \A p \in alive, w \in alive \cup {KERNEL_ID} :
            \A k \in DOMAIN sent[w] : Routable(p, sent[w][k]) =>
                \E i \in DOMAIN received[p] : received[p][i] = sent[w][k]
=============================================================================
