---------------------------- MODULE RouterProofs ----------------------------
(***************************************************************************)
(* Proofs about Router: types, that messages stay whole, that they arrive  *)
(* in the order they were written and without a gap, and that full pipes   *)
(* never lock each other, for any processes, any traffic and pipes of any  *)
(* size.                                                                   *)
(***************************************************************************)
EXTENDS Router, WellFoundedInduction, TLAPS

-----------------------------------------------------------------------------
\* Lemmas about messages and their units

\* No message is NoMsg.
LEMMA NoMsgIsNone == NoMsg \notin Messages
BY RouterAssumption DEF NoMsg, Messages, Writers, KERNEL_ID

\* A message is written as its header, and its payload if it has one.
LEMMA PartsOfMessage ==
    ASSUME NEW m \in Messages
    PROVE  /\ Parts(m) \in Seq(Units)
           /\ Parts(m) # <<>>
           /\ m.len = 0 => Len(Parts(m)) = 1 /\ Parts(m)[1] = Header(m)
           /\ m.len = 1 => /\ Len(Parts(m)) = 2
                           /\ Parts(m)[1] = Header(m) /\ Parts(m)[2] = Payload(m)
<1>1. Header(m) \in Units /\ Payload(m) \in Units
  BY DEF Header, Payload, Units
<1>2. m.len \in {0, 1}
  BY DEF Messages
<1> QED
  BY <1>1, <1>2 DEF Parts

\* What is due after the units of a message
LEMMA PendingAfter ==
    ASSUME NEW m \in Messages
    PROVE  /\ m.len = 0 => Pending(Header(m)) = NoMsg
           /\ m.len = 1 => Pending(Header(m)) = m
           /\ Pending(Payload(m)) = NoMsg
BY DEF Pending, Header, Payload

LEMMA PendingType ==
    ASSUME NEW u \in Units
    PROVE  Pending(u) \in Messages \cup {NoMsg}
BY DEF Pending, Units

\* To only adds the destination.
LEMMA ToUnits ==
    ASSUME NEW p \in Procs, NEW s \in Seq(Units)
    PROVE  /\ To(p, s) \in Seq([to : Procs, unit : Units])
           /\ Len(To(p, s)) = Len(s)
           /\ \A i \in 1..Len(s) : To(p, s)[i] = [to |-> p, unit |-> s[i]]
<1>1. DOMAIN s = 1..Len(s) /\ Len(s) \in Nat /\ \A i \in 1..Len(s) : s[i] \in Units
  OBVIOUS
<1>2. To(p, s) \in [1..Len(s) -> [to : Procs, unit : Units]]
  BY <1>1 DEF To
<1> QED
  BY <1>1, <1>2 DEF To

-----------------------------------------------------------------------------
\* Lemmas about streams of units

\* A stream stays in order when a unit that fits is added at its end ...
LEMMA FlowsAppend ==
    ASSUME NEW m, NEW s \in Seq(Units), NEW u \in Units,
           Flows(m, s), Fits(DueAfter(m, s, Len(s)), u)
    PROVE  /\ Flows(m, Append(s, u))
           /\ DueAfter(m, Append(s, u), Len(Append(s, u))) = Pending(u)
<1> DEFINE t == Append(s, u)
<1>1. /\ t \in Seq(Units) /\ Len(t) = Len(s) + 1 /\ Len(s) \in Nat
      /\ \A i \in 1..Len(s) : t[i] = s[i]
      /\ t[Len(s) + 1] = u
  OBVIOUS
<1> HIDE DEF t
<1>2. ASSUME NEW i \in 1..Len(t)
      PROVE  Fits(DueAfter(m, t, i - 1), t[i])
  <2>1. CASE i \in 1..Len(s)
    <3>1. DueAfter(m, t, i - 1) = DueAfter(m, s, i - 1)
      BY <1>1, <2>1 DEF DueAfter
    <3> QED
      BY <1>1, <2>1, <3>1 DEF Flows
  <2>2. CASE i = Len(s) + 1
    <3>1. DueAfter(m, t, i - 1) = DueAfter(m, s, Len(s))
      BY <1>1, <2>2 DEF DueAfter
    <3> QED
      BY <1>1, <2>2, <3>1
  <2> QED
    BY <1>1, <2>1, <2>2
<1>3. DueAfter(m, t, Len(t)) = Pending(u)
  BY <1>1 DEF DueAfter
<1> QED
  BY <1>2, <1>3 DEF Flows, t

\* ... and when its first unit is taken, which fits what was due.
LEMMA FlowsTail ==
    ASSUME NEW m, NEW s \in Seq(Units), s # <<>>, Flows(m, s)
    PROVE  /\ Fits(m, Head(s))
           /\ Flows(Pending(Head(s)), Tail(s))
           /\ DueAfter(Pending(Head(s)), Tail(s), Len(Tail(s))) = DueAfter(m, s, Len(s))
<1> DEFINE t == Tail(s)
<1>1. /\ Len(s) \in Nat /\ Len(s) > 0 /\ Head(s) = s[1]
      /\ t \in Seq(Units) /\ Len(t) = Len(s) - 1
      /\ \A i \in 1..Len(t) : t[i] = s[i + 1]
  OBVIOUS
<1> HIDE DEF t
<1>2. \A i \in 0..Len(t) : DueAfter(Pending(Head(s)), t, i) = DueAfter(m, s, i + 1)
  BY <1>1 DEF DueAfter
<1>3. Fits(m, Head(s))
  BY <1>1 DEF Flows, DueAfter
<1>4. ASSUME NEW i \in 1..Len(t)
      PROVE  Fits(DueAfter(Pending(Head(s)), t, i - 1), t[i])
  <2>1. i + 1 \in 1..Len(s) /\ i - 1 \in 0..Len(t) /\ (i - 1) + 1 = i /\ (i + 1) - 1 = i
    BY <1>1
  <2>2. Fits(DueAfter(m, s, i), s[i + 1])
    BY <2>1 DEF Flows
  <2> QED
    BY <1>1, <1>2, <2>1, <2>2
<1>5. DueAfter(Pending(Head(s)), t, Len(t)) = DueAfter(m, s, Len(s))
  BY <1>1, <1>2
<1> QED
  BY <1>3, <1>4, <1>5 DEF Flows, t

-----------------------------------------------------------------------------
\* Types

LEMMA ConstantFacts ==
    /\ Procs \subseteq Nat /\ KERNEL_ID \notin Procs /\ UI_ID \in Procs
    /\ Writers = Procs \cup {KERNEL_ID} /\ Writers \subseteq Nat
    /\ Pipe \in Nat /\ Pipe > 0
BY RouterAssumption DEF Writers, KERNEL_ID

LEMMA FirstAndRest ==
    ASSUME NEW S, NEW s \in Seq(S), s # <<>>
    PROVE  /\ Head(s) \in S /\ Tail(s) \in Seq(S)
           /\ Len(s) \in Nat /\ Len(Tail(s)) = Len(s) - 1
OBVIOUS

\* One more in a pipe that has room
LEMMA OneMore ==
    ASSUME NEW s \in Seq(Units), NEW u \in Units, HasRoom(s)
    PROVE  Append(s, u) \in Seq(Units) /\ Len(Append(s, u)) <= Pipe
<1>1. Append(s, u) \in Seq(Units) /\ Len(Append(s, u)) = Len(s) + 1 /\ Len(s) \in Nat
  OBVIOUS
<1>2. Pipe \in Nat
  BY RouterAssumption
<1> QED
  BY <1>1, <1>2 DEF HasRoom

LEMMA FirstAndOthers ==
    ASSUME NEW S, NEW s \in Seq(S), s # <<>>
    PROVE  /\ Len(s) \in Nat /\ Len(s) > 0 /\ s[1] \in S /\ Head(s) = s[1]
           /\ Len(Tail(s)) = Len(s) - 1
           /\ \A i \in 1..Len(Tail(s)) : Tail(s)[i] = s[i + 1]
           /\ Tail(s) = <<>> <=> Len(s) = 1
<1>1. /\ Len(s) \in Nat /\ Len(s) > 0 /\ s[1] \in S /\ Head(s) = s[1]
      /\ Tail(s) \in Seq(S) /\ Len(Tail(s)) = Len(s) - 1
      /\ \A i \in 1..Len(Tail(s)) : Tail(s)[i] = s[i + 1]
  OBVIOUS
<1>2. \A r \in Seq(S) : r = <<>> <=> Len(r) = 0
  OBVIOUS
<1> QED
  BY <1>1, <1>2

LEMMA TypeInit == Init => TypeOK
BY ConstantFacts DEF Init, TypeOK

\* What handleMessage writes are whole messages, to processes of procMap.
LEMMA RouteType ==
    ASSUME TypeOK, NEW m \in Messages, Route(m)
    PROVE  /\ sent' \in [Writers -> Seq(Messages)]
           /\ kWriting' \in Seq([to : Procs, unit : Units])
<1>1. CASE m.dst = KERNEL_ID /\ m.type = "NEW_URL" /\ \E app \in procMap : NewUrl(app)
  <2>1. PICK app \in procMap : NewUrl(app)
    BY <1>1
  <2> DEFINE n == Len(sent[KERNEL_ID])
             setUrl == [from |-> KERNEL_ID, num |-> n + 1, src |-> KERNEL_ID, dst |-> app,
                        type |-> "SET_URL", len |-> 1]
             newWebApp == [from |-> KERNEL_ID, num |-> n + 2, src |-> app, dst |-> UI_ID,
                           type |-> "NEW_WEBAPP", len |-> 1]
  <2>2. app \in Procs /\ n \in Nat /\ sent[KERNEL_ID] \in Seq(Messages)
    BY ConstantFacts DEF TypeOK
  <2>3. setUrl \in Messages /\ newWebApp \in Messages
    <3>1. /\ KERNEL_ID \in Writers /\ app \in Writers /\ app \in Nat /\ UI_ID \in Nat
          /\ n + 1 \in Nat /\ n + 2 \in Nat
      BY <2>2, ConstantFacts
    <3>2. "SET_URL" \in MessageTypes /\ "NEW_WEBAPP" \in MessageTypes
      BY DEF MessageTypes
    <3> HIDE DEF n
    <3> QED
      BY <3>1, <3>2 DEF Messages
  <2>4. /\ sent' = [sent EXCEPT ![KERNEL_ID] = @ \o <<setUrl, newWebApp>>]
        /\ kWriting' = To(app, Parts(setUrl)) \o To(UI_ID, Parts(newWebApp))
    BY <2>1 DEF NewUrl
  <2> HIDE DEF setUrl, newWebApp, n
  <2>5. sent[KERNEL_ID] \o <<setUrl, newWebApp>> \in Seq(Messages)
    BY <2>2, <2>3
  <2>6. sent' \in [Writers -> Seq(Messages)]
    BY <2>4, <2>5 DEF TypeOK
  <2>7. kWriting' \in Seq([to : Procs, unit : Units])
    <3>1. /\ To(app, Parts(setUrl)) \in Seq([to : Procs, unit : Units])
          /\ To(UI_ID, Parts(newWebApp)) \in Seq([to : Procs, unit : Units])
      BY <2>2, <2>3, ConstantFacts, PartsOfMessage, ToUnits
    <3> QED
      BY <2>4, <3>1
  <2> QED
    BY <2>6, <2>7
<1>2. CASE kWriting' = <<>> /\ UNCHANGED sent
  BY <1>2 DEF TypeOK
<1>3. CASE m.dst \in procMap /\ kWriting' = To(m.dst, Parts(m)) /\ UNCHANGED sent
  BY <1>3, PartsOfMessage, ToUnits DEF TypeOK
<1> QED
  BY <1>1, <1>2, <1>3 DEF Route

LEMMA TypeNext == TypeOK /\ [Next]_vars => TypeOK'
<1> SUFFICES ASSUME TypeOK, [Next]_vars
             PROVE  TypeOK'
  OBVIOUS
<1> USE ConstantFacts
<1>1. ASSUME NEW p \in Procs, Send(p)
      PROVE  TypeOK'
  <2>1. PICK s \in Sends :
          LET m == [from |-> p, num |-> Len(sent[p]) + 1, src |-> p, dst |-> s.dst,
                    type |-> s.type, len |-> s.len]
          IN  /\ sent' = [sent EXCEPT ![p] = Append(@, m)]
              /\ writing' = [writing EXCEPT ![p] = Parts(m)]
    BY <1>1 DEF Send
  <2> DEFINE m == [from |-> p, num |-> Len(sent[p]) + 1, src |-> p, dst |-> s.dst,
                   type |-> s.type, len |-> s.len]
  <2>2. p \in Writers /\ sent[p] \in Seq(Messages) /\ Len(sent[p]) + 1 \in Nat
    BY DEF TypeOK
  <2>3. m \in Messages
    BY <2>2, RouterAssumption DEF Messages
  <2>4. /\ sent' = [sent EXCEPT ![p] = Append(@, m)]
        /\ writing' = [writing EXCEPT ![p] = Parts(m)]
    BY <2>1
  <2> HIDE DEF m
  <2>5. Parts(m) \in Seq(Units) /\ Append(sent[p], m) \in Seq(Messages)
    BY <2>2, <2>3, PartsOfMessage
  <2>6. sent' \in [Writers -> Seq(Messages)] /\ writing' \in [Procs -> Seq(Units)]
    BY <2>4, <2>5 DEF TypeOK
  <2> QED
    BY <1>1, <2>6 DEF Send, TypeOK
<1>2. ASSUME NEW p \in Procs, WriteUnit(p)
      PROVE  TypeOK'
  <2>1. Head(writing[p]) \in Units /\ Tail(writing[p]) \in Seq(Units)
    <3>1. writing[p] \in Seq(Units) /\ writing[p] # <<>>
      BY <1>2 DEF WriteUnit, TypeOK
    <3> QED
      BY <3>1, FirstAndRest
  <2>2. Append(out[p], Head(writing[p])) \in Seq(Units)
        /\ Len(Append(out[p], Head(writing[p]))) <= Pipe
    <3>1. out[p] \in Seq(Units) /\ HasRoom(out[p])
      BY <1>2 DEF WriteUnit, TypeOK
    <3> QED
      BY <2>1, <3>1, OneMore
  <2> QED
    BY <1>2, <2>1, <2>2 DEF WriteUnit, TypeOK
<1>3. ASSUME NEW p \in Procs, ReadUnit(p)
      PROVE  TypeOK'
  <2> DEFINE u == Head(in[p])
  <2>1. u \in Units /\ Tail(in[p]) \in Seq(Units) /\ Len(Tail(in[p])) <= Pipe
    BY <1>3, FirstAndRest DEF ReadUnit, TypeOK
  <2>2. u.msg \in Messages
    BY <2>1 DEF Units
  <2>3. Understands(p, u) \/ Misreads(p, u)
    BY <1>3 DEF ReadUnit
  <2> HIDE DEF u
  <2>4. /\ received' \in [Procs -> Seq(Messages)]
        /\ reading' \in [Procs -> Messages \cup {NoMsg}]
        /\ garbled' \in SUBSET Procs
    <3>1. CASE Misreads(p, u)
      BY <3>1 DEF Misreads, TypeOK
    <3>2. CASE Understands(p, u) /\ reading[p] = NoMsg
      <4>1. Append(received[p], u.msg) \in Seq(Messages)
        BY <2>2 DEF TypeOK
      <4> QED
        BY <2>2, <3>2, <4>1 DEF Understands, TypeOK
    <3>3. CASE Understands(p, u) /\ reading[p] # NoMsg
      <4>1. Append(received[p], reading[p]) \in Seq(Messages)
        BY <3>3 DEF TypeOK
      <4>2. /\ received' = [received EXCEPT ![p] = Append(@, reading[p])]
            /\ reading' = [reading EXCEPT ![p] = NoMsg]
            /\ UNCHANGED garbled
        BY <3>3 DEF Understands
      <4> QED
        BY <4>1, <4>2 DEF TypeOK
    <3> QED
      BY <2>3, <3>1, <3>2, <3>3
  <2>5. in' = [in EXCEPT ![p] = Tail(@)]
        /\ UNCHANGED <<kernel, procMap, alive, sent, writing, out, kReading, kWriting, aio>>
    BY <1>3 DEF ReadUnit
  <2> QED
    BY <2>1, <2>4, <2>5 DEF TypeOK
<1>4. ASSUME NEW p \in Procs, Crash(p)
      PROVE  TypeOK'
  <2>1. <<>> \in Seq(Units)
    OBVIOUS
  <2>2. writing' \in [Procs -> Seq(Units)] /\ alive' \in SUBSET Procs
    BY <1>4, <2>1 DEF Crash, TypeOK
  <2> QED
    BY <1>4, <2>2 DEF Crash, TypeOK
<1>5. ASSUME NEW p \in Procs, Serve(p)
      PROVE  TypeOK'
  <2> DEFINE m == Head(out[p]).msg
  <2>1. Head(out[p]) \in Units /\ Tail(out[p]) \in Seq(Units) /\ Len(Tail(out[p])) <= Pipe
    BY <1>5 DEF Serve, TypeOK
  <2>2. m \in Messages
    BY <2>1 DEF Units
  <2>3. \/ Route(m) /\ UNCHANGED kReading
        \/ kReading' = m /\ UNCHANGED <<kWriting, sent>>
    BY <1>5 DEF Serve
  <2> HIDE DEF m
  <2>4. /\ sent' \in [Writers -> Seq(Messages)]
        /\ kWriting' \in Seq([to : Procs, unit : Units])
        /\ kReading' \in Messages \cup {NoMsg}
    BY <2>2, <2>3, RouteType DEF TypeOK
  <2>5. out' = [out EXCEPT ![p] = Tail(@)]
        /\ UNCHANGED <<kernel, procMap, alive, writing, aio, in, reading, received, garbled>>
    BY <1>5 DEF Serve
  <2> QED
    BY <2>1, <2>4, <2>5 DEF TypeOK
<1>6. ASSUME ReadPayload
      PROVE  TypeOK'
  <2> DEFINE p == kReading.from
  <2>1. out[p] # <<>> /\ Route(kReading) /\ out' = [out EXCEPT ![p] = Tail(@)]
        /\ kReading' = NoMsg /\ kReading \in Messages
        /\ UNCHANGED <<kernel, procMap, alive, writing, aio, in, reading, received, garbled>>
    BY <1>6 DEF ReadPayload, TypeOK
  <2> HIDE DEF p
  <2>2. out' \in [Procs -> Seq(Units)] /\ \A q \in Procs : Len(out'[q]) <= Pipe
    <3>1. CASE p \in Procs
      <4>1. Tail(out[p]) \in Seq(Units) /\ Len(Tail(out[p])) <= Pipe
        BY <2>1, <3>1 DEF TypeOK
      <4> QED
        BY <2>1, <3>1, <4>1 DEF TypeOK
    <3>2. CASE p \notin Procs
      BY <2>1, <3>2 DEF TypeOK
    <3> QED
      BY <3>1, <3>2
  <2>3. /\ sent' \in [Writers -> Seq(Messages)]
        /\ kWriting' \in Seq([to : Procs, unit : Units])
    BY <2>1, RouteType
  <2> QED
    BY <2>1, <2>2, <2>3 DEF TypeOK
<1>7. ASSUME ReadsTooLittle
      PROVE  TypeOK'
  BY <1>7 DEF ReadsTooLittle, TypeOK, child
<1>8. ASSUME KernelWrites
      PROVE  TypeOK'
  <2> DEFINE p == Head(kWriting).to
             u == Head(kWriting).unit
  <2>1. Head(kWriting) \in [to : Procs, unit : Units]
        /\ Tail(kWriting) \in Seq([to : Procs, unit : Units])
    BY <1>8, FirstAndRest DEF KernelWrites, TypeOK
  <2>2. p \in Procs /\ u \in Units
    BY <2>1
  <2>3. Written(p, u) /\ kWriting' = Tail(kWriting)
        /\ UNCHANGED <<kernel, procMap, alive, child, out, kReading>>
    BY <1>8 DEF KernelWrites
  <2> HIDE DEF p, u
  <2>4. aio' \in [Procs -> Seq(Units)]
    <3>1. Append(aio[p], u) \in Seq(Units)
      BY <2>2 DEF TypeOK
    <3> QED
      BY <2>3, <3>1 DEF Written, TypeOK
  <2>5. in' \in [Procs -> Seq(Units)] /\ \A q \in Procs : Len(in'[q]) <= Pipe
    <3>1. HasRoom(in[p]) => /\ Append(in[p], u) \in Seq(Units)
                            /\ Len(Append(in[p], u)) <= Pipe
      <4>1. in[p] \in Seq(Units)
        BY <2>2 DEF TypeOK
      <4> QED
        BY <2>2, <4>1, OneMore
    <3>2. in \in [Procs -> Seq(Units)] /\ \A q \in Procs : Len(in[q]) <= Pipe
      BY DEF TypeOK
    <3>3. CASE in' = in
      BY <3>2, <3>3
    <3>4. CASE HasRoom(in[p]) /\ in' = [in EXCEPT ![p] = Append(in[p], u)]
      <4> DEFINE longer == Append(in[p], u)
      <4>1. longer \in Seq(Units) /\ Len(longer) <= Pipe
        BY <3>1, <3>4
      <4>2. in' = [in EXCEPT ![p] = longer]
        BY <3>4
      <4> HIDE DEF longer
      <4> QED
        BY <2>2, <3>2, <4>1, <4>2
    <3> QED
      BY <2>3, <3>3, <3>4 DEF Written
  <2> QED
    BY <2>1, <2>3, <2>4, <2>5 DEF TypeOK, child
<1>9. ASSUME NEW p \in Procs, AioCompletes(p)
      PROVE  TypeOK'
  <2>1. Head(aio[p]) \in Units /\ Tail(aio[p]) \in Seq(Units)
    <3>1. aio[p] \in Seq(Units) /\ aio[p] # <<>>
      BY <1>9 DEF AioCompletes, TypeOK
    <3> QED
      BY <3>1, FirstAndRest
  <2>2. in \in [Procs -> Seq(Units)] /\ \A q \in Procs : Len(in[q]) <= Pipe
    BY DEF TypeOK
  <2>3. in' \in [Procs -> Seq(Units)] /\ \A q \in Procs : Len(in'[q]) <= Pipe
    <3>1. CASE in' = in
      BY <2>2, <3>1
    <3>2. CASE HasRoom(in[p]) /\ in' = [in EXCEPT ![p] = Append(@, Head(aio[p]))]
      <4>1. PICK longer : longer = Append(in[p], Head(aio[p]))
        OBVIOUS
      <4>2. longer \in Seq(Units) /\ Len(longer) <= Pipe
        BY <2>1, <2>2, <3>2, <4>1, OneMore
      <4>3. in' = [in EXCEPT ![p] = longer]
        BY <3>2, <4>1
      <4> QED
        BY <2>2, <4>2, <4>3
    <3> QED
      BY <1>9, <3>1, <3>2 DEF AioCompletes
  <2> QED
    BY <1>9, <2>1, <2>3 DEF AioCompletes, TypeOK, child
<1>10. ASSUME NEW p \in Procs, Sigchld(p)
       PROVE  TypeOK'
  BY <1>10 DEF Sigchld, TypeOK, child
<1>11. CASE UNCHANGED vars
  BY <1>11 DEF vars, child, TypeOK
<1> QED
  BY <1>1, <1>2, <1>3, <1>4, <1>5, <1>6, <1>7, <1>8, <1>9, <1>10, <1>11 DEF Next

\* Every variable keeps its type, and no pipe holds more than it can: a writer
\* always waits for room (TypeOK).
THEOREM RouterTypeCorrectness == Spec => []TypeOK
<1>1. Init => TypeOK
  BY TypeInit
<1>2. TypeOK /\ [Next]_vars => TypeOK'
  BY TypeNext
<1> QED
  BY <1>1, <1>2, PTL DEF Spec

-----------------------------------------------------------------------------
\* Messages stay whole, where aio_write does not fail

\* What the handler is given to write: whole messages
Whole(k) ==
    /\ \A i \in 2..Len(k) : /\ Fits(Pending(k[i - 1].unit), k[i].unit)
                            /\ Pending(k[i - 1].unit) # NoMsg => k[i].to = k[i - 1].to
    /\ k # <<>> => k[1].unit.part = "header" /\ Pending(k[Len(k)].unit) = NoMsg

LEMMA OneMessageIsWhole ==
    ASSUME NEW m \in Messages, NEW p \in Procs
    PROVE  Whole(To(p, Parts(m)))
<1> DEFINE k == To(p, Parts(m))
<1>1. m.len \in {0, 1}
  BY DEF Messages
<1>2. Header(m).part = "header"
  BY DEF Header
<1>3. CASE m.len = 0
  <2>1. Len(k) = 1 /\ k[1] = [to |-> p, unit |-> Header(m)]
    BY <1>3, PartsOfMessage, ToUnits
  <2> HIDE DEF k
  <2>2. k[1].unit = Header(m) /\ Pending(k[1].unit) = NoMsg
    BY <1>3, <2>1, PendingAfter
  <2> QED
    BY <1>2, <2>1, <2>2 DEF Whole, k
<1>4. CASE m.len = 1
  <2>1. /\ Len(k) = 2 /\ k[1] = [to |-> p, unit |-> Header(m)]
        /\ k[2] = [to |-> p, unit |-> Payload(m)]
    <3>1. Parts(m) \in Seq(Units) /\ Len(Parts(m)) = 2
          /\ Parts(m)[1] = Header(m) /\ Parts(m)[2] = Payload(m)
      BY <1>4, PartsOfMessage
    <3>2. 1 \in 1..Len(Parts(m)) /\ 2 \in 1..Len(Parts(m))
      BY <3>1
    <3> QED
      BY <3>1, <3>2, ToUnits
  <2> HIDE DEF k
  <2>2. /\ k[1].unit = Header(m) /\ k[2].unit = Payload(m) /\ k[1].to = k[2].to
        /\ Pending(k[1].unit) = m /\ Pending(k[2].unit) = NoMsg
    BY <1>4, <2>1, PendingAfter
  <2>3. Fits(m, Payload(m))
    BY NoMsgIsNone DEF Fits
  <2> QED
    BY <1>2, <2>1, <2>2, <2>3 DEF Whole, k
<1> QED
  BY <1>1, <1>3, <1>4

LEMMA TwoAreWhole ==
    ASSUME NEW k \in Seq([to : Procs, unit : Units]), Whole(k),
           NEW l \in Seq([to : Procs, unit : Units]), Whole(l)
    PROVE  Whole(k \o l)
<1> DEFINE t == k \o l
<1>1. /\ Len(k) \in Nat /\ Len(l) \in Nat /\ Len(t) = Len(k) + Len(l)
      /\ \A i \in 1..Len(k) : t[i] = k[i]
      /\ \A i \in 1..Len(l) : t[Len(k) + i] = l[i]
      /\ k = <<>> <=> Len(k) = 0
      /\ l = <<>> <=> Len(l) = 0
      /\ t = <<>> <=> Len(t) = 0
  OBVIOUS
<1> HIDE DEF t
<1>2. ASSUME NEW i \in 2..Len(t)
      PROVE  /\ Fits(Pending(t[i - 1].unit), t[i].unit)
             /\ Pending(t[i - 1].unit) # NoMsg => t[i].to = t[i - 1].to
  <2>1. CASE i <= Len(k)
    <3>1. i \in 2..Len(k) /\ t[i] = k[i] /\ t[i - 1] = k[i - 1]
      BY <1>1, <2>1
    <3>2. /\ Fits(Pending(k[i - 1].unit), k[i].unit)
          /\ Pending(k[i - 1].unit) # NoMsg => k[i].to = k[i - 1].to
      BY <3>1 DEF Whole
    <3> QED
      BY <3>1, <3>2
  <2>2. CASE i = Len(k) + 1 /\ Len(k) > 0
    <3>1. t[i - 1] = k[Len(k)] /\ t[i] = l[1] /\ k # <<>> /\ l # <<>>
      BY <1>1, <2>2
    <3> QED
      BY <3>1 DEF Whole, Fits
  <2>3. CASE i > Len(k) + 1
    <3> DEFINE j == i - Len(k)
    <3>1. j \in 2..Len(l) /\ i = Len(k) + j
      BY <1>1, <2>3
    <3> HIDE DEF j
    <3>2. t[i] = l[j] /\ t[i - 1] = l[j - 1]
      <4>1. j \in 1..Len(l) /\ j - 1 \in 1..Len(l) /\ i - 1 = Len(k) + (j - 1)
        BY <1>1, <3>1
      <4> QED
        BY <1>1, <3>1, <4>1
    <3>3. /\ Fits(Pending(l[j - 1].unit), l[j].unit)
          /\ Pending(l[j - 1].unit) # NoMsg => l[j].to = l[j - 1].to
      BY <3>1 DEF Whole
    <3> QED
      BY <3>2, <3>3
  <2> QED
    BY <1>1, <2>1, <2>2, <2>3
<1>3. ASSUME t # <<>>
      PROVE  t[1].unit.part = "header" /\ Pending(t[Len(t)].unit) = NoMsg
  <2>1. CASE Len(l) = 0
    <3>1. t[1] = k[1] /\ t[Len(t)] = k[Len(k)] /\ k # <<>>
      BY <1>1, <1>3, <2>1
    <3> QED
      BY <3>1 DEF Whole
  <2>2. CASE Len(l) > 0
    <3>1. t[Len(t)] = l[Len(l)] /\ l # <<>>
      BY <1>1, <2>2
    <3>2. t[1] = IF Len(k) = 0 THEN l[1] ELSE k[1]
      <4>1. Len(k) = 0 => t[1] = l[1]
        BY <1>1, <2>2
      <4>2. Len(k) # 0 => t[1] = k[1]
        BY <1>1
      <4> QED
        BY <4>1, <4>2
    <3> QED
      BY <1>1, <3>1, <3>2 DEF Whole
  <2> QED
    BY <1>1, <2>1, <2>2
<1> QED
  BY <1>2, <1>3 DEF Whole, t

LEMMA NothingIsWhole == Whole(<<>>)
BY DEF Whole

LEMMA RouteIsWhole ==
    ASSUME TypeOK, NEW m \in Messages, Route(m)
    PROVE  Whole(kWriting')
<1>1. CASE m.dst = KERNEL_ID /\ m.type = "NEW_URL" /\ \E app \in procMap : NewUrl(app)
  <2>1. PICK app \in procMap : NewUrl(app)
    BY <1>1
  <2> DEFINE n == Len(sent[KERNEL_ID])
             setUrl == [from |-> KERNEL_ID, num |-> n + 1, src |-> KERNEL_ID, dst |-> app,
                        type |-> "SET_URL", len |-> 1]
             newWebApp == [from |-> KERNEL_ID, num |-> n + 2, src |-> app, dst |-> UI_ID,
                           type |-> "NEW_WEBAPP", len |-> 1]
  <2>2. /\ app \in Procs /\ UI_ID \in Procs
        /\ setUrl \in Messages /\ newWebApp \in Messages
    <3>1. n \in Nat /\ app \in Procs
      BY ConstantFacts DEF TypeOK
    <3>2. /\ KERNEL_ID \in Writers /\ app \in Writers /\ app \in Nat /\ UI_ID \in Nat
          /\ n + 1 \in Nat /\ n + 2 \in Nat
      BY <3>1, ConstantFacts
    <3>3. "SET_URL" \in MessageTypes /\ "NEW_WEBAPP" \in MessageTypes
      BY DEF MessageTypes
    <3> HIDE DEF n
    <3> QED
      BY <3>1, <3>2, <3>3, ConstantFacts DEF Messages
  <2>3. kWriting' = To(app, Parts(setUrl)) \o To(UI_ID, Parts(newWebApp))
    BY <2>1 DEF NewUrl
  <2> HIDE DEF setUrl, newWebApp
  <2>4. /\ To(app, Parts(setUrl)) \in Seq([to : Procs, unit : Units])
        /\ To(UI_ID, Parts(newWebApp)) \in Seq([to : Procs, unit : Units])
    BY <2>2, PartsOfMessage, ToUnits
  <2>5. Whole(To(app, Parts(setUrl))) /\ Whole(To(UI_ID, Parts(newWebApp)))
    BY <2>2, OneMessageIsWhole
  <2> QED
    BY <2>3, <2>4, <2>5, TwoAreWhole
<1>2. CASE kWriting' = <<>>
  BY <1>2, NothingIsWhole
<1>3. CASE m.dst \in procMap /\ kWriting' = To(m.dst, Parts(m))
  BY <1>3, OneMessageIsWhole DEF TypeOK
<1> QED
  BY <1>1, <1>2, <1>3 DEF Route

\* A step that neither moves a unit towards a child nor decides what to write
LEMMA Undisturbed ==
    ASSUME IInv, TypeOK', ReadsThenWrites', alive' \subseteq alive,
           UNCHANGED <<reading, in, aio, kWriting, garbled>>
    PROVE  IInv'
<1>1. PipesFlow' /\ AioFlows'
  BY DEF IInv, PipesFlow, AioFlows, DueAfterPipe
<1>2. HandlerFlows' /\ HandlerContinues'
  BY DEF IInv, HandlerFlows, HandlerContinues, DueAfterAio, DueAfterPipe
<1> QED
  BY <1>1, <1>2 DEF IInv, MessagesStayWhole

\* The handler has decided.
LEMMA Decided ==
    ASSUME IInv, TypeOK', kReading' = NoMsg, kWriting = <<>>, Whole(kWriting'),
           UNCHANGED <<alive, reading, in, aio, garbled>>
    PROVE  IInv'
<1>1. PipesFlow' /\ AioFlows'
  BY DEF IInv, PipesFlow, AioFlows, DueAfterPipe
<1>2. HandlerFlows'
  BY DEF HandlerFlows, Whole
<1>3. \A p \in alive : DueAfterAio(p)' = NoMsg
  BY DEF IInv, HandlerContinues, DueAfterAio, DueAfterPipe
<1>4. HandlerContinues'
  BY <1>3 DEF HandlerContinues, Whole, Fits
<1> QED
  BY <1>1, <1>2, <1>4 DEF IInv, MessagesStayWhole, ReadsThenWrites

LEMMA ReadKeepsWhole ==
    ASSUME IInv, TypeOK', NEW p \in Procs, ReadUnit(p)
    PROVE  IInv'
<1> DEFINE u == Head(in[p])
<1>1. /\ p \in alive /\ in[p] # <<>> /\ in[p] \in Seq(Units)
      /\ Understands(p, u) \/ Misreads(p, u)
      /\ in' = [in EXCEPT ![p] = Tail(@)]
      /\ UNCHANGED <<alive, kReading, kWriting, aio>>
      /\ in \in [Procs -> Seq(Units)] /\ reading \in [Procs -> Messages \cup {NoMsg}]
  BY DEF ReadUnit, IInv, TypeOK
<1>2. u \in Units /\ u.msg \in Messages
  <2>1. u \in Units
    BY <1>1, FirstAndRest
  <2> HIDE DEF u
  <2> QED
    BY <2>1 DEF Units
<1>3. /\ Fits(reading[p], u) /\ Flows(Pending(u), Tail(in[p]))
      /\ DueAfter(Pending(u), Tail(in[p]), Len(Tail(in[p]))) = DueAfterPipe(p)
  BY <1>1, FlowsTail DEF IInv, PipesFlow, DueAfterPipe
<1> HIDE DEF u
<1>4. Understands(p, u) /\ ~Misreads(p, u)
  BY <1>1, <1>3 DEF Misreads, Fits
<1>5. reading' = [reading EXCEPT ![p] = Pending(u)]
  <2>1. CASE reading[p] = NoMsg
    <3>1. u.part = "header" /\ u.msg.len \in {0, 1}
      BY <1>2, <1>3, <2>1 DEF Fits, Messages
    <3>2. u.msg.len = 0 => reading' = reading /\ Pending(u) = NoMsg
      BY <1>4, <2>1, <3>1 DEF Understands, Pending
    <3>3. u.msg.len = 1 => reading' = [reading EXCEPT ![p] = u.msg] /\ Pending(u) = u.msg
      BY <1>4, <2>1, <3>1 DEF Understands, Pending
    <3> QED
      BY <1>1, <2>1, <3>1, <3>2, <3>3
  <2>2. CASE reading[p] # NoMsg
    <3>1. u = Payload(reading[p]) /\ reading' = [reading EXCEPT ![p] = NoMsg]
      BY <1>4, <2>2 DEF Understands
    <3>2. reading[p] \in Messages
      BY <1>1, <2>2
    <3> QED
      BY <3>1, <3>2, PendingAfter
  <2> QED
    BY <2>1, <2>2
<1>6. garbled' = {}
  BY <1>4 DEF Understands, IInv, MessagesStayWhole
<1>7. \A q \in alive : DueAfterPipe(q)' = DueAfterPipe(q)
  BY <1>1, <1>3, <1>5 DEF DueAfterPipe, IInv, TypeOK
<1>8. PipesFlow'
  BY <1>1, <1>3, <1>5 DEF PipesFlow, IInv, TypeOK
<1>9. AioFlows'
  BY <1>1, <1>7 DEF AioFlows, IInv
<1>10. HandlerFlows' /\ HandlerContinues'
  BY <1>1, <1>7 DEF HandlerFlows, HandlerContinues, DueAfterAio, IInv
<1> QED
  BY <1>1, <1>6, <1>8, <1>9, <1>10 DEF IInv, MessagesStayWhole, ReadsThenWrites

LEMMA AioKeepsWhole ==
    ASSUME IInv, TypeOK', NEW p \in Procs, AioCompletes(p)
    PROVE  IInv'
<1> DEFINE u == Head(aio[p])
<1>1. /\ aio[p] # <<>> /\ aio[p] \in Seq(Units) /\ in[p] \in Seq(Units)
      /\ p \in alive => in' = [in EXCEPT ![p] = Append(@, u)]
      /\ p \notin alive => in' = in
      /\ aio' = [aio EXCEPT ![p] = Tail(@)]
      /\ UNCHANGED <<alive, reading, garbled, kReading, kWriting>>
      /\ in \in [Procs -> Seq(Units)] /\ aio \in [Procs -> Seq(Units)]
      /\ alive \subseteq Procs
  BY DEF AioCompletes, IInv, TypeOK, child
<1>2. u \in Units
  BY <1>1, FirstAndRest
<1>3. ASSUME p \in alive
      PROVE  /\ Fits(DueAfterPipe(p), u)
             /\ Flows(Pending(u), Tail(aio[p]))
             /\ DueAfter(Pending(u), Tail(aio[p]), Len(Tail(aio[p]))) = DueAfterAio(p)
  BY <1>1, <1>3, FlowsTail DEF IInv, AioFlows, DueAfterAio
<1> HIDE DEF u
<1>4. ASSUME p \in alive
      PROVE  Flows(reading[p], in'[p]) /\ DueAfterPipe(p)' = Pending(u)
  <2>1. in'[p] = Append(in[p], u)
    BY <1>1, <1>4
  <2>2. Flows(reading[p], in[p]) /\ Fits(DueAfter(reading[p], in[p], Len(in[p])), u)
    BY <1>3, <1>4 DEF IInv, PipesFlow, DueAfterPipe
  <2>3. /\ Flows(reading[p], in'[p])
        /\ DueAfter(reading[p], in'[p], Len(in'[p])) = Pending(u)
    BY <1>1, <1>2, <2>1, <2>2, FlowsAppend
  <2> QED
    BY <1>1, <2>3 DEF DueAfterPipe
<1>5. \A q \in alive \ {p} : DueAfterPipe(q)' = DueAfterPipe(q) /\ in'[q] = in[q]
                            /\ aio'[q] = aio[q]
  BY <1>1 DEF DueAfterPipe
<1>6. PipesFlow'
  BY <1>1, <1>4, <1>5 DEF PipesFlow, IInv
<1>7. AioFlows'
  BY <1>1, <1>3, <1>4, <1>5 DEF AioFlows, IInv
<1>8. \A q \in alive : DueAfterAio(q)' = DueAfterAio(q)
  BY <1>1, <1>3, <1>4, <1>5 DEF DueAfterAio
<1>9. HandlerFlows' /\ HandlerContinues'
  BY <1>1, <1>8 DEF HandlerFlows, HandlerContinues, IInv
<1> QED
  BY <1>1, <1>6, <1>7, <1>9 DEF IInv, MessagesStayWhole, ReadsThenWrites

LEMMA WriteKeepsWhole ==
    ASSUME ~AioRefuses, IInv, TypeOK', KernelWrites
    PROVE  IInv'
<1> DEFINE k == kWriting
           t == Tail(kWriting)
<1>0. PICK p, u : p = Head(kWriting).to /\ u = Head(kWriting).unit
  OBVIOUS
<1>1. /\ k # <<>> /\ k \in Seq([to : Procs, unit : Units]) /\ kWriting' = t
      /\ aio' = [aio EXCEPT ![p] = Append(@, u)]
      /\ UNCHANGED <<alive, reading, in, garbled, kReading>>
      /\ aio \in [Procs -> Seq(Units)] /\ alive \subseteq Procs
  BY <1>0 DEF KernelWrites, Written, IInv, TypeOK, child
<1>2. /\ Len(k) \in Nat /\ Len(k) > 0 /\ k[1] \in [to : Procs, unit : Units]
      /\ p = k[1].to /\ u = k[1].unit
      /\ Len(t) = Len(k) - 1 /\ \A i \in 1..Len(t) : t[i] = k[i + 1]
      /\ t = <<>> <=> Len(k) = 1
  BY <1>0, <1>1, FirstAndOthers
<1>3. p \in Procs /\ u \in Units
  BY <1>2
<1> HIDE DEF t
<1>4. ASSUME p \in alive
      PROVE  Flows(DueAfterPipe(p), aio'[p]) /\ DueAfterAio(p)' = Pending(u)
  <2>1. Fits(DueAfterAio(p), u) /\ Flows(DueAfterPipe(p), aio[p])
    BY <1>1, <1>2, <1>4 DEF IInv, HandlerContinues, AioFlows
  <2>2. aio'[p] = Append(aio[p], u) /\ aio[p] \in Seq(Units)
    BY <1>1, <1>3
  <2>3. /\ Flows(DueAfterPipe(p), aio'[p])
        /\ DueAfter(DueAfterPipe(p), aio'[p], Len(aio'[p])) = Pending(u)
    BY <1>3, <2>1, <2>2, FlowsAppend DEF DueAfterAio
  <2>4. DueAfterPipe(p)' = DueAfterPipe(p)
    BY <1>1 DEF DueAfterPipe
  <2> QED
    BY <1>1, <2>3, <2>4 DEF DueAfterAio
<1>5. PipesFlow'
  BY <1>1 DEF PipesFlow, IInv
<1>6. \A q \in alive \ {p} : aio'[q] = aio[q] /\ DueAfterAio(q)' = NoMsg
  BY <1>1, <1>2 DEF DueAfterAio, DueAfterPipe, IInv, HandlerContinues
<1>7. AioFlows'
  BY <1>1, <1>4, <1>6 DEF AioFlows, DueAfterPipe, IInv
<1>8. HandlerFlows'
  <2>1. ASSUME NEW i \in 2..Len(t)
        PROVE  /\ Fits(Pending(t[i - 1].unit), t[i].unit)
               /\ Pending(t[i - 1].unit) # NoMsg => t[i].to = t[i - 1].to
    <3>1. i + 1 \in 2..Len(k) /\ t[i] = k[i + 1] /\ t[i - 1] = k[(i + 1) - 1]
      BY <1>2
    <3> QED
      BY <3>1 DEF IInv, HandlerFlows
  <2>2. t # <<>> => Pending(t[Len(t)].unit) = NoMsg
    <3>1. t # <<>> => t[Len(t)] = k[Len(k)]
      BY <1>2
    <3> QED
      BY <1>1, <3>1 DEF IInv, HandlerFlows
  <2> QED
    BY <1>1, <2>1, <2>2 DEF HandlerFlows
<1>9. HandlerContinues'
  <2>1. CASE t = <<>>
    <3>1. Pending(u) = NoMsg
      <4>1. Len(k) = 1 /\ Pending(k[Len(k)].unit) = NoMsg
        BY <1>1, <1>2, <2>1 DEF IInv, HandlerFlows
      <4> QED
        BY <1>2, <4>1
    <3>2. \A q \in alive : DueAfterAio(q)' = NoMsg
      BY <1>4, <1>6, <3>1
    <3> QED
      BY <1>1, <2>1, <3>2 DEF HandlerContinues
  <2>2. CASE t # <<>>
    <3>1. 2 \in 2..Len(k) /\ t[1] = k[2] /\ k[2 - 1] = k[1]
      BY <1>2, <2>2
    <3>2. Fits(Pending(u), t[1].unit) /\ (Pending(u) # NoMsg => t[1].to = p)
      BY <1>2, <3>1 DEF IInv, HandlerFlows
    <3>3. ASSUME NEW q \in alive
          PROVE  IF t[1].to = q THEN Fits(DueAfterAio(q)', t[1].unit)
                 ELSE DueAfterAio(q)' = NoMsg
      <4>1. CASE q = p
        BY <1>4, <3>2, <4>1
      <4>2. CASE q # p
        <5>1. DueAfterAio(q)' = NoMsg
          BY <1>6, <4>2
        <5>2. t[1].to = q => Pending(u) = NoMsg
          BY <3>2, <4>2
        <5> QED
          BY <3>2, <5>1, <5>2
      <4> QED
        BY <4>1, <4>2
    <3> QED
      BY <1>1, <2>2, <3>3 DEF HandlerContinues
  <2> QED
    BY <2>1, <2>2
<1> QED
  BY <1>1, <1>5, <1>7, <1>8, <1>9 DEF IInv, MessagesStayWhole, ReadsThenWrites

LEMMA WholeInit == Init => IInv
<1> SUFFICES ASSUME Init
             PROVE  IInv
  OBVIOUS
<1>1. \A p \in Procs : /\ reading[p] = NoMsg /\ in[p] = <<>> /\ aio[p] = <<>>
  BY DEF Init
<1>2. alive \subseteq Procs /\ kWriting = <<>> /\ garbled = {} /\ kReading = NoMsg
  BY DEF Init
<1>3. \A m : Flows(m, <<>>) /\ DueAfter(m, <<>>, Len(<<>>)) = m
  BY DEF Flows, DueAfter
<1>4. \A p \in alive : DueAfterPipe(p) = NoMsg /\ DueAfterAio(p) = NoMsg
  BY <1>1, <1>2, <1>3 DEF DueAfterPipe, DueAfterAio
<1>5. PipesFlow /\ AioFlows
  BY <1>1, <1>2, <1>3 DEF PipesFlow, AioFlows
<1>6. HandlerFlows /\ HandlerContinues
  BY <1>2, <1>4 DEF HandlerFlows, HandlerContinues
<1> QED
  BY <1>2, <1>5, <1>6, TypeInit DEF IInv, ReadsThenWrites, MessagesStayWhole

LEMMA WholeNext ==
    ASSUME ~AioRefuses
    PROVE  IInv /\ [Next]_vars => IInv'
<1> SUFFICES ASSUME IInv, [Next]_vars
             PROVE  IInv'
  OBVIOUS
<1>0. TypeOK'
  BY TypeNext DEF IInv
<1>1. ASSUME NEW p \in Procs, Send(p) \/ WriteUnit(p) \/ Crash(p) \/ Sigchld(p)
      PROVE  IInv'
  <2>1. /\ UNCHANGED <<reading, in, aio, kWriting, garbled, kReading>>
        /\ alive' \subseteq alive
    BY <1>1 DEF Send, WriteUnit, Crash, Sigchld, child
  <2> QED
    BY <1>0, <2>1, Undisturbed DEF IInv, ReadsThenWrites
<1>2. ASSUME NEW p \in Procs, ReadUnit(p)
      PROVE  IInv'
  BY <1>0, <1>2, ReadKeepsWhole
<1>3. ASSUME NEW p \in Procs, Serve(p)
      PROVE  IInv'
  <2> DEFINE m == Head(out[p]).msg
  <2>1. /\ kReading = NoMsg /\ kWriting = <<>>
        /\ UNCHANGED <<alive, reading, in, aio, garbled>>
        /\ \/ Route(m) /\ UNCHANGED kReading
           \/ UNCHANGED kWriting
    BY <1>3 DEF Serve
  <2>2. m \in Messages
    <3>1. out[p] # <<>> /\ out[p] \in Seq(Units)
      BY <1>3 DEF Serve, IInv, TypeOK
    <3>2. Head(out[p]) \in Units
      BY <3>1, FirstAndRest
    <3> QED
      BY <3>2 DEF Units
  <2> HIDE DEF m
  <2>3. CASE Route(m) /\ UNCHANGED kReading
    <3>1. Whole(kWriting')
      BY <2>2, <2>3, RouteIsWhole DEF IInv
    <3> QED
      BY <1>0, <2>1, <2>3, <3>1, Decided
  <2>4. CASE UNCHANGED kWriting
    BY <1>0, <2>1, <2>4, Undisturbed DEF ReadsThenWrites
  <2> QED
    BY <2>1, <2>3, <2>4
<1>4. ASSUME ReadPayload
      PROVE  IInv'
  <2>1. /\ kReading # NoMsg /\ kReading \in Messages /\ Route(kReading) /\ kReading' = NoMsg
        /\ UNCHANGED <<alive, reading, in, aio, garbled>>
    BY <1>4 DEF ReadPayload, IInv, TypeOK
  <2>2. kWriting = <<>>
    BY <2>1 DEF IInv, ReadsThenWrites
  <2>3. Whole(kWriting')
    BY <2>1, RouteIsWhole DEF IInv
  <2> QED
    BY <1>0, <2>1, <2>2, <2>3, Decided
<1>5. ASSUME ReadsTooLittle
      PROVE  IInv'
  <2>1. UNCHANGED <<alive, reading, in, aio, kWriting, garbled, kReading>>
    BY <1>5 DEF ReadsTooLittle, child
  <2> QED
    BY <1>0, <2>1, Undisturbed DEF IInv, ReadsThenWrites
<1>6. ASSUME KernelWrites
      PROVE  IInv'
  BY <1>0, <1>6, WriteKeepsWhole
<1>7. ASSUME NEW p \in Procs, AioCompletes(p)
      PROVE  IInv'
  BY <1>0, <1>7, AioKeepsWhole
<1>8. CASE UNCHANGED vars
  <2>1. UNCHANGED <<alive, reading, in, aio, kWriting, garbled, kReading>>
    BY <1>8 DEF vars, child
  <2> QED
    BY <1>0, <2>1, Undisturbed DEF IInv, ReadsThenWrites
<1> QED
  BY <1>1, <1>2, <1>3, <1>4, <1>5, <1>6, <1>7, <1>8 DEF Next

\* Header and payload of a message reach a child together, however many messages
\* to it are under way and whoever crashes, as long as aio_write takes every
\* write (MessagesStayWhole).
THEOREM MessagesAreNeverTorn ==
    ASSUME ~AioRefuses
    PROVE  Spec => []MessagesStayWhole
<1>1. Init => IInv
  BY WholeInit
<1>2. IInv /\ [Next]_vars => IInv'
  BY WholeNext
<1>3. IInv => MessagesStayWhole
  BY DEF IInv
<1> QED
  BY <1>1, <1>2, <1>3, PTL DEF Spec

-----------------------------------------------------------------------------
\* Units and the messages they begin

\* The message whose header a unit is
Starts(unit) == IF unit.part = "header" THEN {unit.msg} ELSE {}

LEMMA StartsFacts ==
    ASSUME NEW u \in Units
    PROVE  Starts(u) \subseteq Messages
BY DEF Starts, Units

LEMMA BegunFacts ==
    ASSUME NEW s \in Seq(Units)
    PROVE  /\ Begun(s) \subseteq Messages
           /\ \A i \in DOMAIN s : s[i].part = "header" => s[i].msg \in Begun(s)
           /\ s = <<>> => Begun(s) = {}
<1>1. \A i \in DOMAIN s : s[i] \in Units
  OBVIOUS
<1>2. \A i \in DOMAIN s : s[i].msg \in Messages
  BY <1>1 DEF Units
<1>3. s = <<>> => DOMAIN s = {}
  OBVIOUS
<1> QED
  BY <1>2, <1>3 DEF Begun

\* A unit joins the end of a pipe.
LEMMA BegunAppend ==
    ASSUME NEW s \in Seq(Units), NEW u \in Units
    PROVE  /\ Begun(Append(s, u)) = Begun(s) \cup Starts(u)
           /\ AscendUnits(s) /\ Lower(Begun(s), Starts(u)) => AscendUnits(Append(s, u))
<1> DEFINE t == Append(s, u)
<1>1. /\ t \in Seq(Units) /\ Len(s) \in Nat
      /\ DOMAIN s = 1..Len(s) /\ DOMAIN t = 1..(Len(s) + 1)
      /\ \A i \in 1..Len(s) : t[i] = s[i]
      /\ t[Len(s) + 1] = u
  OBVIOUS
<1> HIDE DEF t
<1>2. Begun(t) = Begun(s) \cup Starts(u)
  <2>1. ASSUME NEW m \in Begun(t) PROVE m \in Begun(s) \cup Starts(u)
    <3>1. PICK i \in DOMAIN t : t[i].part = "header" /\ m = t[i].msg
      BY <2>1 DEF Begun
    <3>2. CASE i \in 1..Len(s)
      BY <1>1, <3>1, <3>2 DEF Begun
    <3>3. CASE i = Len(s) + 1
      BY <1>1, <3>1, <3>3 DEF Starts
    <3> QED
      BY <1>1, <3>2, <3>3
  <2>2. ASSUME NEW m \in Begun(s) PROVE m \in Begun(t)
    <3>1. PICK i \in DOMAIN s : s[i].part = "header" /\ m = s[i].msg
      BY <2>2 DEF Begun
    <3>2. i \in DOMAIN t /\ t[i] = s[i]
      BY <1>1
    <3> QED
      BY <3>1, <3>2 DEF Begun
  <2>3. ASSUME NEW m \in Starts(u) PROVE m \in Begun(t)
    <3>1. Len(s) + 1 \in DOMAIN t /\ u.part = "header" /\ m = u.msg
      BY <1>1, <2>3 DEF Starts
    <3> QED
      BY <1>1, <3>1 DEF Begun
  <2> QED
    BY <2>1, <2>2, <2>3
<1>3. ASSUME AscendUnits(s), Lower(Begun(s), Starts(u)) PROVE AscendUnits(t)
  <2> SUFFICES ASSUME NEW i \in DOMAIN t, NEW j \in DOMAIN t, i < j,
                      t[i].part = "header", t[j].part = "header", t[i].msg.from = t[j].msg.from
               PROVE  t[i].msg.num < t[j].msg.num
    BY DEF AscendUnits
  <2>1. i \in DOMAIN s /\ t[i] = s[i]
    BY <1>1
  <2>2. CASE j \in DOMAIN s
    BY <1>1, <1>3, <2>1, <2>2 DEF AscendUnits
  <2>3. CASE j = Len(s) + 1
    <3>1. s[i].msg \in Begun(s) /\ t[j].msg \in Starts(u)
      BY <1>1, <2>1, <2>3 DEF Begun, Starts
    <3> QED
      BY <1>3, <2>1, <3>1 DEF Lower
  <2> QED
    BY <1>1, <2>2, <2>3
<1> QED
  BY <1>2, <1>3 DEF t

\* The first unit leaves it.
LEMMA BegunTail ==
    ASSUME NEW s \in Seq(Units), s # <<>>, AscendUnits(s)
    PROVE  /\ Head(s) \in Units /\ Tail(s) \in Seq(Units)
           /\ Begun(s) = Starts(Head(s)) \cup Begun(Tail(s))
           /\ Lower(Starts(Head(s)), Begun(Tail(s)))
           /\ AscendUnits(Tail(s))
<1> DEFINE t == Tail(s)
           u == Head(s)
<1>1. /\ t \in Seq(Units) /\ Len(s) \in Nat \ {0} /\ u = s[1] /\ u \in Units
      /\ DOMAIN s = 1..Len(s) /\ DOMAIN t = 1..(Len(s) - 1)
      /\ \A i \in 1..(Len(s) - 1) : t[i] = s[i + 1]
  OBVIOUS
<1> HIDE DEF t, u
<1>2. \A i \in DOMAIN t : i + 1 \in DOMAIN s /\ 1 < i + 1 /\ t[i] = s[i + 1]
  BY <1>1
<1>3. \A i \in DOMAIN s : i = 1 \/ (i - 1 \in DOMAIN t /\ t[i - 1] = s[i])
  BY <1>1
<1>4. Begun(s) = Starts(u) \cup Begun(t)
  <2>1. ASSUME NEW m \in Begun(s) PROVE m \in Starts(u) \cup Begun(t)
    <3>1. PICK i \in DOMAIN s : s[i].part = "header" /\ m = s[i].msg
      BY <2>1 DEF Begun
    <3>2. CASE i = 1
      BY <1>1, <3>1, <3>2 DEF Starts
    <3>3. CASE i - 1 \in DOMAIN t /\ t[i - 1] = s[i]
      BY <3>1, <3>3 DEF Begun
    <3> QED
      BY <1>3, <3>2, <3>3
  <2>2. ASSUME NEW m \in Begun(t) PROVE m \in Begun(s)
    <3>1. PICK i \in DOMAIN t : t[i].part = "header" /\ m = t[i].msg
      BY <2>2 DEF Begun
    <3>2. i + 1 \in DOMAIN s /\ t[i] = s[i + 1]
      BY <1>2
    <3> QED
      BY <3>1, <3>2 DEF Begun
  <2>3. ASSUME NEW m \in Starts(u) PROVE m \in Begun(s)
    <3>1. 1 \in DOMAIN s /\ s[1].part = "header" /\ m = s[1].msg
      BY <1>1, <2>3 DEF Starts
    <3> QED
      BY <3>1 DEF Begun
  <2> QED
    BY <2>1, <2>2, <2>3
<1>5. Lower(Starts(u), Begun(t))
  <2> SUFFICES ASSUME NEW m \in Starts(u), NEW n \in Begun(t), m.from = n.from
               PROVE  m.num < n.num
    BY DEF Lower
  <2>1. 1 \in DOMAIN s /\ s[1].part = "header" /\ m = s[1].msg
    BY <1>1 DEF Starts
  <2>2. PICK i \in DOMAIN t : t[i].part = "header" /\ n = t[i].msg
    BY DEF Begun
  <2>3. i + 1 \in DOMAIN s /\ 1 < i + 1 /\ t[i] = s[i + 1]
    BY <1>2
  <2> QED
    BY <2>1, <2>2, <2>3 DEF AscendUnits
<1>6. AscendUnits(t)
  <2> SUFFICES ASSUME NEW i \in DOMAIN t, NEW j \in DOMAIN t, i < j,
                      t[i].part = "header", t[j].part = "header", t[i].msg.from = t[j].msg.from
               PROVE  t[i].msg.num < t[j].msg.num
    BY DEF AscendUnits
  <2>1. i + 1 < j + 1
    BY <1>1
  <2> QED
    BY <1>2, <2>1 DEF AscendUnits
<1> QED
  BY <1>1, <1>4, <1>5, <1>6 DEF t, u

\* A message that is about to be written is one message.
LEMMA BegunParts ==
    ASSUME NEW m \in Messages
    PROVE  Begun(Parts(m)) = {m} /\ AscendUnits(Parts(m))
<1> DEFINE s == Parts(m)
<1>1. m.len \in {0, 1}
  BY DEF Messages
<1>2. /\ s \in Seq(Units) /\ 1 \in DOMAIN s /\ s[1] = Header(m)
      /\ \A i \in DOMAIN s : i # 1 => s[i] = Payload(m)
  <2>1. CASE m.len = 0
    <3>1. s \in Seq(Units) /\ Len(s) = 1 /\ s[1] = Header(m)
      BY <2>1, PartsOfMessage
    <3> HIDE DEF s
    <3> QED
      BY <3>1
  <2>2. CASE m.len = 1
    <3>1. s \in Seq(Units) /\ Len(s) = 2 /\ s[1] = Header(m) /\ s[2] = Payload(m)
      BY <2>2, PartsOfMessage
    <3> HIDE DEF s
    <3>2. DOMAIN s = 1..2
      BY <3>1
    <3> QED
      BY <3>1, <3>2
  <2> QED
    BY <1>1, <2>1, <2>2
<1>3. Header(m).part = "header" /\ Header(m).msg = m /\ Payload(m).part # "header"
  BY DEF Header, Payload
<1> HIDE DEF s
<1>4. \A i \in DOMAIN s : s[i].part = "header" => i = 1 /\ s[i].msg = m
  BY <1>2, <1>3
<1>5. Begun(s) = {m}
  BY <1>2, <1>3, <1>4 DEF Begun
<1>6. AscendUnits(s)
  BY <1>4 DEF AscendUnits
<1> QED
  BY <1>5, <1>6 DEF s

\* A message joins those that were received.
LEMMA GotOneMore ==
    ASSUME NEW s \in Seq(Messages), NEW m \in Messages
    PROVE  /\ {Append(s, m)[i] : i \in DOMAIN Append(s, m)} = {s[i] : i \in DOMAIN s} \cup {m}
           /\ Ascend(s) /\ Lower({s[i] : i \in DOMAIN s}, {m}) => Ascend(Append(s, m))
<1> DEFINE t == Append(s, m)
<1>1. /\ Len(s) \in Nat
      /\ DOMAIN s = 1..Len(s) /\ DOMAIN t = 1..(Len(s) + 1)
      /\ \A i \in 1..Len(s) : t[i] = s[i]
      /\ t[Len(s) + 1] = m
  OBVIOUS
<1> HIDE DEF t
<1>2. {t[i] : i \in DOMAIN t} = {s[i] : i \in DOMAIN s} \cup {m}
  <2>1. \A i \in DOMAIN t : t[i] \in {s[j] : j \in DOMAIN s} \cup {m}
    BY <1>1
  <2>2. \A i \in DOMAIN s : i \in DOMAIN t /\ t[i] = s[i]
    BY <1>1
  <2>3. Len(s) + 1 \in DOMAIN t /\ t[Len(s) + 1] = m
    BY <1>1
  <2> QED
    BY <2>1, <2>2, <2>3
<1>3. ASSUME Ascend(s), Lower({s[i] : i \in DOMAIN s}, {m}) PROVE Ascend(t)
  <2> SUFFICES ASSUME NEW i \in DOMAIN t, NEW j \in DOMAIN t, i < j, t[i].from = t[j].from
               PROVE  t[i].num < t[j].num
    BY DEF Ascend
  <2>1. i \in DOMAIN s /\ t[i] = s[i] /\ (j \in DOMAIN s \/ j = Len(s) + 1)
    BY <1>1
  <2>2. CASE j \in DOMAIN s
    BY <1>1, <1>3, <2>1, <2>2 DEF Ascend
  <2>3. CASE j = Len(s) + 1
    <3>1. t[j] = m
      BY <1>1, <2>3
    <3> QED
      BY <1>3, <2>1, <3>1 DEF Lower
  <2> QED
    BY <2>1, <2>2, <2>3
<1> QED
  BY <1>2, <1>3 DEF t

-----------------------------------------------------------------------------
\* What the handler carries

Loads == [to : Procs, unit : Units]

LEMMA CarriedTail ==
    ASSUME NEW k \in Seq(Loads), k # <<>>, AscendCarried(k)
    PROVE  /\ Head(k) \in Loads /\ Tail(k) \in Seq(Loads)
           /\ \A q : Carried(k, q) = (IF q = Head(k).to THEN Starts(Head(k).unit) ELSE {})
                                     \cup Carried(Tail(k), q)
           /\ \A q : Lower(Starts(Head(k).unit), Carried(Tail(k), q))
           /\ AscendCarried(Tail(k))
<1> DEFINE t == Tail(k)
           h == Head(k)
<1>1. /\ t \in Seq(Loads) /\ Len(k) \in Nat \ {0} /\ h = k[1] /\ h \in Loads
      /\ DOMAIN k = 1..Len(k) /\ DOMAIN t = 1..(Len(k) - 1)
      /\ \A i \in 1..(Len(k) - 1) : t[i] = k[i + 1]
  OBVIOUS
<1> HIDE DEF t, h
<1>2. \A i \in DOMAIN t : i + 1 \in DOMAIN k /\ 1 < i + 1 /\ t[i] = k[i + 1]
  BY <1>1
<1>3. \A i \in DOMAIN k : i = 1 \/ (i - 1 \in DOMAIN t /\ t[i - 1] = k[i])
  BY <1>1
<1>4. ASSUME NEW q
      PROVE  Carried(k, q) = (IF q = h.to THEN Starts(h.unit) ELSE {}) \cup Carried(t, q)
  <2>1. ASSUME NEW m \in Carried(k, q)
        PROVE  m \in (IF q = h.to THEN Starts(h.unit) ELSE {}) \cup Carried(t, q)
    <3>1. PICK i \in DOMAIN k : k[i].to = q /\ k[i].unit.part = "header" /\ m = k[i].unit.msg
      BY <2>1 DEF Carried
    <3>2. CASE i = 1
      BY <1>1, <3>1, <3>2 DEF Starts
    <3>3. CASE i - 1 \in DOMAIN t /\ t[i - 1] = k[i]
      BY <3>1, <3>3 DEF Carried
    <3> QED
      BY <1>3, <3>2, <3>3
  <2>2. ASSUME NEW m \in Carried(t, q) PROVE m \in Carried(k, q)
    <3>1. PICK i \in DOMAIN t : t[i].to = q /\ t[i].unit.part = "header" /\ m = t[i].unit.msg
      BY <2>2 DEF Carried
    <3>2. i + 1 \in DOMAIN k /\ t[i] = k[i + 1]
      BY <1>2
    <3> QED
      BY <3>1, <3>2 DEF Carried
  <2>3. ASSUME q = h.to, NEW m \in Starts(h.unit) PROVE m \in Carried(k, q)
    <3>1. 1 \in DOMAIN k /\ k[1].to = q /\ k[1].unit.part = "header" /\ m = k[1].unit.msg
      BY <1>1, <2>3 DEF Starts
    <3> QED
      BY <3>1 DEF Carried
  <2> QED
    BY <2>1, <2>2, <2>3
<1>5. ASSUME NEW q PROVE Lower(Starts(h.unit), Carried(t, q))
  <2> SUFFICES ASSUME NEW m \in Starts(h.unit), NEW n \in Carried(t, q), m.from = n.from
               PROVE  m.num < n.num
    BY DEF Lower
  <2>1. 1 \in DOMAIN k /\ k[1].unit.part = "header" /\ m = k[1].unit.msg
    BY <1>1 DEF Starts
  <2>2. PICK i \in DOMAIN t : t[i].unit.part = "header" /\ n = t[i].unit.msg
    BY DEF Carried
  <2>3. i + 1 \in DOMAIN k /\ 1 < i + 1 /\ t[i] = k[i + 1]
    BY <1>2
  <2> QED
    BY <2>1, <2>2, <2>3 DEF AscendCarried
<1>6. AscendCarried(t)
  <2> SUFFICES ASSUME NEW i \in DOMAIN t, NEW j \in DOMAIN t, i < j,
                      t[i].unit.part = "header", t[j].unit.part = "header",
                      t[i].unit.msg.from = t[j].unit.msg.from
               PROVE  t[i].unit.msg.num < t[j].unit.msg.num
    BY DEF AscendCarried
  <2>1. i + 1 < j + 1
    BY <1>1
  <2> QED
    BY <1>2, <2>1 DEF AscendCarried
<1> QED
  BY <1>1, <1>4, <1>5, <1>6 DEF t, h

LEMMA CarriedMessage ==
    ASSUME NEW p \in Procs, NEW m \in Messages
    PROVE  /\ To(p, Parts(m)) \in Seq(Loads)
           /\ \A q : Carried(To(p, Parts(m)), q) = IF q = p THEN {m} ELSE {}
           /\ AscendCarried(To(p, Parts(m)))
           /\ \A i \in DOMAIN To(p, Parts(m)) :
                 To(p, Parts(m))[i].unit.part = "header" => To(p, Parts(m))[i].unit.msg = m
<1> DEFINE s == Parts(m)
           k == To(p, s)
<1>1. s \in Seq(Units) /\ Begun(s) = {m} /\ AscendUnits(s)
  BY PartsOfMessage, BegunParts
<1> HIDE DEF s
<1>2. /\ k \in Seq(Loads) /\ DOMAIN k = DOMAIN s
      /\ \A i \in DOMAIN s : k[i] = [to |-> p, unit |-> s[i]]
  <2>1. k \in Seq(Loads) /\ Len(k) = Len(s)
        /\ \A i \in 1..Len(s) : k[i] = [to |-> p, unit |-> s[i]]
    BY <1>1, ToUnits DEF Loads
  <2> HIDE DEF k
  <2> QED
    BY <1>1, <2>1
<1> HIDE DEF k
<1>3. \A i \in DOMAIN k : k[i].to = p /\ k[i].unit = s[i]
  BY <1>2
<1>4. ASSUME NEW i \in DOMAIN k, k[i].unit.part = "header"
      PROVE  k[i].unit.msg = m
  <2>1. i \in DOMAIN s /\ s[i].part = "header"
    BY <1>2, <1>3, <1>4
  <2>2. s[i].msg \in Begun(s)
    BY <2>1 DEF Begun
  <2> QED
    BY <1>1, <1>3, <2>2
<1>5. ASSUME NEW q PROVE Carried(k, q) = IF q = p THEN {m} ELSE {}
  <2>1. PICK i \in DOMAIN s : s[i].part = "header" /\ s[i].msg = m
    BY <1>1 DEF Begun
  <2>2. i \in DOMAIN k /\ k[i].unit.part = "header" /\ k[i].unit.msg = m /\ k[i].to = p
    BY <1>2, <1>3, <2>1
  <2>3. CASE q = p
    BY <1>4, <2>2, <2>3 DEF Carried
  <2>4. CASE q # p
    BY <1>3, <2>4 DEF Carried
  <2> QED
    BY <2>3, <2>4
<1>6. AscendCarried(k)
  BY <1>1, <1>2, <1>3 DEF AscendCarried, AscendUnits
<1> QED
  BY <1>2, <1>4, <1>5, <1>6 DEF k, s

LEMMA CarriedTwo ==
    ASSUME NEW k \in Seq(Loads), NEW l \in Seq(Loads), AscendCarried(k), AscendCarried(l),
           NEW a, NEW b, a.num < b.num,
           \A i \in DOMAIN k : k[i].unit.part = "header" => k[i].unit.msg = a,
           \A i \in DOMAIN l : l[i].unit.part = "header" => l[i].unit.msg = b
    PROVE  /\ \A q : Carried(k \o l, q) = Carried(k, q) \cup Carried(l, q)
           /\ AscendCarried(k \o l)
<1> DEFINE t == k \o l
<1>1. /\ Len(k) \in Nat /\ Len(l) \in Nat
      /\ DOMAIN k = 1..Len(k) /\ DOMAIN l = 1..Len(l) /\ DOMAIN t = 1..(Len(k) + Len(l))
      /\ \A i \in 1..Len(k) : t[i] = k[i]
      /\ \A i \in 1..Len(l) : t[Len(k) + i] = l[i]
  OBVIOUS
<1> HIDE DEF t
<1>2. \A i \in DOMAIN k : i \in DOMAIN t /\ t[i] = k[i]
  BY <1>1
<1>3. \A i \in DOMAIN l : Len(k) + i \in DOMAIN t /\ t[Len(k) + i] = l[i]
  BY <1>1
<1>4. ASSUME NEW i \in DOMAIN t
      PROVE  \/ i \in DOMAIN k
             \/ i \notin DOMAIN k /\ i - Len(k) \in DOMAIN l /\ t[i] = l[i - Len(k)]
  <2>1. CASE i > Len(k)
    <3>1. i - Len(k) \in DOMAIN l /\ Len(k) + (i - Len(k)) = i /\ i \notin DOMAIN k
      BY <1>1, <2>1
    <3> QED
      BY <1>3, <3>1
  <2> QED
    BY <1>1, <2>1
<1>5. ASSUME NEW q PROVE Carried(t, q) = Carried(k, q) \cup Carried(l, q)
  <2>1. ASSUME NEW m \in Carried(t, q) PROVE m \in Carried(k, q) \cup Carried(l, q)
    <3>1. PICK i \in DOMAIN t : t[i].to = q /\ t[i].unit.part = "header" /\ m = t[i].unit.msg
      BY <2>1 DEF Carried
    <3>2. CASE i \in DOMAIN k
      BY <1>2, <3>1, <3>2 DEF Carried
    <3>3. CASE i - Len(k) \in DOMAIN l /\ t[i] = l[i - Len(k)]
      BY <3>1, <3>3 DEF Carried
    <3> QED
      BY <1>4, <3>2, <3>3
  <2>2. Carried(k, q) \subseteq Carried(t, q)
    BY <1>2 DEF Carried
  <2>3. Carried(l, q) \subseteq Carried(t, q)
    BY <1>3 DEF Carried
  <2> QED
    BY <2>1, <2>2, <2>3
<1>6. AscendCarried(t)
  <2> SUFFICES ASSUME NEW i \in DOMAIN t, NEW j \in DOMAIN t, i < j,
                      t[i].unit.part = "header", t[j].unit.part = "header",
                      t[i].unit.msg.from = t[j].unit.msg.from
               PROVE  t[i].unit.msg.num < t[j].unit.msg.num
    BY DEF AscendCarried
  <2>1. CASE i \in DOMAIN k /\ j \in DOMAIN k
    BY <1>2, <2>1 DEF AscendCarried
  <2>2. CASE i \in DOMAIN k /\ j \notin DOMAIN k
    <3>1. t[i].unit.msg = a /\ t[j].unit.msg = b
      BY <1>2, <1>4, <2>2
    <3> QED
      BY <3>1
  <2>3. CASE i \notin DOMAIN k /\ j \notin DOMAIN k
    <3>1. /\ i - Len(k) \in DOMAIN l /\ t[i] = l[i - Len(k)]
          /\ j - Len(k) \in DOMAIN l /\ t[j] = l[j - Len(k)]
          /\ i - Len(k) < j - Len(k)
      BY <1>1, <1>4, <2>3
    <3> QED
      BY <3>1 DEF AscendCarried
  <2>4. ~(i \notin DOMAIN k /\ j \in DOMAIN k)
    BY <1>1
  <2> QED
    BY <2>1, <2>2, <2>3, <2>4
<1> QED
  BY <1>5, <1>6 DEF t
-----------------------------------------------------------------------------
\* A unit moves on within what is on the way to a child

LEMMA ReadParts ==
    ASSUME TypeOK, NEW p \in Procs
    PROVE  /\ received[p] \in Seq(Messages) /\ in[p] \in Seq(Units) /\ aio[p] \in Seq(Units)
           /\ out[p] \in Seq(Units) /\ writing[p] \in Seq(Units)
           /\ reading[p] \in Messages \cup {NoMsg}
BY DEF TypeOK

\* Nothing has happened to p.
LEMMA QueueSame ==
    ASSUME NEW p \in Procs, received'[p] = received[p], reading'[p] = reading[p],
           in'[p] = in[p], aio'[p] = aio[p], InHand(p)' = InHand(p), QueueInOrder(p)
    PROVE  QueueInOrder(p)' /\ OnWay(p)' = OnWay(p)
<1>1. /\ Got(p)' = Got(p) /\ Held(p)' = Held(p)
      /\ Begun(in[p])' = Begun(in[p]) /\ Begun(aio[p])' = Begun(aio[p])
  BY DEF Got, Held, Begun
<1>2. OnWay(p)' = OnWay(p)
  BY <1>1 DEF OnWay
<1>3. Ascend(received[p])' /\ AscendUnits(in[p])' /\ AscendUnits(aio[p])'
  BY DEF QueueInOrder, Ascend, AscendUnits
<1>4. QueueInOrder(p)'
  BY <1>1, <1>3 DEF QueueInOrder
<1> QED
  BY <1>2, <1>4

\* The kernel or the system moves a unit from one place to the next: what each
\* place holds before and after.
LEMMA AioMoves ==
    ASSUME TypeOK, NEW p \in Procs, QueueInOrder(p), AioCompletes(p)
    PROVE  /\ QueueInOrder(p)' /\ OnWay(p)' \subseteq OnWay(p)
           /\ p \in alive => OnWay(p)' = OnWay(p)
<1> DEFINE u == Head(aio[p])
           B == Starts(u)
<1>1. /\ aio[p] # <<>> /\ aio[p] \in Seq(Units) /\ in[p] \in Seq(Units)
      /\ p \in alive => in'[p] = Append(in[p], u)
      /\ p \notin alive => in'[p] = in[p]
      /\ aio'[p] = Tail(aio[p])
      /\ received'[p] = received[p] /\ reading'[p] = reading[p] /\ kWriting' = kWriting
  BY DEF AioCompletes, TypeOK, child
<1>2. AscendUnits(aio[p]) /\ AscendUnits(in[p]) /\ Lower(Begun(in[p]), Begun(aio[p]))
  BY DEF QueueInOrder, Lower
<1>3. /\ u \in Units /\ Begun(aio[p]) = B \cup Begun(aio[p])'
      /\ Lower(B, Begun(aio[p])') /\ AscendUnits(aio[p])'
  BY <1>1, <1>2, BegunTail
<1> HIDE DEF u
<1>4. p \in alive => Begun(in[p])' = Begun(in[p]) \cup B /\ AscendUnits(in[p])'
  <2>1. Lower(Begun(in[p]), B)
    BY <1>2, <1>3 DEF Lower
  <2> QED
    BY <1>1, <1>2, <1>3, <2>1, BegunAppend
<1>5. p \notin alive => Begun(in[p])' = Begun(in[p]) /\ AscendUnits(in[p])'
  BY <1>1, <1>2
<1> HIDE DEF B
<1>6. Got(p)' = Got(p) /\ Held(p)' = Held(p) /\ InHand(p)' = InHand(p)
  BY <1>1 DEF Got, Held, InHand
<1>7. Ascend(received[p])'
  BY <1>1 DEF QueueInOrder, Ascend
<1>8. QueueInOrder(p)'
  <2>1. CASE p \in alive
    BY <1>3, <1>4, <1>6, <1>7, <2>1 DEF QueueInOrder, Lower
  <2>2. CASE p \notin alive
    BY <1>3, <1>5, <1>6, <1>7, <2>2 DEF QueueInOrder, Lower
  <2> QED
    BY <2>1, <2>2
<1> QED
  BY <1>3, <1>4, <1>5, <1>6, <1>8 DEF OnWay

LEMMA HandlerMoves ==
    ASSUME ~AioRefuses, TypeOK, AscendCarried(kWriting), KernelWrites,
           NEW p \in Procs, QueueInOrder(p)
    PROVE  /\ QueueInOrder(p)' /\ OnWay(p)' = OnWay(p)
           /\ AscendCarried(kWriting)'
<1> DEFINE h == Head(kWriting)
           B == IF p = h.to THEN Starts(h.unit) ELSE {}
<1>1. /\ kWriting # <<>> /\ kWriting \in Seq(Loads) /\ kWriting' = Tail(kWriting)
      /\ aio' = [aio EXCEPT ![h.to] = Append(@, h.unit)]
      /\ UNCHANGED <<received, reading, in>>
      /\ aio \in [Procs -> Seq(Units)]
  BY DEF KernelWrites, Written, TypeOK, child, Loads
<1>2. /\ h \in Loads /\ InHand(p) = B \cup InHand(p)'
      /\ Lower(Starts(h.unit), InHand(p)')
      /\ AscendCarried(kWriting)'
  BY <1>1, CarriedTail DEF InHand
<1>3. h.to \in Procs /\ h.unit \in Units
  BY <1>2 DEF Loads
<1> HIDE DEF h
<1>4. Lower(B, InHand(p)') /\ Lower(Begun(aio[p]), InHand(p)) /\ AscendUnits(aio[p])
  BY <1>2 DEF Lower, QueueInOrder
<1>5. Begun(aio[p])' = Begun(aio[p]) \cup B /\ AscendUnits(aio[p])'
  <2>1. CASE p = h.to
    <3>1. aio'[p] = Append(aio[p], h.unit) /\ B = Starts(h.unit) /\ aio[p] \in Seq(Units)
      BY <1>1, <1>3, <2>1
    <3>2. Lower(Begun(aio[p]), Starts(h.unit))
      BY <1>2, <1>4, <3>1 DEF Lower
    <3> QED
      BY <1>3, <1>4, <3>1, <3>2, BegunAppend
  <2>2. CASE p # h.to
    <3>1. aio'[p] = aio[p] /\ B = {}
      BY <1>1, <1>3, <2>2
    <3> QED
      BY <1>4, <3>1
  <2> QED
    BY <2>1, <2>2
<1> HIDE DEF B
<1>6. /\ Got(p)' = Got(p) /\ Held(p)' = Held(p) /\ Begun(in[p])' = Begun(in[p])
      /\ Ascend(received[p])' /\ AscendUnits(in[p])'
  BY <1>1 DEF Got, Held, QueueInOrder, Ascend, AscendUnits, Begun
<1>7. QueueInOrder(p)'
  BY <1>2, <1>4, <1>5, <1>6 DEF QueueInOrder, Lower
<1> QED
  BY <1>2, <1>5, <1>6, <1>7 DEF OnWay
LEMMA ReadMoves ==
    ASSUME IInv, NEW p \in Procs, QueueInOrder(p), ReadUnit(p)
    PROVE  QueueInOrder(p)' /\ OnWay(p)' = OnWay(p)
<1> DEFINE u == Head(in[p])
           B == Starts(u)
<1>1. /\ p \in alive /\ in[p] # <<>> /\ in[p] \in Seq(Units)
      /\ Understands(p, u) \/ Misreads(p, u)
      /\ in'[p] = Tail(in[p])
      /\ aio' = aio /\ kWriting' = kWriting
      /\ received \in [Procs -> Seq(Messages)] /\ reading \in [Procs -> Messages \cup {NoMsg}]
  BY DEF ReadUnit, IInv, TypeOK
<1>2. /\ Ascend(received[p]) /\ AscendUnits(in[p]) /\ AscendUnits(aio[p])
      /\ received[p] \in Seq(Messages) /\ reading[p] \in Messages \cup {NoMsg}
  BY <1>1 DEF QueueInOrder
<1>3. /\ u \in Units /\ Begun(in[p]) = B \cup Begun(in[p])'
      /\ Lower(B, Begun(in[p])') /\ AscendUnits(in[p])'
  BY <1>1, <1>2, BegunTail
<1>4. Fits(reading[p], u)
  BY <1>1, FlowsTail DEF IInv, PipesFlow
<1> HIDE DEF u
<1>5. Understands(p, u)
  BY <1>1, <1>4 DEF Misreads, Fits
<1>6. u.msg \in Messages
  BY <1>3 DEF Units
<1>7. /\ Begun(aio[p])' = Begun(aio[p]) /\ AscendUnits(aio[p])' /\ InHand(p)' = InHand(p)
  BY <1>1, <1>2 DEF Begun, AscendUnits, InHand
<1>8. /\ Lower(Got(p), Held(p)) /\ Lower(Got(p), Begun(in[p])) /\ Lower(Held(p), Begun(in[p]))
  BY DEF QueueInOrder, Lower
<1>9. CASE reading[p] = NoMsg /\ u.msg.len = 0
  <2>1. u.part = "header" /\ received'[p] = Append(received[p], u.msg) /\ reading' = reading
    BY <1>1, <1>4, <1>5, <1>9 DEF Understands, Fits
  <2>2. B = {u.msg} /\ Held(p) = {} /\ Held(p)' = {}
    BY <1>9, <2>1 DEF Starts, Held
  <2>3. Lower(Got(p), {u.msg})
    BY <1>3, <1>8, <2>2 DEF Lower
  <2>4. Got(p)' = Got(p) \cup B /\ Ascend(received[p])'
    BY <1>2, <1>6, <2>1, <2>2, <2>3, GotOneMore DEF Got
  <2> HIDE DEF B
  <2>5. QueueInOrder(p)'
    BY <1>3, <1>7, <2>2, <2>4 DEF QueueInOrder, Lower
  <2> QED
    BY <1>3, <1>7, <2>2, <2>4, <2>5 DEF OnWay
<1>10. CASE reading[p] = NoMsg /\ u.msg.len # 0
  <2>1. u.part = "header" /\ reading'[p] = u.msg /\ received' = received
    BY <1>1, <1>4, <1>5, <1>10 DEF Understands, Fits
  <2>2. B = {u.msg} /\ Held(p) = {} /\ Held(p)' = B
    BY <1>6, <1>10, <2>1, NoMsgIsNone DEF Starts, Held
  <2>3. Got(p)' = Got(p) /\ Ascend(received[p])'
    BY <1>2, <2>1 DEF Got, Ascend
  <2> HIDE DEF B
  <2>4. QueueInOrder(p)'
    BY <1>3, <1>7, <2>2, <2>3 DEF QueueInOrder, Lower
  <2> QED
    BY <1>3, <1>7, <2>2, <2>3, <2>4 DEF OnWay
<1>11. CASE reading[p] # NoMsg
  <2>1. /\ u = Payload(reading[p]) /\ received'[p] = Append(received[p], reading[p])
        /\ reading'[p] = NoMsg /\ reading[p] \in Messages
    BY <1>1, <1>2, <1>5, <1>11 DEF Understands
  <2>2. B = {} /\ Held(p) = {reading[p]} /\ Held(p)' = {}
    BY <1>11, <2>1 DEF Starts, Held, Payload
  <2>3. Got(p)' = Got(p) \cup Held(p) /\ Ascend(received[p])'
    <3>1. Lower({received[p][i] : i \in DOMAIN received[p]}, {reading[p]})
      BY <1>8, <2>2 DEF Got
    <3>2. /\ {received'[p][i] : i \in DOMAIN received'[p]}
             = {received[p][i] : i \in DOMAIN received[p]} \cup {reading[p]}
          /\ Ascend(received'[p])
      BY <1>2, <2>1, <3>1, GotOneMore
    <3> QED
      BY <2>2, <3>2 DEF Got, Ascend
  <2> HIDE DEF B
  <2>4. QueueInOrder(p)'
    BY <1>3, <1>7, <2>2, <2>3 DEF QueueInOrder, Lower
  <2> QED
    BY <1>3, <1>7, <2>2, <2>3, <2>4 DEF OnWay
<1> QED
  BY <1>9, <1>10, <1>11

\* Nothing has happened at the door of w.
LEMMA DoorSame ==
    ASSUME NEW w \in Procs, out'[w] = out[w], writing'[w] = writing[w]
    PROVE  /\ Begun(out[w])' = Begun(out[w]) /\ Begun(writing[w])' = Begun(writing[w])
           /\ Before(w)' = Before(w)
           /\ DoorInOrder(w) /\ AtDoor' = AtDoor => DoorInOrder(w)'
<1>1. Begun(out[w])' = Begun(out[w]) /\ Begun(writing[w])' = Begun(writing[w])
  BY DEF Begun
<1>2. Before(w)' = Before(w)
  BY <1>1 DEF Before
<1>3. ASSUME DoorInOrder(w), AtDoor' = AtDoor
      PROVE  DoorInOrder(w)'
  <2>1. AscendUnits(out[w])' /\ AscendUnits(writing[w])'
    BY <1>3 DEF DoorInOrder, AscendUnits
  <2>2. Lower(Begun(out[w]), Begun(writing[w]))' /\ Lower(AtDoor, Before(w))'
    BY <1>1, <1>2, <1>3 DEF DoorInOrder, Lower
  <2> QED
    BY <2>1, <2>2 DEF DoorInOrder
<1> QED
  BY <1>1, <1>2, <1>3

\* Such a step disturbs nothing else.
LEMMA MovesKeepOrder ==
    ASSUME TypeOK, OldestAreAhead,
           \A q \in Procs : QueueInOrder(q)' /\ OnWay(q)' \subseteq OnWay(q),
           AscendCarried(kWriting)', UNCHANGED <<out, writing, kReading>>
    PROVE  OldestAreAhead'
<1>0. AtDoor' = AtDoor /\ \A w \in Procs : Before(w)' = Before(w)
  BY DoorSame DEF AtDoor
<1>1. NotYet' = NotYet /\ \A w \in Procs : DoorInOrder(w)'
  BY <1>0, DoorSame DEF NotYet, OldestAreAhead
<1>2. \A q \in Procs : Lower(OnWay(q), NotYet)
  BY DEF OldestAreAhead
<1>3. \A q \in Procs : Lower(OnWay(q)', NotYet')
  BY <1>1, <1>2 DEF Lower
<1>4. \A q \in Procs : Lower(OnWay(q), NotYet)'
  BY <1>3 DEF Lower
<1> QED
  BY <1>1, <1>4 DEF OldestAreAhead

LEMMA DoorsSame ==
    ASSUME UNCHANGED <<out, writing, kReading>>
    PROVE  NotYet' = NotYet
<1>1. AtDoor' = AtDoor /\ \A w \in Procs : Before(w)' = Before(w)
  BY DoorSame DEF AtDoor
<1> QED
  BY <1>1 DEF NotYet

LEMMA MovesKeepSent ==
    ASSUME AllWereSent, \A q \in Procs : OnWay(q)' \subseteq OnWay(q),
           UNCHANGED <<out, writing, kReading, sent>>
    PROVE  AllWereSent'
<1>0. /\ AtDoor' = AtDoor /\ \A w \in Procs : Before(w)' = Before(w)
      /\ \A w \in Procs : Begun(writing[w])' = Begun(writing[w])
  BY DoorSame DEF AtDoor
<1>1. NotYet' = NotYet /\ \A m : Known(m) => Known(m)'
  BY <1>0 DEF NotYet, Known
<1>2. \A q \in Procs : \A m \in OnWay(q)' : Known(m)' /\ Routable(q, m)
  BY <1>1 DEF AllWereSent
<1>3. /\ \A w \in Writers : \A k \in DOMAIN sent'[w] : sent'[w][k].from = w /\ sent'[w][k].num = k
      /\ \A m \in NotYet' : Known(m)'
      /\ \A m \in AtDoor' : m.from \in Procs
      /\ \A w \in Procs : \A m \in Before(w)' : m.from = w
      /\ \A w \in Procs : \A m \in Begun(writing[w])' : m.num = Len(sent'[w])
  BY <1>0, <1>1 DEF AllWereSent
<1> QED
  BY <1>2, <1>3 DEF AllWereSent, Routable

LEMMA MovesLoseNothing ==
    ASSUME NoneIsLost, \A q \in alive : OnWay(q)' = OnWay(q), NotYet' = NotYet,
           UNCHANGED <<sent, alive>>
    PROVE  NoneIsLost'
<1>1. \A p \in alive', w \in Writers : \A k \in DOMAIN sent'[w] :
         /\ Routable(p, sent'[w][k])
         /\ w \in alive' \cup {KERNEL_ID} \/ k < Len(sent'[w])
         => sent'[w][k] \in OnWay(p)' \cup NotYet'
  BY DEF NoneIsLost
<1> QED
  BY <1>1 DEF NoneIsLost, Routable

-----------------------------------------------------------------------------
\* What the kernel reads from a child

LEMMA PartsFlow ==
    ASSUME NEW m \in Messages
    PROVE  /\ Flows(NoMsg, Parts(m))
           /\ DueAfter(NoMsg, Parts(m), Len(Parts(m))) = NoMsg
<1> DEFINE s == Parts(m)
<1>1. m.len \in {0, 1} /\ Header(m).part = "header"
  BY DEF Messages, Header
<1>2. CASE m.len = 0
  <2>1. Len(s) = 1 /\ s[1] = Header(m) /\ Pending(Header(m)) = NoMsg
    BY <1>2, PartsOfMessage, PendingAfter
  <2> HIDE DEF s
  <2>2. DueAfter(NoMsg, s, Len(s)) = NoMsg
    BY <2>1 DEF DueAfter
  <2>3. Flows(NoMsg, s)
    BY <1>1, <2>1 DEF Flows, DueAfter, Fits
  <2> QED
    BY <2>2, <2>3 DEF s
<1>3. CASE m.len = 1
  <2>1. /\ Len(s) = 2 /\ s[1] = Header(m) /\ s[2] = Payload(m)
        /\ Pending(Header(m)) = m /\ Pending(Payload(m)) = NoMsg
    BY <1>3, PartsOfMessage, PendingAfter
  <2> HIDE DEF s
  <2>2. DueAfter(NoMsg, s, 0) = NoMsg /\ DueAfter(NoMsg, s, 1) = m
        /\ DueAfter(NoMsg, s, Len(s)) = NoMsg
    BY <2>1 DEF DueAfter
  <2>3. Fits(DueAfter(NoMsg, s, 0), s[1]) /\ Fits(DueAfter(NoMsg, s, 1), s[2])
    BY <1>1, <2>1, <2>2, NoMsgIsNone DEF Fits
  <2>4. Flows(NoMsg, s)
    <3>1. \A i \in 1..2 : i = 1 \/ i = 2
      OBVIOUS
    <3>2. 1 - 1 = 0 /\ 2 - 1 = 1
      OBVIOUS
    <3> QED
      BY <2>1, <2>3, <3>1, <3>2 DEF Flows
  <2> QED
    BY <2>2, <2>4 DEF s
<1> QED
  BY <1>1, <1>2, <1>3

LEMMA ReadsWholeSame ==
    ASSUME NEW w \in Procs, ReadsWhole(w), out'[w] = out[w], writing'[w] = writing[w],
           DueFrom(w)' = DueFrom(w), w \in alive' => w \in alive
    PROVE  ReadsWhole(w)'
<1>1. DueAfterOut(w)' = DueAfterOut(w)
  BY DEF DueAfterOut, DueAfter
<1>2. Flows(DueFrom(w), out[w])'
  BY DEF ReadsWhole, Flows, DueAfter
<1>3. w \in alive' => /\ Flows(DueAfterOut(w)', writing'[w])
                      /\ DueAfter(DueAfterOut(w)', writing'[w], Len(writing'[w])) = NoMsg
  BY <1>1 DEF ReadsWhole
<1> QED
  BY <1>2, <1>3 DEF ReadsWhole, Flows, DueAfter

\* The child has written the next unit of its message.
LEMMA WrittenWhole ==
    ASSUME TypeOK, NEW p \in Procs, ReadsWhole(p), WriteUnit(p)
    PROVE  ReadsWhole(p)'
<1> DEFINE u == Head(writing[p])
<1>1. /\ p \in alive /\ writing[p] # <<>> /\ writing[p] \in Seq(Units) /\ out[p] \in Seq(Units)
      /\ out'[p] = Append(out[p], u) /\ writing'[p] = Tail(writing[p])
      /\ DueFrom(p)' = DueFrom(p)
  BY DEF WriteUnit, TypeOK, DueFrom
<1>2. u \in Units
  BY <1>1, FirstAndRest
<1>3. /\ Flows(DueFrom(p), out[p]) /\ Flows(DueAfterOut(p), writing[p])
      /\ DueAfter(DueAfterOut(p), writing[p], Len(writing[p])) = NoMsg
  BY <1>1 DEF ReadsWhole
<1>4. /\ Fits(DueAfterOut(p), u)
      /\ Flows(Pending(u), Tail(writing[p]))
      /\ DueAfter(Pending(u), Tail(writing[p]), Len(Tail(writing[p]))) = NoMsg
  BY <1>1, <1>3, FlowsTail
<1> HIDE DEF u
<1>5. /\ Flows(DueFrom(p), out'[p])
      /\ DueAfter(DueFrom(p), out'[p], Len(out'[p])) = Pending(u)
  BY <1>1, <1>2, <1>3, <1>4, FlowsAppend DEF DueAfterOut
<1>6. Flows(DueFrom(p)', out'[p]) /\ DueAfterOut(p)' = Pending(u)
  BY <1>1, <1>5 DEF DueAfterOut
<1>7. Flows(DueAfterOut(p)', writing'[p])
      /\ DueAfter(DueAfterOut(p)', writing'[p], Len(writing'[p])) = NoMsg
  BY <1>1, <1>4, <1>6
<1> QED
  BY <1>6, <1>7 DEF ReadsWhole

\* The kernel has read the next unit.
LEMMA TakenWhole ==
    ASSUME TypeOK, NEW p \in Procs, ReadsWhole(p), out[p] # <<>>, out'[p] = Tail(out[p]),
           writing'[p] = writing[p], alive' = alive, DueFrom(p)' = Pending(Head(out[p]))
    PROVE  ReadsWhole(p)'
<1>1. out[p] \in Seq(Units) /\ Flows(DueFrom(p), out[p])
  BY DEF TypeOK, ReadsWhole
<1>2. /\ Flows(DueFrom(p)', out'[p])
      /\ DueAfter(DueFrom(p)', out'[p], Len(out'[p])) = DueAfterOut(p)
  BY <1>1, FlowsTail DEF DueAfterOut
<1>3. DueAfterOut(p)' = DueAfterOut(p)
  BY <1>2 DEF DueAfterOut
<1>4. p \in alive' => /\ Flows(DueAfterOut(p)', writing'[p])
                      /\ DueAfter(DueAfterOut(p)', writing'[p], Len(writing'[p])) = NoMsg
  BY <1>3 DEF ReadsWhole
<1> QED
  BY <1>2, <1>4 DEF ReadsWhole

\* The child has begun a message: nothing was due before.
LEMMA BegunWhole ==
    ASSUME TypeOK, NEW p \in Procs, ReadsWhole(p), p \in alive, writing[p] = <<>>,
           NEW m \in Messages, writing'[p] = Parts(m),
           UNCHANGED <<out, kReading, alive>>
    PROVE  ReadsWhole(p)'
<1>1. DueAfterOut(p) = NoMsg
  BY DEF ReadsWhole, DueAfter
<1>2. DueAfterOut(p)' = NoMsg /\ Flows(DueFrom(p)', out'[p])
  BY <1>1 DEF DueAfterOut, DueFrom, ReadsWhole
<1>3. Flows(DueAfterOut(p)', writing'[p])
      /\ DueAfter(DueAfterOut(p)', writing'[p], Len(writing'[p])) = NoMsg
  BY <1>2, PartsFlow
<1> QED
  BY <1>2, <1>3 DEF ReadsWhole

\* The rest of the state goes on: what is not yet routed only changes place.
LEMMA DoorKeeps ==
    ASSUME TypeOK, UnderWay,
           UNCHANGED <<received, reading, in, aio, kWriting, sent, alive, procMap>>,
           NotYet' = NotYet, KernelReadsWhole',
           \A w \in Procs : /\ DoorInOrder(w)' /\ Before(w)' \subseteq Before(w)
                            /\ Begun(writing[w])' \subseteq Begun(writing[w]),
           \A m \in AtDoor' : m.from \in Procs
    PROVE  UnderWay'
<1>1. \A q \in Procs : QueueInOrder(q)' /\ OnWay(q)' = OnWay(q)
  <2>1. \A q \in Procs : InHand(q)' = InHand(q)
    BY DEF InHand
  <2> QED
    BY <2>1, QueueSame DEF UnderWay, OldestAreAhead
<1>2. \A q \in Procs : Lower(OnWay(q), NotYet)
  BY DEF UnderWay, OldestAreAhead
<1>3. \A q \in Procs : Lower(OnWay(q), NotYet)'
  BY <1>1, <1>2 DEF Lower
<1>4. OldestAreAhead'
  <2>1. AscendCarried(kWriting)'
    BY DEF UnderWay, OldestAreAhead, AscendCarried
  <2> QED
    BY <1>1, <1>3, <2>1 DEF OldestAreAhead
<1>5. AllWereSent'
  <2>1. \A m : Known(m) => Known(m)'
    BY DEF Known
  <2>2. \A q \in Procs : \A m \in OnWay(q)' : Known(m)' /\ Routable(q, m)
    BY <1>1, <2>1 DEF UnderWay, AllWereSent
  <2>3. /\ \A w \in Writers : \A k \in DOMAIN sent'[w] : sent'[w][k].from = w /\ sent'[w][k].num = k
        /\ \A m \in NotYet' : Known(m)'
        /\ \A w \in Procs : \A m \in Before(w)' : m.from = w
        /\ \A w \in Procs : \A m \in Begun(writing[w])' : m.num = Len(sent'[w])
    BY <2>1 DEF UnderWay, AllWereSent
  <2> QED
    BY <2>2, <2>3 DEF AllWereSent, Routable
<1>6. NoneIsLost'
  <2>1. \A q \in alive : OnWay(q)' = OnWay(q)
    BY <1>1 DEF TypeOK
  <2> QED
    BY <2>1, MovesLoseNothing DEF UnderWay
<1> QED
  BY <1>4, <1>5, <1>6 DEF UnderWay

\* A unit moved on: by the handler, by the system or by the child that read it.
LEMMA MoveKeeps ==
    ASSUME TypeOK, UnderWay, AscendCarried(kWriting)',
           UNCHANGED <<out, writing, kReading, sent, alive, procMap>>,
           \A q \in Procs : QueueInOrder(q)' /\ OnWay(q)' \subseteq OnWay(q),
           \A q \in alive : OnWay(q)' = OnWay(q)
    PROVE  UnderWay'
<1>1. OldestAreAhead' /\ AllWereSent' /\ NoneIsLost'
  BY MovesKeepOrder, MovesKeepSent, MovesLoseNothing, DoorsSame DEF UnderWay
<1>2. KernelReadsWhole'
  BY ReadsWholeSame DEF UnderWay, KernelReadsWhole, DueFrom
<1> QED
  BY <1>1, <1>2 DEF UnderWay

LEMMA ReadKeepsUnderWay ==
    ASSUME IInv, UnderWay, NEW p \in Procs, ReadUnit(p)
    PROVE  UnderWay'
<1>1. /\ TypeOK /\ alive \subseteq Procs
      /\ UNCHANGED <<out, writing, kReading, sent, alive, procMap, aio, kWriting>>
      /\ \A q \in Procs \ {p} : in'[q] = in[q]
  BY DEF IInv, TypeOK, ReadUnit
<1>2. \A q \in Procs \ {p} : received'[q] = received[q] /\ reading'[q] = reading[q]
  <2>1. PICK u : Understands(p, u) \/ Misreads(p, u)
    BY DEF ReadUnit
  <2>2. received \in [Procs -> Seq(Messages)] /\ reading \in [Procs -> Messages \cup {NoMsg}]
    BY <1>1 DEF TypeOK
  <2>3. received' = received \/ \E m : received' = [received EXCEPT ![p] = m]
    BY <2>1 DEF Understands, Misreads
  <2>4. reading' = reading \/ \E m : reading' = [reading EXCEPT ![p] = m]
    BY <2>1 DEF Understands, Misreads
  <2> QED
    BY <2>2, <2>3, <2>4
<1>3. \A q \in Procs : QueueInOrder(q)' /\ OnWay(q)' = OnWay(q)
  <2>1. \A q \in Procs : QueueInOrder(q)
    BY DEF UnderWay, OldestAreAhead
  <2>2. \A q \in Procs : InHand(q)' = InHand(q) /\ aio'[q] = aio[q]
    BY <1>1 DEF InHand
  <2>3. QueueInOrder(p)' /\ OnWay(p)' = OnWay(p)
    BY <2>1, ReadMoves
  <2>4. ASSUME NEW q \in Procs \ {p} PROVE QueueInOrder(q)' /\ OnWay(q)' = OnWay(q)
    BY <1>1, <1>2, <2>1, <2>2, QueueSame
  <2> QED
    BY <2>3, <2>4
<1>4. AscendCarried(kWriting)'
  BY <1>1 DEF UnderWay, OldestAreAhead, AscendCarried
<1> QED
  BY <1>1, <1>3, <1>4, MoveKeeps

LEMMA AioKeepsUnderWay ==
    ASSUME TypeOK, UnderWay, NEW p \in Procs, AioCompletes(p)
    PROVE  UnderWay'
<1>1. /\ alive \subseteq Procs
      /\ UNCHANGED <<out, writing, kReading, sent, alive, procMap, kWriting, received, reading>>
      /\ \A q \in Procs \ {p} : in'[q] = in[q] /\ aio'[q] = aio[q]
  BY DEF TypeOK, AioCompletes, child
<1>2. \A q \in Procs : QueueInOrder(q)
  BY DEF UnderWay, OldestAreAhead
<1>3. /\ QueueInOrder(p)' /\ OnWay(p)' \subseteq OnWay(p)
      /\ p \in alive => OnWay(p)' = OnWay(p)
  BY <1>2, AioMoves
<1>4. ASSUME NEW q \in Procs \ {p} PROVE QueueInOrder(q)' /\ OnWay(q)' = OnWay(q)
  <2>1. InHand(q)' = InHand(q)
    BY <1>1 DEF InHand
  <2> QED
    BY <1>1, <1>2, <2>1, QueueSame
<1>5. /\ \A q \in Procs : QueueInOrder(q)' /\ OnWay(q)' \subseteq OnWay(q)
      /\ \A q \in alive : OnWay(q)' = OnWay(q)
  BY <1>1, <1>3, <1>4
<1>6. AscendCarried(kWriting)'
  BY <1>1 DEF UnderWay, OldestAreAhead, AscendCarried
<1> QED
  BY <1>1, <1>5, <1>6, MoveKeeps

LEMMA HandlerKeepsUnderWay ==
    ASSUME ~AioRefuses, TypeOK, UnderWay, KernelWrites
    PROVE  UnderWay'
<1>1. alive \subseteq Procs /\ UNCHANGED <<out, writing, kReading, sent, alive, procMap>>
  BY DEF TypeOK, KernelWrites, child
<1>2. AscendCarried(kWriting) /\ \A q \in Procs : QueueInOrder(q)
  BY DEF UnderWay, OldestAreAhead
<1>3. \A q \in Procs : QueueInOrder(q)' /\ OnWay(q)' = OnWay(q) /\ AscendCarried(kWriting)'
  BY <1>2, HandlerMoves
<1>4. AscendCarried(kWriting)'
  BY <1>3, ConstantFacts
<1> QED
  BY <1>1, <1>3, <1>4, MoveKeeps

\* A child writes a unit: it is still before the door.
LEMMA WriteKeepsUnderWay ==
    ASSUME TypeOK, UnderWay, NEW p \in Procs, WriteUnit(p)
    PROVE  UnderWay'
<1> DEFINE u == Head(writing[p])
           B == Starts(u)
<1>1. /\ writing[p] # <<>> /\ writing[p] \in Seq(Units) /\ out[p] \in Seq(Units)
      /\ out'[p] = Append(out[p], u) /\ writing'[p] = Tail(writing[p])
      /\ \A q \in Procs \ {p} : out'[q] = out[q] /\ writing'[q] = writing[q]
      /\ UNCHANGED <<received, reading, in, aio, kWriting, kReading, sent, alive, procMap>>
  BY DEF WriteUnit, TypeOK
<1>2. /\ AscendUnits(out[p]) /\ AscendUnits(writing[p])
      /\ Lower(Begun(out[p]), Begun(writing[p])) /\ Lower(AtDoor, Before(p))
  BY DEF UnderWay, OldestAreAhead, DoorInOrder
<1>3. /\ u \in Units /\ Begun(writing[p]) = B \cup Begun(writing[p])'
      /\ Lower(B, Begun(writing[p])') /\ AscendUnits(writing[p])'
  BY <1>1, <1>2, BegunTail
<1> HIDE DEF u
<1>4. Begun(out[p])' = Begun(out[p]) \cup B /\ AscendUnits(out[p])'
  <2>1. Lower(Begun(out[p]), B)
    BY <1>2, <1>3 DEF Lower
  <2> QED
    BY <1>1, <1>2, <1>3, <2>1, BegunAppend
<1> HIDE DEF B
<1>5. AtDoor' = AtDoor /\ Before(p)' = Before(p)
  BY <1>1, <1>3, <1>4 DEF AtDoor, Before
<1>6. DoorInOrder(p)'
  BY <1>2, <1>3, <1>4, <1>5 DEF DoorInOrder, Lower
<1>7. ASSUME NEW w \in Procs
      PROVE  /\ DoorInOrder(w)' /\ Before(w)' = Before(w)
             /\ Begun(writing[w])' \subseteq Begun(writing[w])
  <2>1. CASE w = p
    BY <1>3, <1>5, <1>6, <2>1
  <2>2. CASE w # p
    BY <1>1, <1>5, <2>2, DoorSame DEF UnderWay, OldestAreAhead
  <2> QED
    BY <2>1, <2>2
<1>8. NotYet' = NotYet
  BY <1>5, <1>7 DEF NotYet
<1>9. KernelReadsWhole'
  <2>1. \A w \in Procs : ReadsWhole(w) /\ DueFrom(w)' = DueFrom(w)
    BY <1>1 DEF UnderWay, KernelReadsWhole, DueFrom
  <2>2. ReadsWhole(p)'
    BY <2>1, WrittenWhole
  <2>3. ASSUME NEW w \in Procs \ {p} PROVE ReadsWhole(w)'
    BY <1>1, <2>1, ReadsWholeSame
  <2> QED
    BY <2>2, <2>3 DEF KernelReadsWhole
<1>10. \A m \in AtDoor' : m.from \in Procs
  BY <1>5 DEF UnderWay, AllWereSent
<1> QED
  BY <1>1, <1>7, <1>8, <1>9, <1>10, DoorKeeps

\* A child begins a message: it is newer than all that it has sent.
LEMMA SendBegins ==
    ASSUME TypeOK, NEW p \in Procs, Send(p)
    PROVE  \E m \in Messages :
              /\ m.from = p /\ m.num = Len(sent[p]) + 1
              /\ sent' = [sent EXCEPT ![p] = Append(@, m)]
              /\ writing' = [writing EXCEPT ![p] = Parts(m)]
<1>1. PICK s \in Sends :
        LET m == [from |-> p, num |-> Len(sent[p]) + 1, src |-> p, dst |-> s.dst,
                  type |-> s.type, len |-> s.len]
        IN  /\ sent' = [sent EXCEPT ![p] = Append(@, m)]
            /\ writing' = [writing EXCEPT ![p] = Parts(m)]
  BY DEF Send
<1> DEFINE m == [from |-> p, num |-> Len(sent[p]) + 1, src |-> p, dst |-> s.dst,
                 type |-> s.type, len |-> s.len]
<1>2. p \in Writers /\ sent[p] \in Seq(Messages) /\ Len(sent[p]) + 1 \in Nat
  BY ConstantFacts DEF TypeOK
<1>3. m \in Messages
  BY <1>2, RouterAssumption DEF Messages
<1>4. m.from = p /\ m.num = Len(sent[p]) + 1
  OBVIOUS
<1>5. /\ sent' = [sent EXCEPT ![p] = Append(@, m)]
      /\ writing' = [writing EXCEPT ![p] = Parts(m)]
  BY <1>1
<1> HIDE DEF m
<1> QED
  BY <1>3, <1>4, <1>5

\* What was sent stays sent, with the same number.
SentGrows == \A w \in Writers : /\ Len(sent[w]) <= Len(sent'[w])
                                /\ \A k \in DOMAIN sent[w] : /\ k \in DOMAIN sent'[w]
                                                             /\ sent'[w][k] = sent[w][k]

LEMMA KnownStays ==
    ASSUME SentGrows, NEW m \in Messages, Known(m)
    PROVE  Known(m)'
BY DEF SentGrows, Known, Messages

LEMMA SendGrows ==
    ASSUME TypeOK, NEW p \in Procs, NEW m \in Messages,
           sent' = [sent EXCEPT ![p] = Append(@, m)]
    PROVE  /\ SentGrows
           /\ Len(sent[p]) \in Nat
           /\ DOMAIN sent[p] = 1..Len(sent[p]) /\ DOMAIN sent'[p] = 1..(Len(sent[p]) + 1)
           /\ Len(sent'[p]) = Len(sent[p]) + 1
           /\ \A k \in 1..Len(sent[p]) : sent'[p][k] = sent[p][k]
           /\ sent'[p][Len(sent[p]) + 1] = m
           /\ \A w \in Writers \ {p} : sent'[w] = sent[w]
<1>1. p \in Writers /\ sent[p] \in Seq(Messages)
      /\ sent'[p] = Append(sent[p], m) /\ \A w \in Writers \ {p} : sent'[w] = sent[w]
  BY ConstantFacts DEF TypeOK
<1>2. \A w \in Writers : Len(sent[w]) \in Nat
  BY DEF TypeOK
<1>3. /\ Len(sent[p]) \in Nat
      /\ DOMAIN sent[p] = 1..Len(sent[p]) /\ DOMAIN sent'[p] = 1..(Len(sent[p]) + 1)
      /\ Len(sent'[p]) = Len(sent[p]) + 1
      /\ \A k \in 1..Len(sent[p]) : sent'[p][k] = sent[p][k]
      /\ sent'[p][Len(sent[p]) + 1] = m
  BY <1>1
<1>4. SentGrows
  BY <1>1, <1>2, <1>3 DEF SentGrows
<1> QED
  BY <1>1, <1>3, <1>4

LEMMA ItemsType ==
    ASSUME NEW S, NEW s \in Seq(S)
    PROVE  \A i \in DOMAIN s : s[i] \in S
OBVIOUS

LEMMA PlacesType ==
    ASSUME TypeOK, NEW p \in Procs
    PROVE  /\ OnWay(p) \subseteq Messages
           /\ NotYet \subseteq Messages /\ AtDoor \subseteq Messages
           /\ Before(p) \subseteq Messages
<1>1. \A q \in Procs : Before(q) \subseteq Messages
  BY ReadParts, BegunFacts DEF Before
<1>2. AtDoor \subseteq Messages
  BY DEF AtDoor, TypeOK
<1>3. Got(p) \subseteq Messages /\ Held(p) \subseteq Messages
  BY ReadParts DEF Got, Held
<1>4. Begun(in[p]) \subseteq Messages /\ Begun(aio[p]) \subseteq Messages
  BY ReadParts, BegunFacts
<1>5. InHand(p) \subseteq Messages
  <2>1. \A i \in DOMAIN kWriting : kWriting[i] \in [to : Procs, unit : Units]
    <3>1. kWriting \in Seq([to : Procs, unit : Units])
      BY DEF TypeOK
    <3> QED
      BY <3>1, ItemsType
  <2>2. \A u \in Units : u.msg \in Messages
    BY DEF Units
  <2>3. \A i \in DOMAIN kWriting : kWriting[i].unit.msg \in Messages
    BY <2>1, <2>2
  <2> QED
    BY <2>3 DEF InHand, Carried
<1> QED
  BY <1>1, <1>2, <1>3, <1>4, <1>5 DEF OnWay, NotYet

LEMMA SendKeepsUnderWay ==
    ASSUME TypeOK, UnderWay, NEW p \in Procs, Send(p)
    PROVE  UnderWay'
<1>1. PICK m \in Messages :
         /\ m.from = p /\ m.num = Len(sent[p]) + 1
         /\ sent' = [sent EXCEPT ![p] = Append(@, m)]
         /\ writing' = [writing EXCEPT ![p] = Parts(m)]
  BY SendBegins
<1>2. /\ p \in alive /\ writing[p] = <<>> /\ writing'[p] = Parts(m)
      /\ \A q \in Procs \ {p} : writing'[q] = writing[q]
      /\ UNCHANGED <<procMap, alive, out, kReading, kWriting, aio, in, reading, received>>
  BY <1>1 DEF Send, TypeOK
<1>3. /\ SentGrows
      /\ Len(sent[p]) \in Nat
      /\ DOMAIN sent[p] = 1..Len(sent[p]) /\ DOMAIN sent'[p] = 1..(Len(sent[p]) + 1)
      /\ Len(sent'[p]) = Len(sent[p]) + 1
      /\ \A k \in 1..Len(sent[p]) : sent'[p][k] = sent[p][k]
      /\ sent'[p][Len(sent[p]) + 1] = m
      /\ \A w \in Writers \ {p} : sent'[w] = sent[w]
  BY <1>1, SendGrows
<1>4. /\ AtDoor' = AtDoor /\ Begun(writing[p])' = {m} /\ Begun(writing[p]) = {}
      /\ Begun(out[p])' = Begun(out[p])
      /\ AscendUnits(writing[p])'
      /\ Before(p)' = Before(p) \cup {m}
  <2>1. Begun(writing[p])' = {m} /\ AscendUnits(writing[p])'
    BY <1>2, BegunParts
  <2>2. Begun(writing[p]) = {} /\ AtDoor' = AtDoor /\ Begun(out[p])' = Begun(out[p])
    BY <1>2 DEF Begun, AtDoor
  <2> QED
    BY <2>1, <2>2 DEF Before
<1>5. \A w \in Procs \ {p} : /\ Before(w)' = Before(w) /\ DoorInOrder(w)'
                             /\ Begun(writing[w])' = Begun(writing[w])
  BY <1>2, <1>4, DoorSame DEF UnderWay, OldestAreAhead
<1>6. NotYet' = NotYet \cup {m}
  <2>1. ASSUME NEW n \in NotYet' PROVE n \in NotYet \cup {m}
    BY <1>4, <1>5, <2>1 DEF NotYet
  <2>2. ASSUME NEW n \in NotYet PROVE n \in NotYet'
    BY <1>4, <1>5, <2>2 DEF NotYet
  <2>3. m \in NotYet'
    BY <1>4 DEF NotYet
  <2> QED
    BY <2>1, <2>2, <2>3
<1>7. ASSUME NEW n \in Messages, Known(n), n.from = p
      PROVE  n.num < m.num
  BY <1>1, <1>3, <1>7 DEF Known, Messages
<1>8. \A q \in Procs : QueueInOrder(q)' /\ OnWay(q)' = OnWay(q)
  <2>1. \A q \in Procs : InHand(q)' = InHand(q)
    BY <1>2 DEF InHand
  <2> QED
    BY <1>2, <2>1, QueueSame DEF UnderWay, OldestAreAhead
<1>9. AllWereSent
  BY DEF UnderWay
<1>10. OldestAreAhead'
  <2>1. ASSUME NEW q \in Procs PROVE Lower(OnWay(q), NotYet)'
    <3>1. \A n \in OnWay(q) : n.from = p => n.num < m.num
      BY <1>7, <1>9, PlacesType DEF AllWereSent
    <3>2. Lower(OnWay(q), NotYet)
      BY DEF UnderWay, OldestAreAhead
    <3> QED
      BY <1>1, <1>6, <1>8, <3>1, <3>2 DEF Lower
  <2>2. DoorInOrder(p)'
    <3>1. DoorInOrder(p)
      BY DEF UnderWay, OldestAreAhead
    <3>2. AscendUnits(out[p])'
      BY <1>2, <3>1 DEF DoorInOrder, AscendUnits
    <3>3. \A n \in AtDoor \cup Before(p) : n.from = p => n.num < m.num
      <4>1. \A n \in AtDoor \cup Before(p) : n \in NotYet /\ n \in Messages
        BY PlacesType DEF NotYet
      <4> QED
        BY <1>7, <1>9, <4>1 DEF AllWereSent
    <3>4. Lower(Begun(out[p]), Begun(writing[p]))' /\ Lower(AtDoor, Before(p))'
      BY <1>1, <1>4, <3>1, <3>3 DEF DoorInOrder, Lower, Before
    <3> QED
      BY <1>4, <3>2, <3>4 DEF DoorInOrder
  <2>3. AscendCarried(kWriting)'
    BY <1>2 DEF UnderWay, OldestAreAhead, AscendCarried
  <2> QED
    BY <1>5, <1>8, <2>1, <2>2, <2>3 DEF OldestAreAhead
<1>11. AllWereSent'
  <2>1. ASSUME NEW w \in Writers, NEW k \in DOMAIN sent'[w]
        PROVE  sent'[w][k].from = w /\ sent'[w][k].num = k
    <3>1. CASE w # p
      BY <1>3, <1>9, <3>1 DEF AllWereSent
    <3>2. CASE w = p /\ k # Len(sent[p]) + 1
      BY <1>3, <1>9, <3>2 DEF AllWereSent
    <3>3. CASE w = p /\ k = Len(sent[p]) + 1
      BY <1>1, <1>3, <3>3
    <3> QED
      BY <3>1, <3>2, <3>3
  <2>2. ASSUME NEW q \in Procs, NEW n \in OnWay(q)' PROVE Known(n)' /\ Routable(q, n)
    BY <1>3, <1>8, <1>9, PlacesType, KnownStays DEF AllWereSent
  <2>3. Known(m)'
    BY <1>1, <1>3 DEF Known
  <2>4. ASSUME NEW n \in NotYet' PROVE Known(n)'
    BY <1>3, <1>6, <1>9, <2>3, PlacesType, KnownStays DEF AllWereSent
  <2>5. \A n \in AtDoor' : n.from \in Procs
    BY <1>4, <1>9 DEF AllWereSent
  <2>6. ASSUME NEW w \in Procs
        PROVE  /\ \A n \in Before(w)' : n.from = w
               /\ \A n \in Begun(writing[w])' : n.num = Len(sent'[w])
    <3>1. CASE w = p
      BY <1>1, <1>3, <1>4, <1>9, <3>1 DEF AllWereSent
    <3>2. CASE w # p
      BY <1>3, <1>5, <1>9, <3>2, ConstantFacts DEF AllWereSent
    <3> QED
      BY <3>1, <3>2
  <2> QED
    BY <2>1, <2>2, <2>4, <2>5, <2>6 DEF AllWereSent, Routable
<1>12. NoneIsLost'
  <2> SUFFICES ASSUME NEW q \in alive', NEW w \in Writers, NEW k \in DOMAIN sent'[w],
                      Routable(q, sent'[w][k]),
                      w \in alive' \cup {KERNEL_ID} \/ k < Len(sent'[w])
               PROVE  sent'[w][k] \in OnWay(q)' \cup NotYet'
    BY DEF NoneIsLost, Routable
  <2>0. q \in alive /\ q \in Procs
    BY <1>2 DEF TypeOK
  <2>1. CASE w # p
    BY <1>2, <1>3, <1>6, <1>8, <2>0, <2>1 DEF UnderWay, NoneIsLost
  <2>2. CASE w = p /\ k # Len(sent[p]) + 1
    BY <1>2, <1>3, <1>6, <1>8, <2>0, <2>2 DEF UnderWay, NoneIsLost
  <2>3. CASE w = p /\ k = Len(sent[p]) + 1
    BY <1>3, <1>6, <2>3
  <2> QED
    BY <2>1, <2>2, <2>3
<1>13. KernelReadsWhole'
  <2>1. \A w \in Procs : ReadsWhole(w) /\ DueFrom(w)' = DueFrom(w)
    BY <1>2 DEF UnderWay, KernelReadsWhole, DueFrom
  <2>2. ReadsWhole(p)'
    BY <1>2, <2>1, BegunWhole
  <2>3. ASSUME NEW w \in Procs \ {p} PROVE ReadsWhole(w)'
    BY <1>2, <2>1, ReadsWholeSame
  <2> QED
    BY <2>2, <2>3 DEF KernelReadsWhole
<1> QED
  BY <1>2, <1>10, <1>11, <1>12, <1>13 DEF UnderWay

\* A child crashes: at most the message it was writing is lost.
LEMMA CrashKeepsUnderWay ==
    ASSUME TypeOK, UnderWay, NEW p \in Procs, Crash(p)
    PROVE  UnderWay'
<1>1. /\ alive' = alive \ {p} /\ writing'[p] = <<>>
      /\ \A q \in Procs \ {p} : writing'[q] = writing[q]
      /\ UNCHANGED <<procMap, sent, out, kReading, kWriting, aio, in, reading, received>>
  BY DEF Crash, TypeOK
<1>2. /\ AtDoor' = AtDoor /\ Begun(writing[p])' = {} /\ Begun(out[p])' = Begun(out[p])
      /\ AscendUnits(writing[p])'
  BY <1>1 DEF Begun, AtDoor, AscendUnits
<1>3. \A w \in Procs \ {p} : /\ Before(w)' = Before(w) /\ DoorInOrder(w)'
                             /\ Begun(writing[w])' = Begun(writing[w])
  BY <1>1, <1>2, DoorSame DEF UnderWay, OldestAreAhead
<1>4. /\ Before(p)' \subseteq Before(p)
      /\ Before(p) \subseteq Before(p)' \cup Begun(writing[p])
  BY <1>2 DEF Before
<1>5. NotYet' \subseteq NotYet /\ NotYet \subseteq NotYet' \cup Begun(writing[p])
  <2>1. ASSUME NEW n \in NotYet' PROVE n \in NotYet
    BY <1>2, <1>3, <1>4, <2>1 DEF NotYet
  <2>2. ASSUME NEW n \in NotYet PROVE n \in NotYet' \cup Begun(writing[p])
    BY <1>2, <1>3, <1>4, <2>2 DEF NotYet
  <2> QED
    BY <2>1, <2>2
<1>6. \A q \in Procs : QueueInOrder(q)' /\ OnWay(q)' = OnWay(q)
  <2>1. \A q \in Procs : InHand(q)' = InHand(q)
    BY <1>1 DEF InHand
  <2> QED
    BY <1>1, <2>1, QueueSame DEF UnderWay, OldestAreAhead
<1>7. OldestAreAhead'
  <2>1. ASSUME NEW q \in Procs PROVE Lower(OnWay(q), NotYet)'
    <3>1. Lower(OnWay(q), NotYet)
      BY DEF UnderWay, OldestAreAhead
    <3> QED
      BY <1>5, <1>6, <3>1 DEF Lower
  <2>2. DoorInOrder(p)'
    <3>1. DoorInOrder(p)
      BY DEF UnderWay, OldestAreAhead
    <3>2. AscendUnits(out[p])'
      BY <1>1, <3>1 DEF DoorInOrder, AscendUnits
    <3>3. Lower(Begun(out[p]), Begun(writing[p]))' /\ Lower(AtDoor, Before(p))'
      BY <1>2, <1>4, <3>1 DEF DoorInOrder, Lower
    <3> QED
      BY <1>2, <3>2, <3>3 DEF DoorInOrder
  <2>3. AscendCarried(kWriting)'
    BY <1>1 DEF UnderWay, OldestAreAhead, AscendCarried
  <2> QED
    BY <1>3, <1>6, <2>1, <2>2, <2>3 DEF OldestAreAhead
<1>8. AllWereSent
  BY DEF UnderWay
<1>9. AllWereSent'
  <2>1. \A m : Known(m) => Known(m)'
    BY <1>1 DEF Known
  <2>2. \A q \in Procs : \A m \in OnWay(q)' : Known(m)' /\ Routable(q, m)
    BY <1>6, <1>8, <2>1 DEF AllWereSent
  <2>3. /\ \A w \in Writers : \A k \in DOMAIN sent'[w] : sent'[w][k].from = w /\ sent'[w][k].num = k
        /\ \A m \in NotYet' : Known(m)'
        /\ \A m \in AtDoor' : m.from \in Procs
    BY <1>1, <1>2, <1>5, <1>8, <2>1 DEF AllWereSent
  <2>4. \A w \in Procs : /\ \A m \in Before(w)' : m.from = w
                         /\ \A m \in Begun(writing[w])' : m.num = Len(sent'[w])
    BY <1>1, <1>2, <1>3, <1>4, <1>8 DEF AllWereSent
  <2> QED
    BY <2>2, <2>3, <2>4 DEF AllWereSent, Routable
<1>10. NoneIsLost'
  <2> SUFFICES ASSUME NEW q \in alive', NEW w \in Writers, NEW k \in DOMAIN sent'[w],
                      Routable(q, sent'[w][k]),
                      w \in alive' \cup {KERNEL_ID} \/ k < Len(sent'[w])
               PROVE  sent'[w][k] \in OnWay(q)' \cup NotYet'
    BY DEF NoneIsLost, Routable
  <2>0. q \in alive /\ q \in Procs /\ KERNEL_ID \notin Procs
    BY <1>1, ConstantFacts DEF TypeOK
  <2>1. sent[w][k] \in OnWay(q) \cup NotYet
    BY <1>1, <2>0 DEF UnderWay, NoneIsLost
  <2>2. sent[w][k].from = w /\ sent[w][k].num = k
    BY <1>1, <1>8 DEF AllWereSent
  <2>3. sent[w][k] \notin Begun(writing[p])
    <3>1. \A m \in Begun(writing[p]) : m.from = p /\ m.num = Len(sent[p])
      BY <1>8 DEF AllWereSent, Before
    <3>2. Len(sent[w]) \in Nat
      BY DEF TypeOK
    <3> QED
      BY <1>1, <2>0, <2>2, <3>1, <3>2
  <2> QED
    BY <1>1, <1>5, <1>6, <2>0, <2>1, <2>3
<1>11. KernelReadsWhole'
  <2>1. \A w \in Procs : ReadsWhole(w) /\ DueFrom(w)' = DueFrom(w)
    BY <1>1 DEF UnderWay, KernelReadsWhole, DueFrom
  <2>2. ASSUME NEW w \in Procs \ {p} PROVE ReadsWhole(w)'
    BY <1>1, <2>1, ReadsWholeSame
  <2>3. ReadsWhole(p)'
    BY <1>1, <2>1 DEF ReadsWhole, Flows, DueAfter
  <2> QED
    BY <2>2, <2>3 DEF KernelReadsWhole
<1> QED
  BY <1>1, <1>7, <1>9, <1>10, <1>11 DEF UnderWay

\* What handleMessage decides about m, in terms of the messages that it begins
\* to carry: m, if it may pass, and those that it makes itself, newer than all
\* the kernel has sent.
Decides(m) ==
    /\ SentGrows /\ \A w \in Procs : sent'[w] = sent[w]
    /\ \A k \in DOMAIN sent'[KERNEL_ID] : /\ sent'[KERNEL_ID][k].from = KERNEL_ID
                                          /\ sent'[KERNEL_ID][k].num = k
    /\ AscendCarried(kWriting')
    /\ \A q \in Procs : \A n \in InHand(q)' :
          /\ n \in Messages /\ Known(n)' /\ Routable(q, n)
          /\ n = m \/ (n.from = KERNEL_ID /\ n.num > Len(sent[KERNEL_ID]))
    /\ \A q \in alive : /\ Routable(q, m) => m \in InHand(q)'
                        /\ \A k \in DOMAIN sent'[KERNEL_ID] :
                              /\ k \notin DOMAIN sent[KERNEL_ID]
                              /\ Routable(q, sent'[KERNEL_ID][k])
                              => sent'[KERNEL_ID][k] \in InHand(q)'

LEMMA KernelHasSent ==
    ASSUME TypeOK, AllWereSent
    PROVE  /\ sent[KERNEL_ID] \in Seq(Messages) /\ Len(sent[KERNEL_ID]) \in Nat
           /\ DOMAIN sent[KERNEL_ID] = 1..Len(sent[KERNEL_ID])
           /\ \A k \in DOMAIN sent[KERNEL_ID] : /\ sent[KERNEL_ID][k].from = KERNEL_ID
                                                /\ sent[KERNEL_ID][k].num = k
<1>1. KERNEL_ID \in Writers
  BY ConstantFacts
<1>2. sent[KERNEL_ID] \in Seq(Messages)
  BY <1>1 DEF TypeOK
<1> QED
  BY <1>1, <1>2 DEF AllWereSent

LEMMA NothingIsCarried ==
    (\A q : Carried(<<>>, q) = {}) /\ AscendCarried(<<>>)
BY DEF Carried, AscendCarried

LEMMA NothingDecided ==
    ASSUME TypeOK, AllWereSent, NEW m \in Messages, kWriting' = <<>>, sent' = sent,
           \A q \in alive : ~Routable(q, m)
    PROVE  Decides(m)
<1>1. (\A q \in Procs : InHand(q)' = {}) /\ AscendCarried(kWriting')
  BY NothingIsCarried DEF InHand
<1>2. SentGrows /\ \A w \in Procs : sent'[w] = sent[w]
  <2>1. \A w \in Writers : Len(sent[w]) \in Nat
    BY DEF TypeOK
  <2> QED
    BY <2>1 DEF SentGrows
<1> QED
  BY <1>1, <1>2, KernelHasSent DEF Decides

LEMMA PassingDecided ==
    ASSUME TypeOK, AllWereSent, NEW m \in Messages, Known(m),
           m.dst \in Procs, CheckWrite(m), kWriting' = To(m.dst, Parts(m)), sent' = sent
    PROVE  Decides(m)
<1>1. /\ \A q \in Procs : InHand(q)' = IF q = m.dst THEN {m} ELSE {}
      /\ AscendCarried(kWriting')
  BY CarriedMessage DEF InHand
<1>2. SentGrows /\ \A w \in Procs : sent'[w] = sent[w]
  <2>1. \A w \in Writers : Len(sent[w]) \in Nat
    BY DEF TypeOK
  <2> QED
    BY <2>1 DEF SentGrows
<1>3. Known(m)' /\ Routable(m.dst, m)
  BY <1>2, KnownStays DEF Routable
<1>4. ASSUME NEW q \in Procs, NEW n \in InHand(q)'
      PROVE  n = m /\ q = m.dst
  BY <1>1, <1>4
<1>5. \A q \in alive : Routable(q, m) => m \in InHand(q)'
  <2>1. alive \subseteq Procs
    BY DEF TypeOK
  <2> QED
    BY <1>1, <2>1 DEF Routable
<1> QED
  BY <1>1, <1>2, <1>3, <1>4, <1>5, KernelHasSent DEF Decides

LEMMA NewUrlDecided ==
    ASSUME TypeOK, AllWereSent, NEW m \in Messages, m.dst = KERNEL_ID,
           NEW app \in Procs, app >= WEBAPP_FIRST_ID, NewUrl(app)
    PROVE  Decides(m)
<1> DEFINE n == Len(sent[KERNEL_ID])
           setUrl == [from |-> KERNEL_ID, num |-> n + 1, src |-> KERNEL_ID, dst |-> app,
                      type |-> "SET_URL", len |-> 1]
           newWebApp == [from |-> KERNEL_ID, num |-> n + 2, src |-> app, dst |-> UI_ID,
                         type |-> "NEW_WEBAPP", len |-> 1]
<1>0. PICK a, b : a = setUrl /\ b = newWebApp
  OBVIOUS
<1>1. /\ n \in Nat /\ sent[KERNEL_ID] \in Seq(Messages)
      /\ DOMAIN sent[KERNEL_ID] = 1..n
      /\ \A k \in 1..n : sent[KERNEL_ID][k].from = KERNEL_ID /\ sent[KERNEL_ID][k].num = k
  BY KernelHasSent
<1>2. a \in Messages /\ b \in Messages
  <2>1. /\ KERNEL_ID \in Writers /\ app \in Writers /\ app \in Nat /\ UI_ID \in Nat
        /\ n + 1 \in Nat /\ n + 2 \in Nat
    BY <1>1, ConstantFacts
  <2>2. "SET_URL" \in MessageTypes /\ "NEW_WEBAPP" \in MessageTypes
    BY DEF MessageTypes
  <2> HIDE DEF n
  <2> QED
    BY <1>0, <2>1, <2>2 DEF Messages
<1>3. /\ a.from = KERNEL_ID /\ a.num = n + 1 /\ a.dst = app /\ a.src = KERNEL_ID
      /\ b.from = KERNEL_ID /\ b.num = n + 2 /\ b.dst = UI_ID /\ b.src = app
      /\ b.type = "NEW_WEBAPP"
  BY <1>0
<1>4. /\ sent' = [sent EXCEPT ![KERNEL_ID] = @ \o <<a, b>>]
      /\ kWriting' = To(app, Parts(a)) \o To(UI_ID, Parts(b))
  BY <1>0 DEF NewUrl
<1> HIDE DEF setUrl, newWebApp, n
<1>5. UI_ID \in Procs /\ app # UI_ID /\ a.num < b.num
  BY <1>1, <1>3, ConstantFacts DEF UI_ID, WEBAPP_FIRST_ID
<1>6. Routable(app, a) /\ Routable(UI_ID, b)
  <2>1. CheckWrite(a)
    BY <1>3 DEF CheckWrite
  <2>2. Kind(app) = WEBAPP_FIRST_ID /\ Kind(UI_ID) = UI_ID
    BY DEF Kind, WEBAPP_FIRST_ID, UI_ID
  <2>3. <<WEBAPP_FIRST_ID, UI_ID, "NEW_WEBAPP">> \in Whitelist
    BY DEF Whitelist
  <2>4. CheckWrite(b)
    BY <1>3, <2>2, <2>3 DEF CheckWrite
  <2> QED
    BY <1>3, <2>1, <2>4 DEF Routable
<1>7. /\ \A q : InHand(q)' = (IF q = app THEN {a} ELSE {}) \cup (IF q = UI_ID THEN {b} ELSE {})
      /\ AscendCarried(kWriting')
  <2> DEFINE k == To(app, Parts(a))
             l == To(UI_ID, Parts(b))
  <2>1. /\ k \in Seq(Loads) /\ AscendCarried(k)
        /\ \A q : Carried(k, q) = IF q = app THEN {a} ELSE {}
        /\ \A i \in DOMAIN k : k[i].unit.part = "header" => k[i].unit.msg = a
    BY <1>2, CarriedMessage
  <2>2. /\ l \in Seq(Loads) /\ AscendCarried(l)
        /\ \A q : Carried(l, q) = IF q = UI_ID THEN {b} ELSE {}
        /\ \A i \in DOMAIN l : l[i].unit.part = "header" => l[i].unit.msg = b
    BY <1>2, <1>5, CarriedMessage
  <2>3. kWriting' = k \o l
    BY <1>4
  <2> HIDE DEF k, l
  <2>4. /\ \A q : Carried(k \o l, q) = Carried(k, q) \cup Carried(l, q)
        /\ AscendCarried(k \o l)
    BY <1>5, <2>1, <2>2, CarriedTwo
  <2> QED
    BY <2>1, <2>2, <2>3, <2>4 DEF InHand
<1>8. /\ DOMAIN sent'[KERNEL_ID] = 1..(n + 2) /\ Len(sent'[KERNEL_ID]) = n + 2
      /\ \A k \in 1..n : sent'[KERNEL_ID][k] = sent[KERNEL_ID][k]
      /\ sent'[KERNEL_ID][n + 1] = a /\ sent'[KERNEL_ID][n + 2] = b
      /\ \A w \in Writers \ {KERNEL_ID} : sent'[w] = sent[w]
  <2>1. /\ sent'[KERNEL_ID] = sent[KERNEL_ID] \o <<a, b>>
        /\ \A w \in Writers \ {KERNEL_ID} : sent'[w] = sent[w]
    BY <1>4, ConstantFacts DEF TypeOK
  <2>2. n = Len(sent[KERNEL_ID])
    BY DEF n
  <2>3. /\ DOMAIN sent'[KERNEL_ID] = 1..(n + 2) /\ Len(sent'[KERNEL_ID]) = n + 2
        /\ \A k \in 1..n : sent'[KERNEL_ID][k] = sent[KERNEL_ID][k]
    BY <1>1, <1>2, <2>1, <2>2
  <2>4. sent'[KERNEL_ID][n + 1] = a
    BY <1>1, <1>2, <2>1, <2>2
  <2>5. sent'[KERNEL_ID][n + 2] = b
    BY <1>1, <1>2, <2>1, <2>2
  <2> QED
    BY <2>1, <2>3, <2>4, <2>5
<1>9. n = Len(sent[KERNEL_ID])
  BY DEF n
<1>10. SentGrows /\ \A w \in Procs : sent'[w] = sent[w]
  <2>1. \A w \in Writers : Len(sent[w]) \in Nat
    BY DEF TypeOK
  <2>2. \A w \in Writers \ {KERNEL_ID} :
           /\ Len(sent[w]) <= Len(sent'[w])
           /\ \A k \in DOMAIN sent[w] : k \in DOMAIN sent'[w] /\ sent'[w][k] = sent[w][k]
    BY <1>8, <2>1
  <2>3. /\ Len(sent[KERNEL_ID]) <= Len(sent'[KERNEL_ID])
        /\ \A k \in DOMAIN sent[KERNEL_ID] : /\ k \in DOMAIN sent'[KERNEL_ID]
                                             /\ sent'[KERNEL_ID][k] = sent[KERNEL_ID][k]
    BY <1>1, <1>8, <1>9
  <2> QED
    BY <1>8, <2>2, <2>3, ConstantFacts DEF SentGrows
<1>11. \A k \in 1..(n + 2) : k \in 1..n \/ k = n + 1 \/ k = n + 2
  BY <1>1
<1>12. ASSUME NEW k \in DOMAIN sent'[KERNEL_ID]
       PROVE  sent'[KERNEL_ID][k].from = KERNEL_ID /\ sent'[KERNEL_ID][k].num = k
  BY <1>1, <1>3, <1>8, <1>11
<1>13. Known(a)' /\ Known(b)'
  BY <1>1, <1>3, <1>8 DEF Known
<1>14. ASSUME NEW q \in Procs, NEW x \in InHand(q)'
       PROVE  /\ x \in Messages /\ Known(x)' /\ Routable(q, x)
              /\ x.from = KERNEL_ID /\ x.num > Len(sent[KERNEL_ID])
  <2>1. (q = app /\ x = a) \/ (q = UI_ID /\ x = b)
    BY <1>7, <1>14
  <2>2. n + 1 > n /\ n + 2 > n
    BY <1>1
  <2>3. CASE q = app /\ x = a
    BY <1>2, <1>3, <1>6, <1>9, <1>13, <2>2, <2>3
  <2>4. CASE q = UI_ID /\ x = b
    BY <1>2, <1>3, <1>6, <1>9, <1>13, <2>2, <2>4
  <2> QED
    BY <2>1, <2>3, <2>4
<1>15. ASSUME NEW q \in alive
       PROVE  /\ ~Routable(q, m)
              /\ Routable(q, a) => a \in InHand(q)'
              /\ Routable(q, b) => b \in InHand(q)'
  <2>1. q \in Procs /\ KERNEL_ID \notin Procs
    BY ConstantFacts DEF TypeOK
  <2> QED
    BY <1>3, <1>7, <2>1 DEF Routable
<1>16. ASSUME NEW q \in alive, NEW k \in DOMAIN sent'[KERNEL_ID],
              k \notin DOMAIN sent[KERNEL_ID], Routable(q, sent'[KERNEL_ID][k])
       PROVE  sent'[KERNEL_ID][k] \in InHand(q)'
  <2>1. k = n + 1 \/ k = n + 2
    BY <1>1, <1>8, <1>11, <1>16
  <2> QED
    BY <1>8, <1>15, <1>16, <2>1
<1> QED
  BY <1>7, <1>10, <1>12, <1>14, <1>15, <1>16 DEF Decides

LEMMA RouteDecides ==
    ASSUME TypeOK, UnderWay, NEW m \in Messages, Known(m), Route(m)
    PROVE  Decides(m)
<1>1. AllWereSent /\ alive \subseteq procMap /\ procMap \subseteq Procs /\ KERNEL_ID \notin Procs
  BY ConstantFacts DEF UnderWay, TypeOK
<1>2. CASE m.dst = KERNEL_ID /\ \E app \in procMap : app >= WEBAPP_FIRST_ID /\ NewUrl(app)
  BY <1>1, <1>2, NewUrlDecided
<1>3. CASE m.dst = KERNEL_ID /\ kWriting' = <<>> /\ UNCHANGED sent
  <2>1. \A q \in alive : ~Routable(q, m)
    BY <1>1, <1>3 DEF Routable
  <2> QED
    BY <1>1, <1>3, <2>1, NothingDecided
<1>4. CASE m.dst \in procMap /\ CheckWrite(m) /\ kWriting' = To(m.dst, Parts(m)) /\ UNCHANGED sent
  BY <1>1, <1>4, PassingDecided
<1>5. CASE (m.dst \in procMap => ~CheckWrite(m)) /\ kWriting' = <<>> /\ UNCHANGED sent
  <2>1. \A q \in alive : ~Routable(q, m)
    BY <1>1, <1>5 DEF Routable
  <2> QED
    BY <1>1, <1>5, <2>1, NothingDecided
<1> QED
  BY <1>2, <1>3, <1>4, <1>5 DEF Route

\* The handler has taken m, the oldest of its writer before the door.
LEMMA RoutedKeepsUnderWay ==
    ASSUME TypeOK, UnderWay, kWriting = <<>>, NEW m \in Messages, Known(m), Decides(m),
           NotYet = {m} \cup NotYet', Lower({m}, NotYet'), AtDoor' = {}, KernelReadsWhole',
           UNCHANGED <<alive, procMap, received, reading, in, aio, writing>>,
           \A w \in Procs : DoorInOrder(w)' /\ Before(w)' \subseteq Before(w)
    PROVE  UnderWay'
<1>0. AllWereSent /\ alive \subseteq Procs /\ KERNEL_ID \notin Procs
  BY ConstantFacts DEF UnderWay, TypeOK
<1>1. /\ \A q \in Procs : \A n \in InHand(q)' :
            /\ n \in Messages /\ Known(n)' /\ Routable(q, n)
            /\ n = m \/ (n.from = KERNEL_ID /\ n.num > Len(sent[KERNEL_ID]))
      /\ SentGrows /\ AscendCarried(kWriting')
  BY DEF Decides
<1>2. \A q \in Procs : /\ OnWay(q)' = OnWay(q) \cup InHand(q)'
                       /\ Got(q)' = Got(q) /\ Held(q)' = Held(q)
                       /\ Begun(in[q])' = Begun(in[q]) /\ Begun(aio[q])' = Begun(aio[q])
                       /\ OnWay(q) = Got(q) \cup Held(q) \cup Begun(in[q]) \cup Begun(aio[q])
  <2>1. \A q \in Procs : InHand(q) = {}
    BY NothingIsCarried DEF InHand
  <2>2. \A q \in Procs : /\ Got(q)' = Got(q) /\ Held(q)' = Held(q)
                         /\ Begun(in[q])' = Begun(in[q]) /\ Begun(aio[q])' = Begun(aio[q])
    BY DEF Got, Held, Begun
  <2> QED
    BY <2>1, <2>2 DEF OnWay
<1>3. ASSUME NEW q \in Procs, NEW e \in OnWay(q), NEW n \in InHand(q)', e.from = n.from
      PROVE  e.num < n.num
  <2>1. e \in Messages /\ Known(e)
    BY <1>0, PlacesType DEF AllWereSent
  <2>2. CASE n = m
    <3>1. Lower(OnWay(q), NotYet) /\ m \in NotYet
      BY DEF UnderWay, OldestAreAhead
    <3> QED
      BY <1>3, <2>2, <3>1 DEF Lower
  <2>3. CASE n.from = KERNEL_ID /\ n.num > Len(sent[KERNEL_ID])
    <3>1. e.num \in Nat /\ n.num \in Nat /\ e.num \in DOMAIN sent[KERNEL_ID]
      BY <1>1, <1>3, <2>1, <2>3 DEF Known, Messages
    <3>2. e.num <= Len(sent[KERNEL_ID]) /\ Len(sent[KERNEL_ID]) \in Nat
      BY <1>0, <3>1, KernelHasSent
    <3> QED
      BY <2>3, <3>1, <3>2
  <2> QED
    BY <1>1, <2>2, <2>3
<1>4. ASSUME NEW q \in Procs PROVE QueueInOrder(q)'
  <2>1. QueueInOrder(q)
    BY DEF UnderWay, OldestAreAhead
  <2>2. Ascend(received[q])' /\ AscendUnits(in[q])' /\ AscendUnits(aio[q])'
    BY <2>1 DEF QueueInOrder, Ascend, AscendUnits
  <2>3. Lower(OnWay(q), InHand(q)')
    BY <1>3 DEF Lower
  <2>4. /\ Lower(Got(q), Held(q))'
        /\ Lower(Got(q) \cup Held(q), Begun(in[q]))'
        /\ Lower(Got(q) \cup Held(q) \cup Begun(in[q]), Begun(aio[q]))'
    BY <1>2, <2>1 DEF QueueInOrder, Lower
  <2>5. Lower(Got(q) \cup Held(q) \cup Begun(in[q]) \cup Begun(aio[q]), InHand(q))'
    BY <1>2, <2>3 DEF Lower
  <2> QED
    BY <2>2, <2>4, <2>5 DEF QueueInOrder
<1>5. \A n \in NotYet' : n.from # KERNEL_ID
  <2>1. ASSUME NEW n \in NotYet' PROVE \E w \in Procs : n \in Before(w)
    <3>1. NotYet' = UNION {Before(w)' : w \in Procs}
      BY DEF NotYet
    <3> QED
      BY <2>1, <3>1
  <2> QED
    BY <1>0, <2>1 DEF AllWereSent
<1>6. ASSUME NEW q \in Procs PROVE Lower(OnWay(q), NotYet)'
  <2>1. Lower(OnWay(q), NotYet)
    BY DEF UnderWay, OldestAreAhead
  <2>2. Lower(InHand(q)', NotYet')
    BY <1>1, <1>5 DEF Lower
  <2>3. Lower(OnWay(q)', NotYet')
    BY <1>2, <2>1, <2>2 DEF Lower
  <2> QED
    BY <2>3 DEF Lower
<1>7. OldestAreAhead'
  <2>1. AscendCarried(kWriting)'
    BY <1>1 DEF AscendCarried
  <2> QED
    BY <1>4, <1>6, <2>1 DEF OldestAreAhead
<1>8. AllWereSent'
  <2>1. ASSUME NEW w \in Writers, NEW k \in DOMAIN sent'[w]
        PROVE  sent'[w][k].from = w /\ sent'[w][k].num = k
    <3>1. CASE w = KERNEL_ID
      BY <3>1 DEF Decides
    <3>2. CASE w \in Procs
      BY <1>0, <3>2 DEF Decides, AllWereSent
    <3> QED
      BY <3>1, <3>2, ConstantFacts
  <2>2. ASSUME NEW q \in Procs, NEW n \in OnWay(q)' PROVE Known(n)' /\ Routable(q, n)
    <3>1. CASE n \in OnWay(q)
      BY <1>0, <1>1, <3>1, PlacesType, KnownStays DEF AllWereSent
    <3>2. CASE n \in InHand(q)'
      BY <1>1, <3>2
    <3> QED
      BY <1>2, <3>1, <3>2
  <2>3. ASSUME NEW n \in NotYet' PROVE Known(n)'
    BY <1>0, <1>1, PlacesType, KnownStays, ConstantFacts DEF AllWereSent
  <2>4. ASSUME NEW w \in Procs
        PROVE  /\ \A n \in Before(w)' : n.from = w
               /\ \A n \in Begun(writing[w])' : n.num = Len(sent'[w])
    <3>1. sent'[w] = sent[w] /\ Begun(writing[w])' = Begun(writing[w])
      BY DEF Decides, Begun
    <3> QED
      BY <1>0, <3>1 DEF AllWereSent
  <2> QED
    BY <2>1, <2>2, <2>3, <2>4 DEF AllWereSent, Routable
<1>9. NoneIsLost'
  <2> SUFFICES ASSUME NEW q \in alive', NEW w \in Writers, NEW k \in DOMAIN sent'[w],
                      Routable(q, sent'[w][k]),
                      w \in alive' \cup {KERNEL_ID} \/ k < Len(sent'[w])
               PROVE  sent'[w][k] \in OnWay(q)' \cup NotYet'
    BY DEF NoneIsLost, Routable
  <2>0. q \in alive /\ q \in Procs
    BY <1>0
  <2>1. CASE k \in DOMAIN sent[w]
    <3>1. sent'[w][k] = sent[w][k]
      BY <1>1, <2>1 DEF SentGrows
    <3>2. w \in alive \cup {KERNEL_ID} \/ k < Len(sent[w])
      <4>1. CASE w = KERNEL_ID
        BY <4>1
      <4>2. CASE w \in Procs
        BY <4>2 DEF Decides
      <4> QED
        BY <4>1, <4>2, ConstantFacts
    <3>3. sent[w][k] \in OnWay(q) \cup {m} \cup NotYet'
      BY <2>0, <2>1, <3>1, <3>2 DEF UnderWay, NoneIsLost
    <3>4. sent[w][k] = m => m \in InHand(q)'
      BY <2>0, <3>1 DEF Decides
    <3> QED
      BY <1>2, <2>0, <3>1, <3>3, <3>4
  <2>2. CASE k \notin DOMAIN sent[w]
    <3>1. w = KERNEL_ID
      BY <2>2, ConstantFacts DEF Decides
    <3>2. sent'[w][k] \in InHand(q)'
      BY <2>0, <2>2, <3>1 DEF Decides
    <3> QED
      BY <1>2, <2>0, <3>2
  <2> QED
    BY <2>1, <2>2
<1> QED
  BY <1>7, <1>8, <1>9 DEF UnderWay

\* A header at the end of a child's pipe, when the kernel waits for nothing
LEMMA NextHeader ==
    ASSUME TypeOK, UnderWay, NEW p \in Procs, kReading = NoMsg, out[p] # <<>>,
           out' = [out EXCEPT ![p] = Tail(@)], UNCHANGED <<writing, alive>>,
           NEW m, m = Head(out[p]).msg
    PROVE  /\ m \in Messages /\ Known(m) /\ m.from = p /\ m \in NotYet
           /\ Pending(Head(out[p])) = IF m.len = 1 THEN m ELSE NoMsg
           /\ AtDoor = {}
           /\ Begun(out[p]) = {m} \cup Begun(out[p])'
           /\ Begun(writing[p])' = Begun(writing[p])
           /\ Lower({m}, Begun(out[p])') /\ Lower({m}, Begun(writing[p]))
           /\ AscendUnits(out[p])' /\ AscendUnits(writing[p])'
           /\ Lower(Begun(out[p])', Begun(writing[p])')
<1> DEFINE u == Head(out[p])
<1>1. /\ out[p] \in Seq(Units) /\ out'[p] = Tail(out[p]) /\ writing'[p] = writing[p]
      /\ AllWereSent /\ DoorInOrder(p) /\ ReadsWhole(p)
  BY DEF TypeOK, UnderWay, OldestAreAhead, KernelReadsWhole
<1>2. /\ AscendUnits(out[p]) /\ AscendUnits(writing[p])
      /\ Lower(Begun(out[p]), Begun(writing[p]))
  BY <1>1 DEF DoorInOrder
<1>3. /\ u \in Units /\ Begun(out[p]) = Starts(u) \cup Begun(out[p])'
      /\ Lower(Starts(u), Begun(out[p])') /\ AscendUnits(out[p])'
  BY <1>1, <1>2, BegunTail
<1>4. Fits(NoMsg, u)
  BY <1>1, FlowsTail DEF ReadsWhole, DueFrom
<1>5. m = u.msg
  OBVIOUS
<1> HIDE DEF u
<1>6. u.part = "header" /\ Starts(u) = {m} /\ m \in Messages
  BY <1>3, <1>4, <1>5 DEF Fits, Starts, Units
<1>7. Pending(u) = IF m.len = 1 THEN m ELSE NoMsg
  BY <1>5, <1>6 DEF Pending
<1>8. m \in Before(p) /\ AtDoor = {}
  BY <1>3, <1>6 DEF Before, AtDoor
<1>9. m.from = p /\ m \in NotYet /\ Known(m)
  <2>1. m \in NotYet
    BY <1>8 DEF NotYet
  <2> QED
    BY <1>1, <1>8, <2>1 DEF AllWereSent
<1>10. Begun(writing[p])' = Begun(writing[p]) /\ AscendUnits(writing[p])'
  BY <1>1, <1>2 DEF Begun, AscendUnits
<1>11. Lower({m}, Begun(writing[p])) /\ Lower(Begun(out[p])', Begun(writing[p])')
  BY <1>2, <1>3, <1>6, <1>10 DEF Lower
<1> QED
  BY <1>3, <1>6, <1>7, <1>8, <1>9, <1>10, <1>11 DEF u

LEMMA OthersAtDoor ==
    ASSUME TypeOK, UnderWay, NEW p \in Procs, NEW w \in Procs \ {p},
           out' = [out EXCEPT ![p] = Tail(@)], UNCHANGED <<writing, alive>>,
           \A m \in AtDoor' : m.from = p, DueFrom(w)' = DueFrom(w)
    PROVE  Before(w)' = Before(w) /\ DoorInOrder(w)' /\ ReadsWhole(w)'
<1>1. out'[w] = out[w] /\ writing'[w] = writing[w]
  BY DEF TypeOK
<1>2. Before(w)' = Before(w) /\ Begun(out[w])' = Begun(out[w])
      /\ Begun(writing[w])' = Begun(writing[w])
  BY <1>1, DoorSame
<1>3. ReadsWhole(w)'
  BY <1>1, ReadsWholeSame DEF UnderWay, KernelReadsWhole
<1>4. DoorInOrder(w)'
  <2>1. DoorInOrder(w)
    BY DEF UnderWay, OldestAreAhead
  <2>2. AscendUnits(out[w])' /\ AscendUnits(writing[w])'
    BY <1>1, <2>1 DEF DoorInOrder, AscendUnits
  <2>3. \A m \in Before(w) : m.from = w
    BY DEF UnderWay, AllWereSent
  <2>4. Lower(Begun(out[w]), Begun(writing[w]))' /\ Lower(AtDoor, Before(w))'
    BY <1>2, <2>1, <2>3 DEF DoorInOrder, Lower
  <2> QED
    BY <2>2, <2>4 DEF DoorInOrder
<1> QED
  BY <1>2, <1>3, <1>4

LEMMA ServeKeepsUnderWay ==
    ASSUME TypeOK, UnderWay, NEW p \in Procs, Serve(p)
    PROVE  UnderWay'
<1>0. PICK m : m = Head(out[p]).msg
  OBVIOUS
<1>1. /\ kReading = NoMsg /\ kWriting = <<>> /\ out[p] # <<>>
      /\ \/ m.len = 0 /\ Route(m) /\ UNCHANGED kReading
         \/ m.len # 0 /\ kReading' = m /\ UNCHANGED <<kWriting, sent>>
      /\ out' = [out EXCEPT ![p] = Tail(@)]
      /\ out'[p] = Tail(out[p])
      /\ UNCHANGED <<procMap, alive, writing, aio, in, reading, received>>
  BY <1>0 DEF Serve, TypeOK
<1>2. /\ m \in Messages /\ Known(m) /\ m.from = p /\ m \in NotYet
      /\ Pending(Head(out[p])) = IF m.len = 1 THEN m ELSE NoMsg
      /\ AtDoor = {}
      /\ Begun(out[p]) = {m} \cup Begun(out[p])'
      /\ Begun(writing[p])' = Begun(writing[p])
      /\ Lower({m}, Begun(out[p])') /\ Lower({m}, Begun(writing[p]))
      /\ AscendUnits(out[p])' /\ AscendUnits(writing[p])'
      /\ Lower(Begun(out[p])', Begun(writing[p])')
  BY <1>0, <1>1, NextHeader
<1>3. m.len \in {0, 1} /\ m # NoMsg
  BY <1>2, NoMsgIsNone DEF Messages
<1>4. Before(p) = {m} \cup Before(p)' /\ Lower({m}, Before(p)')
  BY <1>2 DEF Before, Lower
<1>5. ReadsWhole(p)
  BY DEF UnderWay, KernelReadsWhole
<1>6. CASE m.len = 0 /\ Route(m) /\ UNCHANGED kReading
  <2>1. AtDoor' = {} /\ DueFrom(p)' = NoMsg /\ \A w \in Procs : DueFrom(w)' = DueFrom(w)
    BY <1>1, <1>6 DEF AtDoor, DueFrom
  <2>2. ReadsWhole(p)'
    BY <1>1, <1>2, <1>5, <1>6, <2>1, TakenWhole
  <2>3. DoorInOrder(p)'
    BY <1>2, <2>1 DEF DoorInOrder, Lower
  <2>4. \A w \in Procs \ {p} : Before(w)' = Before(w) /\ DoorInOrder(w)' /\ ReadsWhole(w)'
    BY <1>1, <2>1, OthersAtDoor
  <2>5. NotYet = {m} \cup NotYet' /\ Lower({m}, NotYet')
    <3>1. ASSUME NEW n \in NotYet PROVE n \in {m} \cup NotYet'
      BY <1>2, <1>4, <2>4, <3>1 DEF NotYet
    <3>2. ASSUME NEW n \in NotYet' PROVE n \in NotYet /\ (n.from = m.from => m.num < n.num)
      <4>1. PICK w \in Procs : n \in Before(w)'
        BY <2>1, <3>2 DEF NotYet
      <4>2. CASE w = p
        BY <1>4, <4>1, <4>2 DEF NotYet, Lower
      <4>3. CASE w # p
        <5>1. n \in Before(w) /\ n.from = w
          BY <2>4, <4>1, <4>3 DEF UnderWay, AllWereSent
        <5> QED
          BY <1>2, <4>3, <5>1 DEF NotYet
      <4> QED
        BY <4>2, <4>3
    <3> QED
      BY <1>2, <3>1, <3>2 DEF Lower
  <2>6. Decides(m)
    BY <1>2, <1>6, RouteDecides
  <2>7. KernelReadsWhole'
    BY <2>2, <2>4 DEF KernelReadsWhole
  <2>8. \A w \in Procs : DoorInOrder(w)' /\ Before(w)' \subseteq Before(w)
    BY <1>4, <2>3, <2>4
  <2> QED
    BY <1>1, <1>2, <2>1, <2>5, <2>6, <2>7, <2>8, RoutedKeepsUnderWay
<1>7. CASE m.len # 0 /\ kReading' = m /\ UNCHANGED <<kWriting, sent>>
  <2>1. /\ AtDoor' = {m} /\ DueFrom(p)' = m
        /\ \A w \in Procs \ {p} : DueFrom(w)' = DueFrom(w)
    BY <1>1, <1>2, <1>3, <1>7 DEF AtDoor, DueFrom
  <2>2. ReadsWhole(p)'
    BY <1>1, <1>2, <1>3, <1>5, <1>7, <2>1, TakenWhole
  <2>3. DoorInOrder(p)'
    BY <1>2, <1>4, <2>1 DEF DoorInOrder, Lower
  <2>4. \A w \in Procs \ {p} : Before(w)' = Before(w) /\ DoorInOrder(w)' /\ ReadsWhole(w)'
    BY <1>1, <1>2, <2>1, OthersAtDoor
  <2>5. NotYet' = NotYet
    <3>1. ASSUME NEW n \in NotYet PROVE n \in NotYet'
      BY <1>2, <1>4, <2>1, <2>4, <3>1 DEF NotYet
    <3>2. ASSUME NEW n \in NotYet' PROVE n \in NotYet
      BY <1>2, <1>4, <2>1, <2>4, <3>2 DEF NotYet
    <3> QED
      BY <3>1, <3>2
  <2>6. \A w \in Procs : Begun(writing[w])' = Begun(writing[w])
    BY <1>1 DEF Begun
  <2>7. KernelReadsWhole'
    BY <2>2, <2>4 DEF KernelReadsWhole
  <2>8. \A w \in Procs : /\ DoorInOrder(w)' /\ Before(w)' \subseteq Before(w)
                         /\ Begun(writing[w])' \subseteq Begun(writing[w])
    BY <1>4, <2>3, <2>4, <2>6
  <2>9. \A n \in AtDoor' : n.from \in Procs
    BY <1>2, <2>1
  <2>10. UNCHANGED <<received, reading, in, aio, kWriting, sent, alive, procMap>>
    BY <1>1, <1>7
  <2> QED
    BY <2>5, <2>7, <2>8, <2>9, <2>10, DoorKeeps
<1> QED
  BY <1>1, <1>6, <1>7

LEMMA PayloadKeepsUnderWay ==
    ASSUME IInv, UnderWay, ReadPayload
    PROVE  UnderWay'
<1>0. PICK m, p : m = kReading /\ p = m.from
  OBVIOUS
<1>1. /\ TypeOK /\ m = kReading /\ m \in Messages /\ m # NoMsg /\ kWriting = <<>>
      /\ out[p] # <<>> /\ Route(m) /\ out' = [out EXCEPT ![p] = Tail(@)]
      /\ kReading' = NoMsg
      /\ UNCHANGED <<procMap, alive, writing, aio, in, reading, received>>
  BY <1>0 DEF ReadPayload, IInv, TypeOK, ReadsThenWrites
<1>2. /\ AtDoor = {m} /\ AtDoor' = {} /\ m \in NotYet
      /\ \A w \in Procs : DueFrom(w)' = NoMsg
  BY <1>1 DEF AtDoor, NotYet, DueFrom
<1>3. Known(m) /\ p \in Procs
  BY <1>0, <1>2 DEF UnderWay, AllWereSent
<1>4. \A w \in Procs \ {p} : DueFrom(w)' = DueFrom(w)
  BY <1>0, <1>1, <1>2 DEF DueFrom
<1>5. /\ out[p] \in Seq(Units) /\ out'[p] = Tail(out[p])
      /\ DoorInOrder(p) /\ ReadsWhole(p)
  BY <1>1, <1>3 DEF TypeOK, UnderWay, OldestAreAhead, KernelReadsWhole
<1>6. Fits(m, Head(out[p]))
  <2>1. DueFrom(p) = m
    BY <1>0, <1>1 DEF DueFrom
  <2> QED
    BY <1>1, <1>5, <2>1, FlowsTail DEF ReadsWhole
<1>7. Head(out[p]) = Payload(m) /\ Pending(Head(out[p])) = NoMsg /\ Starts(Head(out[p])) = {}
  <2>1. Head(out[p]) = Payload(m)
    BY <1>1, <1>6 DEF Fits
  <2> QED
    BY <1>1, <2>1, PendingAfter DEF Starts, Payload
<1>8. /\ Begun(out[p]) = Begun(out[p])' /\ AscendUnits(out[p])'
      /\ Begun(writing[p])' = Begun(writing[p]) /\ AscendUnits(writing[p])'
  <2>1. AscendUnits(out[p]) /\ AscendUnits(writing[p])
    BY <1>5 DEF DoorInOrder
  <2>2. Begun(out[p]) = Begun(out[p])' /\ AscendUnits(out[p])'
    BY <1>1, <1>5, <1>7, <2>1, BegunTail
  <2> QED
    BY <1>1, <2>1, <2>2 DEF Begun, AscendUnits
<1>9. Before(p)' = Before(p)
  BY <1>8 DEF Before
<1>10. DoorInOrder(p)'
  BY <1>2, <1>5, <1>8 DEF DoorInOrder, Lower
<1>11. ReadsWhole(p)'
  BY <1>1, <1>2, <1>3, <1>5, <1>7, TakenWhole
<1>12. \A w \in Procs \ {p} : Before(w)' = Before(w) /\ DoorInOrder(w)' /\ ReadsWhole(w)'
  BY <1>1, <1>2, <1>3, <1>4, OthersAtDoor
<1>13. NotYet = {m} \cup NotYet' /\ Lower({m}, NotYet')
  <2>1. ASSUME NEW n \in NotYet PROVE n \in {m} \cup NotYet'
    BY <1>2, <1>9, <1>12, <2>1 DEF NotYet
  <2>2. ASSUME NEW n \in NotYet' PROVE n \in NotYet /\ (n.from = m.from => m.num < n.num)
    <3>1. PICK w \in Procs : n \in Before(w)'
      BY <1>2, <2>2 DEF NotYet
    <3>2. n \in Before(w)
      BY <1>9, <1>12, <3>1
    <3>3. Lower(AtDoor, Before(w))
      BY DEF UnderWay, OldestAreAhead, DoorInOrder
    <3> QED
      BY <1>2, <3>2, <3>3 DEF NotYet, Lower
  <2> QED
    BY <1>2, <2>1, <2>2 DEF Lower
<1>14. Decides(m)
  BY <1>1, <1>3, RouteDecides
<1>15. KernelReadsWhole' /\ \A w \in Procs : DoorInOrder(w)' /\ Before(w)' \subseteq Before(w)
  BY <1>9, <1>10, <1>11, <1>12 DEF KernelReadsWhole
<1> QED
  BY <1>1, <1>2, <1>3, <1>13, <1>14, <1>15, RoutedKeepsUnderWay

\* What p has received from w is a part of what w has sent, in the same order,
\* and without a gap.
DeliveredTo(p) ==
    \A w \in Writers :
        /\ \A i \in GotFrom(p, w) :
              LET m == received[p][i] IN
              m.num \in DOMAIN sent[w] /\ sent[w][m.num] = m /\ Routable(p, m)
        /\ \A i, j \in GotFrom(p, w) : i < j => received[p][i].num < received[p][j].num
        /\ \A i \in GotFrom(p, w), k \in DOMAIN sent[w] :
              k < received[p][i].num /\ Routable(p, sent[w][k]) =>
                  \E j \in GotFrom(p, w) : received[p][j] = sent[w][k]

LEMMA UnderWayDelivers ==
    ASSUME TypeOK, UnderWay, NEW p \in alive
    PROVE  DeliveredTo(p)
<1>1. p \in Procs /\ received[p] \in Seq(Messages) /\ AllWereSent /\ NoneIsLost
      /\ QueueInOrder(p) /\ Lower(OnWay(p), NotYet)
  BY DEF TypeOK, UnderWay, OldestAreAhead
<1>2. \A i \in DOMAIN received[p] : /\ i \in Int /\ received[p][i] \in Got(p)
                                    /\ received[p][i] \in Messages
  BY <1>1 DEF Got
<1>3. Got(p) \subseteq OnWay(p)
  BY DEF OnWay
<1>4. Lower(Got(p), NotYet \cup (OnWay(p) \ Got(p)))
  BY <1>1, <1>3 DEF QueueInOrder, Lower, OnWay
<1>5. ASSUME NEW w \in Writers, NEW i \in GotFrom(p, w)
      PROVE  /\ i \in DOMAIN received[p] /\ received[p][i].from = w
             /\ received[p][i].num \in DOMAIN sent[w]
             /\ sent[w][received[p][i].num] = received[p][i]
             /\ Routable(p, received[p][i])
  BY <1>1, <1>2, <1>3 DEF GotFrom, AllWereSent, Known
<1>6. ASSUME NEW w \in Writers, NEW i \in GotFrom(p, w), NEW j \in GotFrom(p, w), i < j
      PROVE  received[p][i].num < received[p][j].num
  <2>1. Ascend(received[p])
    BY <1>1 DEF QueueInOrder
  <2> QED
    BY <1>5, <1>6, <2>1 DEF Ascend
<1>7. ASSUME NEW w \in Writers, NEW i \in GotFrom(p, w), NEW k \in DOMAIN sent[w],
             k < received[p][i].num, Routable(p, sent[w][k])
      PROVE  \E j \in GotFrom(p, w) : received[p][j] = sent[w][k]
  <2>1. sent[w] \in Seq(Messages) /\ Len(sent[w]) \in Nat /\ DOMAIN sent[w] = 1..Len(sent[w])
    BY DEF TypeOK
  <2>2. k < Len(sent[w])
    <3>1. received[p][i].num \in 1..Len(sent[w])
      BY <1>5, <2>1
    <3> QED
      BY <1>7, <2>1, <3>1
  <2>3. sent[w][k] \in OnWay(p) \cup NotYet
    BY <1>1, <1>7, <2>2 DEF NoneIsLost
  <2>4. sent[w][k].from = w /\ sent[w][k].num = k
    BY <1>1 DEF AllWereSent
  <2>5. sent[w][k] \in Got(p)
    <3> SUFFICES ASSUME sent[w][k] \notin Got(p)
                 PROVE  FALSE
      OBVIOUS
    <3>1. received[p][i].num < sent[w][k].num
      BY <1>2, <1>4, <1>5, <2>3, <2>4 DEF Lower
    <3>2. received[p][i].num \in Nat /\ k \in Nat
      BY <1>5, <2>1
    <3> QED
      BY <1>7, <2>4, <3>1, <3>2
  <2>6. PICK j \in DOMAIN received[p] : received[p][j] = sent[w][k]
    BY <2>5 DEF Got
  <2> QED
    BY <2>4, <2>6 DEF GotFrom
<1> QED
  BY <1>5, <1>6, <1>7 DEF DeliveredTo

AllDelivered == \A p \in alive : DeliveredTo(p)

LEMMA UnderWayDeliversAll == TypeOK /\ UnderWay => AllDelivered
BY UnderWayDelivers DEF AllDelivered

\* A child that has crashed keeps what it had received.
LEMMA StaysDelivered ==
    ASSUME TypeOK, TypeOK', NEW p \in Procs, DeliveredTo(p), received'[p] = received[p], SentGrows
    PROVE  DeliveredTo(p)'
<1>1. \A w \in Writers : GotFrom(p, w)' = GotFrom(p, w)
  BY DEF GotFrom
<1>2. ASSUME NEW w \in Writers, NEW i \in GotFrom(p, w)
      PROVE  /\ received[p][i].num \in DOMAIN sent'[w]
             /\ sent'[w][received[p][i].num] = received[p][i]
             /\ Routable(p, received[p][i])
             /\ received[p][i].num \in DOMAIN sent[w]
  BY DEF DeliveredTo, SentGrows
<1>3. ASSUME NEW w \in Writers, NEW i \in GotFrom(p, w), NEW k \in DOMAIN sent'[w],
             k < received[p][i].num, Routable(p, sent'[w][k])
      PROVE  \E j \in GotFrom(p, w) : received[p][j] = sent'[w][k]
  <2>1. sent[w] \in Seq(Messages) /\ Len(sent[w]) \in Nat /\ DOMAIN sent[w] = 1..Len(sent[w])
    BY DEF TypeOK
  <2>2. k \in DOMAIN sent[w]
    <3>1. received[p][i].num \in 1..Len(sent[w])
      BY <1>2, <2>1
    <3>2. k \in Nat \ {0}
      <4>1. sent'[w] \in Seq(Messages)
        BY DEF TypeOK
      <4> QED
        BY <1>3, <4>1
    <3> QED
      BY <1>3, <2>1, <3>1, <3>2
  <2>3. sent'[w][k] = sent[w][k]
    BY <2>2 DEF SentGrows
  <2> QED
    BY <1>3, <2>2, <2>3 DEF DeliveredTo
<1>4. \A w \in Writers : \A i, j \in GotFrom(p, w) :
         i < j => received[p][i].num < received[p][j].num
  BY DEF DeliveredTo
<1> QED
  BY <1>1, <1>2, <1>3, <1>4 DEF DeliveredTo, Routable

LEMMA OrderInit == Init => WayInv
<1> SUFFICES ASSUME Init
             PROVE  WayInv
  OBVIOUS
<1>1. /\ alive = Procs /\ procMap = Procs /\ kReading = NoMsg /\ kWriting = <<>>
      /\ \A p \in Procs : /\ writing[p] = <<>> /\ out[p] = <<>> /\ in[p] = <<>>
                          /\ aio[p] = <<>> /\ reading[p] = NoMsg /\ received[p] = <<>>
      /\ \A w \in Writers : sent[w] = <<>>
  BY DEF Init
<1>2. Begun(<<>>) = {} /\ AscendUnits(<<>>) /\ Ascend(<<>>)
  BY DEF Begun, AscendUnits, Ascend
<1>3. \A p \in Procs : /\ Got(p) = {} /\ Held(p) = {} /\ InHand(p) = {} /\ Before(p) = {}
                       /\ Begun(in[p]) = {} /\ Begun(aio[p]) = {}
                       /\ Begun(out[p]) = {} /\ Begun(writing[p]) = {}
  <2>1. ASSUME NEW p \in Procs
        PROVE  /\ Begun(in[p]) = {} /\ Begun(aio[p]) = {}
               /\ Begun(out[p]) = {} /\ Begun(writing[p]) = {}
    BY <1>1, <1>2
  <2>2. ASSUME NEW p \in Procs PROVE Got(p) = {} /\ Held(p) = {}
    BY <1>1 DEF Got, Held
  <2>3. ASSUME NEW p \in Procs PROVE InHand(p) = {}
    BY <1>1, NothingIsCarried DEF InHand
  <2>4. ASSUME NEW p \in Procs PROVE Before(p) = {}
    BY <2>1 DEF Before
  <2> QED
    BY <2>1, <2>2, <2>3, <2>4
<1>4. AtDoor = {}
  BY <1>1 DEF AtDoor
<1>5. NotYet = {} /\ \A p \in Procs : OnWay(p) = {}
  BY <1>3, <1>4 DEF NotYet, OnWay
<1>6. \A S : Lower(S, {}) /\ Lower({}, S)
  BY DEF Lower
<1>7. OldestAreAhead
  <2>1. \A p \in Procs : QueueInOrder(p)
    BY <1>1, <1>2, <1>3, <1>6 DEF QueueInOrder
  <2>2. \A w \in Procs : DoorInOrder(w)
    BY <1>1, <1>2, <1>3, <1>4, <1>6 DEF DoorInOrder
  <2> QED
    BY <1>1, <1>5, <1>6, <2>1, <2>2, NothingIsCarried DEF OldestAreAhead
<1>8. AllWereSent
  BY <1>1, <1>3, <1>4, <1>5 DEF AllWereSent
<1>9. NoneIsLost
  BY <1>1 DEF NoneIsLost
<1>10. KernelReadsWhole
  <2>1. \A m : Flows(m, <<>>) /\ DueAfter(m, <<>>, Len(<<>>)) = m
    BY DEF Flows, DueAfter
  <2>2. \A w \in Procs : DueFrom(w) = NoMsg
    BY <1>1 DEF DueFrom
  <2> QED
    BY <1>1, <2>1, <2>2 DEF KernelReadsWhole, ReadsWhole, DueAfterOut
<1>11. DeliveredInOrder
  BY <1>1 DEF DeliveredInOrder, GotFrom
<1> QED
  BY <1>1, <1>7, <1>8, <1>9, <1>10, <1>11 DEF WayInv, UnderWay

\* A step that moves nothing
LEMMA IdleKeepsUnderWay ==
    ASSUME TypeOK, UnderWay,
           UNCHANGED <<sent, writing, out, kReading, kWriting, aio, in, reading, received, alive>>,
           alive \subseteq procMap'
    PROVE  UnderWay'
<1>1. \A q \in Procs : QueueInOrder(q)' /\ OnWay(q)' = OnWay(q)
  <2>1. \A q \in Procs : InHand(q)' = InHand(q)
    BY DEF InHand
  <2> QED
    BY <2>1, QueueSame DEF UnderWay, OldestAreAhead
<1>2. AscendCarried(kWriting)'
  BY DEF UnderWay, OldestAreAhead, AscendCarried
<1>3. alive \subseteq Procs
  BY DEF TypeOK
<1>4. OldestAreAhead' /\ AllWereSent' /\ NoneIsLost'
  BY <1>1, <1>2, <1>3, MovesKeepOrder, MovesKeepSent, MovesLoseNothing, DoorsSame DEF UnderWay
<1>5. KernelReadsWhole'
  BY ReadsWholeSame DEF UnderWay, KernelReadsWhole, DueFrom
<1> QED
  BY <1>4, <1>5 DEF UnderWay

\* What a step does to the histories: nobody takes back what it has sent, and
\* only those that run receive.
LEMMA HistoriesGrow ==
    ASSUME TypeOK, UnderWay, [Next]_vars
    PROVE  /\ SentGrows
           /\ \A p \in Procs \ alive : received'[p] = received[p] /\ p \notin alive'
           /\ \A p \in Procs : received'[p] = received[p] \/ p \in alive'
<1>0. \A w \in Writers : Len(sent[w]) \in Nat
  BY DEF TypeOK
<1>1. sent' = sent => SentGrows
  BY <1>0 DEF SentGrows
<1>2. ASSUME NEW p \in Procs, Send(p)
      PROVE  SentGrows /\ UNCHANGED <<received, alive>>
  <2>1. PICK m \in Messages : sent' = [sent EXCEPT ![p] = Append(@, m)]
    BY <1>2, SendBegins
  <2> QED
    BY <1>2, <2>1, SendGrows DEF Send
<1>3. ASSUME NEW p \in Procs, WriteUnit(p) \/ AioCompletes(p) \/ Sigchld(p)
      PROVE  UNCHANGED <<sent, received, alive>>
  BY <1>3 DEF WriteUnit, AioCompletes, Sigchld, child
<1>4. ASSUME ReadsTooLittle \/ KernelWrites \/ UNCHANGED vars
      PROVE  UNCHANGED <<sent, received, alive>>
  BY <1>4 DEF ReadsTooLittle, KernelWrites, vars, child
<1>5. ASSUME NEW p \in Procs, Crash(p)
      PROVE  UNCHANGED <<sent, received>> /\ alive' \subseteq alive
  BY <1>5 DEF Crash
<1>6. ASSUME NEW p \in Procs, Serve(p)
      PROVE  SentGrows /\ UNCHANGED <<received, alive>>
  <2>0. PICK m : m = Head(out[p]).msg
    OBVIOUS
  <2>1. /\ kReading = NoMsg /\ out[p] # <<>> /\ out' = [out EXCEPT ![p] = Tail(@)]
        /\ UNCHANGED <<writing, alive, received>>
        /\ Route(m) \/ UNCHANGED sent
    BY <1>6, <2>0 DEF Serve
  <2>2. m \in Messages /\ Known(m)
    BY <2>0, <2>1, NextHeader
  <2>3. Route(m) => SentGrows
    BY <2>2, RouteDecides DEF Decides
  <2> QED
    BY <1>1, <2>1, <2>3
<1>7. ASSUME ReadPayload
      PROVE  SentGrows /\ UNCHANGED <<received, alive>>
  <2>1. kReading \in Messages /\ Route(kReading) /\ UNCHANGED <<received, alive>>
        /\ kReading \in AtDoor
    BY <1>7 DEF ReadPayload, TypeOK, AtDoor
  <2>2. Known(kReading)
    BY <2>1 DEF UnderWay, AllWereSent, NotYet
  <2> QED
    BY <2>1, <2>2, RouteDecides DEF Decides
<1>8. ASSUME NEW p \in Procs, ReadUnit(p)
      PROVE  /\ UNCHANGED <<sent, alive>> /\ p \in alive
             /\ \A q \in Procs \ {p} : received'[q] = received[q]
  <2>1. PICK u : Understands(p, u) \/ Misreads(p, u)
    BY <1>8 DEF ReadUnit
  <2>2. received' = received \/ \E m : received' = [received EXCEPT ![p] = m]
    BY <2>1 DEF Understands, Misreads
  <2>3. received \in [Procs -> Seq(Messages)]
    BY DEF TypeOK
  <2> QED
    BY <1>8, <2>2, <2>3 DEF ReadUnit
<1>9. /\ SentGrows
      /\ \A p \in Procs : received'[p] = received[p] \/ (p \in alive /\ p \in alive')
      /\ alive' \subseteq alive
  <2>1. CASE \E p \in Procs : Send(p) \/ Serve(p)
    BY <1>2, <1>6, <2>1
  <2>2. CASE \E p \in Procs : WriteUnit(p) \/ AioCompletes(p) \/ Sigchld(p) \/ Crash(p)
    BY <1>1, <1>3, <1>5, <2>2
  <2>3. CASE ReadsTooLittle \/ KernelWrites \/ ReadPayload \/ UNCHANGED vars
    BY <1>1, <1>4, <1>7, <2>3
  <2>4. CASE \E p \in Procs : ReadUnit(p)
    BY <1>1, <1>8, <2>4
  <2> QED
    BY <2>1, <2>2, <2>3, <2>4 DEF Next
<1> QED
  BY <1>9

LEMMA UnderWayNext ==
    ASSUME ~AioRefuses, IInv, UnderWay, [Next]_vars
    PROVE  UnderWay'
<1>0. TypeOK
  BY DEF IInv
<1>1. ASSUME NEW p \in Procs, Send(p) \/ WriteUnit(p) \/ ReadUnit(p) \/ Crash(p) \/ Serve(p)
      PROVE  UnderWay'
  BY <1>0, <1>1, SendKeepsUnderWay, WriteKeepsUnderWay, ReadKeepsUnderWay, CrashKeepsUnderWay,
     ServeKeepsUnderWay
<1>2. CASE ReadPayload
  BY <1>2, PayloadKeepsUnderWay
<1>3. CASE ReadsTooLittle
  <2>1. alive \subseteq procMap
    BY DEF UnderWay
  <2> QED
    BY <1>0, <1>3, <2>1, IdleKeepsUnderWay DEF ReadsTooLittle, child
<1>4. CASE KernelWrites
  BY <1>0, <1>4, HandlerKeepsUnderWay
<1>5. ASSUME NEW p \in Procs, AioCompletes(p)
      PROVE  UnderWay'
  BY <1>0, <1>5, AioKeepsUnderWay
<1>6. ASSUME NEW p \in Procs, Sigchld(p)
      PROVE  UnderWay'
  <2>1. alive \subseteq procMap /\ p \notin alive /\ procMap' = procMap \ {p}
    BY <1>6 DEF UnderWay, Sigchld
  <2>2. alive \subseteq procMap'
    BY <2>1
  <2> QED
    BY <1>0, <1>6, <2>2, IdleKeepsUnderWay DEF Sigchld, child
<1>7. CASE UNCHANGED vars
  <2>1. alive \subseteq procMap' /\ UNCHANGED <<procMap, alive>>
    BY <1>7 DEF UnderWay, vars
  <2> QED
    BY <1>0, <1>7, <2>1, IdleKeepsUnderWay DEF vars, child
<1> QED
  BY <1>1, <1>2, <1>3, <1>4, <1>5, <1>6, <1>7 DEF Next

\* Both invariants hold at all times.
LEMMA WayInvariance ==
    ASSUME ~AioRefuses
    PROVE  Spec => [](IInv /\ WayInv)
<1>1. Init => IInv /\ WayInv
  BY WholeInit, OrderInit
<1>2. IInv /\ WayInv /\ [Next]_vars => IInv' /\ WayInv'
  <2> SUFFICES ASSUME IInv, WayInv, [Next]_vars
               PROVE  IInv' /\ WayInv'
    OBVIOUS
  <2>1. IInv' /\ TypeOK /\ TypeOK'
    BY WholeNext DEF IInv
  <2>2. UnderWay /\ DeliveredInOrder
    BY DEF WayInv
  <2>3. UnderWay'
    BY <2>2, UnderWayNext
  <2>4. \A p \in Procs : DeliveredTo(p)
    BY <2>2 DEF DeliveredInOrder, DeliveredTo
  <2>5. ASSUME NEW p \in Procs PROVE DeliveredTo(p)'
    <3>1. CASE received'[p] = received[p]
      BY <2>1, <2>2, <2>4, <3>1, HistoriesGrow, StaysDelivered
    <3>2. CASE p \in alive'
      <4>1. AllDelivered'
        BY <2>1, <2>3, UnderWayDeliversAll, PTL
      <4> QED
        BY <3>2, <4>1 DEF AllDelivered
    <3> QED
      BY <2>1, <2>2, <3>1, <3>2, HistoriesGrow
  <2>6. DeliveredInOrder'
    BY <2>5 DEF DeliveredInOrder, DeliveredTo
  <2> QED
    BY <2>1, <2>3, <2>6 DEF WayInv
<1> QED
  BY <1>1, <1>2, PTL DEF Spec

\* Whatever a child has read from another, or from the kernel, is what was written
\* to it and may pass, in the order it was written and without a gap, however
\* many pipes it has to go through, and whoever crashes (DeliveredInOrder), as long
\* as aio_write takes every write.
THEOREM MessagesArriveInOrder ==
    ASSUME ~AioRefuses
    PROVE  Spec => []DeliveredInOrder
<1>1. WayInv => DeliveredInOrder
  BY DEF WayInv
<1> QED
  BY <1>1, WayInvariance, PTL

-----------------------------------------------------------------------------
\* Nothing is stuck

LEMMA NatMinimum ==
    ASSUME NEW S \in SUBSET Nat, S # {}
    PROVE  \E x \in S : \A y \in S : x <= y
<1>1. IsWellFoundedOn(OpToRel(<, Nat), Nat)
  BY NatLessThanWellFounded, Zenon
<1>2. PICK x \in S : \A y \in S : ~ (<<y, x>> \in OpToRel(<, Nat))
  BY <1>1, WFMin, Zenon
<1>3. \A y \in S : ~ (y < x)
  BY <1>2 DEF OpToRel
<1> QED
  BY <1>3

\* The kernel is where it can serve the next process, and no child that runs has
\* anything left to write or to read.
LEMMA NobodyIsBusy ==
    ASSUME IInv, UnderWay, kernel = "up", \E app \in procMap : app >= WEBAPP_FIRST_ID,
           ~CanStep
    PROVE  /\ kReading = NoMsg /\ kWriting = <<>>
           /\ \A p \in alive : /\ out[p] = <<>> /\ writing[p] = <<>> /\ in[p] = <<>>
                               /\ aio[p] = <<>>
<1>1. /\ TypeOK /\ alive \subseteq procMap /\ procMap = alive /\ kWriting = <<>>
      /\ KernelReadsWhole
  BY DEF IInv, UnderWay, CanStep
<1>2. \A m : CanRoute(m)
  BY DEF CanRoute
<1>3. /\ alive \subseteq Procs /\ \A p \in Procs : out[p] \in Seq(Units) /\ in[p] \in Seq(Units)
      /\ \A p \in Procs : writing[p] \in Seq(Units)
  BY <1>1 DEF TypeOK
<1>4. HasRoom(<<>>)
  BY RouterAssumption DEF HasRoom
<1>5. kReading = NoMsg
  <2> SUFFICES ASSUME kReading # NoMsg PROVE FALSE
    OBVIOUS
  <2> DEFINE w == kReading.from
  <2>1. w \in Procs
    BY DEF UnderWay, AllWereSent, AtDoor
  <2>2. out[w] = <<>> /\ w \in alive
    BY <1>2 DEF CanStep, KernelCanRead
  <2>3. DueAfterOut(w) = kReading
    BY <2>2 DEF DueAfterOut, DueAfter, DueFrom
  <2>4. DueAfter(kReading, writing[w], Len(writing[w])) = NoMsg
    BY <1>1, <2>1, <2>2, <2>3 DEF KernelReadsWhole, ReadsWhole
  <2>5. writing[w] # <<>>
    BY <2>4 DEF DueAfter
  <2>6. ChildCanStep(w)
    BY <1>4, <2>2, <2>5 DEF ChildCanStep
  <2> QED
    BY <2>2, <2>6 DEF CanStep
<1>6. ASSUME NEW p \in alive PROVE out[p] = <<>>
  <2> SUFFICES ASSUME out[p] # <<>> PROVE FALSE
    OBVIOUS
  <2> DEFINE R == {q \in procMap : Ready(q)}
  <2>1. R \in SUBSET Nat /\ p \in R
    BY <1>1, <1>3, ConstantFacts DEF Ready
  <2>2. PICK q \in R : \A r \in R : q <= r
    <3> HIDE DEF R
    <3> QED
      BY <2>1, NatMinimum
  <2>3. q \in procMap /\ Ready(q) /\ \A r \in procMap : Ready(r) => q <= r
    BY <2>2
  <2>4. out[q] # <<>>
    BY <1>1, <2>3 DEF Ready
  <2>5. KernelCanServe
    BY <1>1, <1>2, <1>5, <2>3, <2>4 DEF KernelCanServe
  <2> QED
    BY <2>5 DEF CanStep
<1>7. ASSUME NEW p \in alive PROVE writing[p] = <<>>
  BY <1>4, <1>6 DEF CanStep, ChildCanStep
<1>8. ASSUME NEW p \in alive PROVE in[p] = <<>>
  BY <1>7 DEF CanStep, ChildCanStep
<1>9. ASSUME NEW p \in alive PROVE aio[p] = <<>>
  BY <1>3, <1>4, <1>8 DEF CanStep, AioCanComplete
<1> QED
  BY <1>1, <1>5, <1>6, <1>7, <1>8, <1>9

LEMMA NothingIsUnderWay ==
    ASSUME IInv, UnderWay, kReading = NoMsg, kWriting = <<>>, NEW p \in alive,
           out[p] = <<>>, writing[p] = <<>>, in[p] = <<>>, aio[p] = <<>>
    PROVE  /\ OnWay(p) = Got(p)
           /\ \A m \in NotYet : m.from \in Procs \ {p}
<1>1. Begun(<<>>) = {} /\ Carried(<<>>, p) = {}
  BY DEF Begun, Carried
<1>2. reading[p] = NoMsg
  <2>1. DueAfterAio(p) = NoMsg
    BY DEF IInv, HandlerContinues
  <2>2. DueAfterAio(p) = reading[p]
    BY DEF DueAfterAio, DueAfterPipe, DueAfter
  <2> QED
    BY <2>1, <2>2
<1>3. Held(p) = {} /\ InHand(p) = {} /\ Begun(in[p]) = {} /\ Begun(aio[p]) = {}
  BY <1>1, <1>2 DEF Held, InHand
<1>4. OnWay(p) = Got(p)
  BY <1>3 DEF OnWay
<1>5. ASSUME NEW m \in NotYet PROVE m.from \in Procs \ {p}
  <2>1. PICK v \in Procs : m \in Before(v)
    BY <1>5 DEF NotYet, AtDoor
  <2>2. m.from = v
    BY <2>1 DEF UnderWay, AllWereSent
  <2>3. Before(p) = {}
    BY <1>1 DEF Before
  <2> QED
    BY <2>1, <2>2, <2>3
<1> QED
  BY <1>4, <1>5

\* As long as there is a web app and aio_write takes every write, a state in which
\* no process and no asynchronous write can go on is one in which everything has
\* arrived: nobody ever waits for room in a pipe whose reader waits for him, and no
\* message lies where nobody looks for it (select, AIOHelper::write, readMessage).
THEOREM PipesNeverLock ==
    ASSUME ~AioRefuses
    PROVE  Spec => []NothingIsStuck
<1>1. IInv /\ WayInv => NothingIsStuck
  <2> SUFFICES ASSUME IInv, UnderWay, kernel = "up",
                      \E app \in procMap : app >= WEBAPP_FIRST_ID, ~CanStep,
                      NEW p \in alive, NEW w \in alive \cup {KERNEL_ID},
                      NEW k \in DOMAIN sent[w], Routable(p, sent[w][k])
               PROVE  \E i \in DOMAIN received[p] : received[p][i] = sent[w][k]
    BY DEF NothingIsStuck, WayInv
  <2>1. /\ kReading = NoMsg /\ kWriting = <<>>
        /\ \A q \in alive : /\ out[q] = <<>> /\ writing[q] = <<>> /\ in[q] = <<>>
                            /\ aio[q] = <<>>
    BY NobodyIsBusy
  <2>2. w \in Writers
    BY ConstantFacts DEF IInv, TypeOK
  <2>3. sent[w][k] \in OnWay(p) \cup NotYet
    BY <2>2 DEF UnderWay, NoneIsLost
  <2>4. sent[w][k].from = w
    BY <2>2 DEF UnderWay, AllWereSent
  <2>5. sent[w][k] \notin NotYet
    <3>1. CASE w \in alive
      BY <2>1, <2>4, <3>1, NothingIsUnderWay
    <3>2. CASE w = KERNEL_ID
      BY <2>1, <2>4, <3>2, NothingIsUnderWay, ConstantFacts
    <3> QED
      BY <3>1, <3>2
  <2>6. sent[w][k] \in Got(p)
    BY <2>1, <2>3, <2>5, NothingIsUnderWay
  <2> QED
    BY <2>6 DEF Got
<1> QED
  BY <1>1, WayInvariance, PTL
=============================================================================
