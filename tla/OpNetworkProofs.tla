-------------------------- MODULE OpNetworkProofs --------------------------
(***************************************************************************)
(* The assertion of OpNetwork::cookiesForUrl, for any number of nested     *)
(* waits and messages: m_waitForReply is up exactly while somebody waits.  *)
(* And the way of the messages: none is lost or handled twice, the UI's    *)
(* commands keep their order, no data of a page is handled while a script  *)
(* waits, and nothing is left behind when there is nothing more to do.     *)
(***************************************************************************)
EXTENDS OpNetwork, FiniteSetTheorems, TLAPS

-----------------------------------------------------------------------------
\* The call stack

\* A call puts its frame on top and moves the others down by one.
LEMMA PushFacts ==
    ASSUME NEW S, NEW s \in Seq(S), NEW f \in S
    PROVE  LET t == <<f>> \o s IN
           /\ t \in Seq(S)
           /\ Len(t) = Len(s) + 1 /\ Len(s) \in Nat
           /\ DOMAIN t = 1..(Len(s) + 1) /\ DOMAIN s = 1..Len(s)
           /\ t[1] = f
           /\ \A i \in 1..Len(s) : t[i + 1] = s[i]
           /\ \A i \in 2..(Len(s) + 1) : t[i] = s[i - 1]
<1> DEFINE t == <<f>> \o s
<1>1. /\ t \in Seq(S)
      /\ Len(t) = Len(s) + 1 /\ Len(s) \in Nat
      /\ \A i \in 1..(Len(s) + 1) : t[i] = IF i <= 1 THEN <<f>>[i] ELSE s[i - 1]
  OBVIOUS
<1>2. <<f>>[1] = f
  OBVIOUS
<1> HIDE DEF t
<1>3. DOMAIN t = 1..(Len(s) + 1) /\ DOMAIN s = 1..Len(s)
  BY <1>1
<1>4. t[1] = f /\ \A i \in 2..(Len(s) + 1) : t[i] = s[i - 1]
  BY <1>1, <1>2
<1>5. \A i \in 1..Len(s) : t[i + 1] = s[i]
  BY <1>1
<1> QED
  BY <1>1, <1>3, <1>4, <1>5 DEF t

\* Calling a handler, a script or `activated' changes nobody's wait.
LEMMA PushOther ==
    ASSUME NEW s \in Seq(Frames), NEW f \in Frames, f.at # "wait", NewestOnTop(s)
    PROVE  /\ <<f>> \o s \in Seq(Frames)
           /\ WaitReqsOf(<<f>> \o s) = WaitReqsOf(s)
           /\ NewestOnTop(<<f>> \o s)
<1> DEFINE t == <<f>> \o s
<1>1. /\ t \in Seq(Frames)
      /\ Len(s) \in Nat
      /\ DOMAIN t = 1..(Len(s) + 1) /\ DOMAIN s = 1..Len(s)
      /\ t[1] = f
      /\ \A i \in 1..Len(s) : t[i + 1] = s[i]
      /\ \A i \in 2..(Len(s) + 1) : t[i] = s[i - 1]
  BY PushFacts
<1> HIDE DEF t
<1>2. \A i \in WaitsOf(t) : i - 1 \in WaitsOf(s) /\ t[i] = s[i - 1]
  BY <1>1 DEF WaitsOf
<1>3. \A i \in WaitsOf(s) : i + 1 \in WaitsOf(t) /\ t[i + 1] = s[i]
  BY <1>1 DEF WaitsOf
<1>4. WaitReqsOf(t) = WaitReqsOf(s)
  BY <1>2, <1>3 DEF WaitReqsOf
<1>5. NewestOnTop(t)
  <2> SUFFICES ASSUME NEW i \in WaitsOf(t), NEW j \in WaitsOf(t), i < j
               PROVE  t[i].req > t[j].req
    BY DEF NewestOnTop
  <2>1. i \in Int /\ j \in Int /\ i - 1 < j - 1
    BY <1>1 DEF WaitsOf
  <2> QED
    BY <1>2, <2>1 DEF NewestOnTop
<1> QED
  BY <1>1, <1>4, <1>5 DEF t

\* A call of cookiesForUrl adds a wait that is newer than the others.
LEMMA PushWait ==
    ASSUME NEW s \in Seq(Frames), NEW f \in Frames, f.at = "wait", NewestOnTop(s),
           \A r \in WaitReqsOf(s) : r < f.req
    PROVE  /\ <<f>> \o s \in Seq(Frames)
           /\ WaitReqsOf(<<f>> \o s) = WaitReqsOf(s) \cup {f.req}
           /\ NewestOnTop(<<f>> \o s)
<1> DEFINE t == <<f>> \o s
<1>1. /\ t \in Seq(Frames)
      /\ Len(s) \in Nat
      /\ DOMAIN t = 1..(Len(s) + 1) /\ DOMAIN s = 1..Len(s)
      /\ t[1] = f
      /\ \A i \in 1..Len(s) : t[i + 1] = s[i]
      /\ \A i \in 2..(Len(s) + 1) : t[i] = s[i - 1]
  BY PushFacts
<1> HIDE DEF t
<1>2. \A i \in WaitsOf(t) : i = 1 \/ (i - 1 \in WaitsOf(s) /\ t[i] = s[i - 1])
  BY <1>1 DEF WaitsOf
<1>3. \A i \in WaitsOf(s) : i + 1 \in WaitsOf(t) /\ t[i + 1] = s[i]
  BY <1>1 DEF WaitsOf
<1>4. 1 \in WaitsOf(t)
  BY <1>1 DEF WaitsOf
<1>5. WaitReqsOf(t) = WaitReqsOf(s) \cup {f.req}
  BY <1>1, <1>2, <1>3, <1>4 DEF WaitReqsOf
<1>6. NewestOnTop(t)
  <2> SUFFICES ASSUME NEW i \in WaitsOf(t), NEW j \in WaitsOf(t), i < j
               PROVE  t[i].req > t[j].req
    BY DEF NewestOnTop
  <2>1. i \in Nat \ {0} /\ j \in Nat \ {0} /\ i - 1 < j - 1 /\ j # 1
    BY <1>1 DEF WaitsOf
  <2>2. j - 1 \in WaitsOf(s) /\ t[j] = s[j - 1]
    BY <1>2, <2>1
  <2>3. CASE i = 1
    <3>1. t[j].req \in WaitReqsOf(s)
      BY <2>2 DEF WaitReqsOf
    <3>2. t[j].req < f.req /\ t[i] = f
      BY <1>1, <2>3, <3>1
    <3>3. t[j].req \in Nat /\ f.req \in Nat
      BY <1>1 DEF WaitsOf, Frames
    <3> QED
      BY <3>2, <3>3
  <2>4. CASE i # 1
    BY <1>2, <2>1, <2>2, <2>4 DEF NewestOnTop
  <2> QED
    BY <2>3, <2>4
<1> QED
  BY <1>1, <1>5, <1>6 DEF t

\* Returning takes the top frame away; a wait that returns was the newest.
LEMMA PopFacts ==
    ASSUME NEW s \in Seq(Frames), s # <<>>, NewestOnTop(s)
    PROVE  /\ Tail(s) \in Seq(Frames)
           /\ Head(s) \in Frames
           /\ NewestOnTop(Tail(s))
           /\ Head(s).at # "wait" => WaitReqsOf(Tail(s)) = WaitReqsOf(s)
           /\ Head(s).at = "wait" =>
                 /\ Head(s).req \in WaitReqsOf(s)
                 /\ WaitReqsOf(Tail(s)) = WaitReqsOf(s) \ {Head(s).req}
                 /\ \A r \in WaitReqsOf(s) : r <= Head(s).req
<1> DEFINE t == Tail(s)
<1>1. /\ t \in Seq(Frames)
      /\ Head(s) = s[1] /\ s[1] \in Frames
      /\ Len(s) \in Nat \ {0}
      /\ DOMAIN s = 1..Len(s)
      /\ DOMAIN t = 1..(Len(s) - 1)
      /\ \A i \in 1..(Len(s) - 1) : t[i] = s[i + 1]
      /\ \A i \in 1..Len(s) : s[i] \in Frames
  OBVIOUS
<1> HIDE DEF t
<1>2. \A i \in WaitsOf(t) : i + 1 \in WaitsOf(s) /\ t[i] = s[i + 1] /\ i \in Nat \ {0}
  BY <1>1 DEF WaitsOf
<1>3. \A i \in WaitsOf(s) : i = 1 \/ (i - 1 \in WaitsOf(t) /\ t[i - 1] = s[i])
  BY <1>1 DEF WaitsOf
<1>4. NewestOnTop(t)
  <2> SUFFICES ASSUME NEW i \in WaitsOf(t), NEW j \in WaitsOf(t), i < j
               PROVE  t[i].req > t[j].req
    BY DEF NewestOnTop
  <2>1. i + 1 < j + 1
    BY <1>2
  <2> QED
    BY <1>2, <2>1 DEF NewestOnTop
<1>5. ASSUME Head(s).at # "wait" PROVE WaitReqsOf(t) = WaitReqsOf(s)
  <2>1. 1 \notin WaitsOf(s)
    BY <1>1, <1>5 DEF WaitsOf
  <2> QED
    BY <1>2, <1>3, <2>1 DEF WaitReqsOf
<1>6. ASSUME Head(s).at = "wait"
      PROVE  /\ Head(s).req \in WaitReqsOf(s)
             /\ WaitReqsOf(t) = WaitReqsOf(s) \ {Head(s).req}
             /\ \A r \in WaitReqsOf(s) : r <= Head(s).req
  <2>1. 1 \in WaitsOf(s) /\ s[1].req \in WaitReqsOf(s)
    BY <1>1, <1>6 DEF WaitsOf, WaitReqsOf
  <2>2. \A i \in WaitsOf(s) : i # 1 => s[i].req < s[1].req
    <3> SUFFICES ASSUME NEW i \in WaitsOf(s), i # 1 PROVE s[i].req < s[1].req
      OBVIOUS
    <3>1. 1 < i /\ s[i].req \in Nat /\ s[1].req \in Nat
      BY <1>1, <2>1 DEF WaitsOf, Frames
    <3>2. s[1].req > s[i].req
      BY <2>1, <3>1 DEF NewestOnTop
    <3> QED
      BY <3>1, <3>2
  <2>3. \A r \in WaitReqsOf(s) : r <= s[1].req
    BY <1>1, <2>1, <2>2 DEF WaitReqsOf, WaitsOf, Frames
  <2>4. ASSUME NEW r \in WaitReqsOf(t) PROVE r \in WaitReqsOf(s) \ {s[1].req}
    <3>1. PICK i \in WaitsOf(t) : r = t[i].req
      BY <2>4 DEF WaitReqsOf
    <3>2. i + 1 \in WaitsOf(s) /\ i + 1 # 1 /\ r = s[i + 1].req
      BY <1>2, <3>1
    <3>3. r < s[1].req /\ r \in WaitReqsOf(s)
      BY <2>2, <3>2 DEF WaitReqsOf
    <3>4. s[1].req \in Nat
      BY <1>1, <2>1 DEF WaitsOf, Frames
    <3> QED
      BY <3>3, <3>4
  <2>5. ASSUME NEW r \in WaitReqsOf(s), r # s[1].req PROVE r \in WaitReqsOf(t)
    BY <1>3, <2>5 DEF WaitReqsOf
  <2> QED
    BY <1>1, <2>1, <2>3, <2>4, <2>5
<1> QED
  BY <1>1, <1>4, <1>5, <1>6 DEF t

\* Somebody waits exactly if a request is waited for.
LEMMA WaitsAndReqs == Waits = {} <=> WaitReqs = {}
BY DEF Waits, WaitReqs, WaitReqsOf

-----------------------------------------------------------------------------
\* Steps that change nobody's wait

\* A step that keeps the waits, the answers on the way and the flag keeps the
\* invariant.
LEMMA SameWaits ==
    ASSUME IInv, TypeOK', NewestOnTop(stack)', NoAnswerQueued', WaitReqs' = WaitReqs,
           UNCHANGED <<stdin, asked, waitForReply, cookieMap, lastReqId>>
    PROVE  IInv'
<1> USE DEF IInv
<1>1. Waits' = {} <=> WaitReqs' = {}
  BY DEF Waits, WaitReqs, WaitReqsOf
<1>2. FlagMeansWaiting'
  BY <1>1, WaitsAndReqs DEF FlagMeansWaiting
<1>3. WaitersAreAnswered' /\ AnswersInOrder'
  BY DEF WaitersAreAnswered, AnswersInOrder, Answers
<1> QED
  BY <1>2, <1>3

\* Running a handler for anything but an answer.
LEMMA DispatchOther ==
    ASSUME IInv, NEW m \in Msgs, m.type # "cookie", DispatchMsg(m)
    PROVE  /\ stack' \in Seq(Frames) /\ handled' \in Seq(Msgs)
           /\ cookieMap' = cookieMap
           /\ WaitReqs' = WaitReqs
           /\ NewestOnTop(stack)'
<1> USE DEF IInv
<1>1. /\ stack' = <<Frame("script")>> \o stack
      /\ handled' = Append(handled, m)
      /\ cookieMap' = cookieMap
  BY DEF DispatchMsg, Push
<1>2. Frame("script") \in Frames /\ Frame("script").at # "wait"
  BY DEF Frame, Frames
<1>3. stack \in Seq(Frames) /\ handled \in Seq(Msgs)
  BY DEF TypeOK
<1> QED
  BY <1>1, <1>2, <1>3, PushOther DEF WaitReqs

\* The queue holds no answers, so emptying it runs handlers only.
LEMMA DrainStep ==
    ASSUME IInv, Drain
    PROVE  IInv'
<1> USE DEF IInv
<1>1. /\ msgQueue \in Seq(Msgs) /\ msgQueue # <<>>
      /\ msgQueue' = Tail(msgQueue)
      /\ DispatchMsg(Head(msgQueue))
      /\ UNCHANGED <<stdin, asked, urlMsgs, uiMsgs, waitForReply, lastReqId, posted>>
  BY DEF Drain, TypeOK, QueueTaken, pipes
<1>2. /\ Head(msgQueue) \in Msgs /\ Head(msgQueue).type # "cookie"
      /\ Tail(msgQueue) \in Seq(Msgs)
      /\ \A i \in DOMAIN Tail(msgQueue) : Tail(msgQueue)[i].type # "cookie"
  BY <1>1 DEF NoAnswerQueued
<1>3. /\ stack' \in Seq(Frames) /\ handled' \in Seq(Msgs)
      /\ cookieMap' = cookieMap
      /\ WaitReqs' = WaitReqs
      /\ NewestOnTop(stack)'
  BY <1>1, <1>2, DispatchOther
<1>4. TypeOK' /\ NoAnswerQueued'
  BY <1>1, <1>2, <1>3 DEF TypeOK, NoAnswerQueued
<1> QED
  BY <1>1, <1>3, <1>4, SameWaits

\* A frame that is no wait is replaced by another one, or returns.
LEMMA OtherReturns ==
    ASSUME IInv, stack # <<>>, Head(stack).at # "wait",
           \/ stack' = Tail(stack)
           \/ stack' = <<Frame("read")>> \o Tail(stack),
           UNCHANGED <<stdin, pipes, msgQueue, waitForReply, cookieMap, lastReqId, posted, handled>>
    PROVE  IInv'
<1> USE DEF IInv
<1>1. /\ stack \in Seq(Frames)
      /\ Tail(stack) \in Seq(Frames)
      /\ NewestOnTop(Tail(stack))
      /\ WaitReqsOf(Tail(stack)) = WaitReqs
  BY PopFacts DEF TypeOK, WaitReqs
<1>2. Frame("read") \in Frames /\ Frame("read").at # "wait"
  BY DEF Frame, Frames
<1>3. /\ stack' \in Seq(Frames)
      /\ NewestOnTop(stack)'
      /\ WaitReqs' = WaitReqs
  BY <1>1, <1>2, PushOther DEF WaitReqs
<1>4. TypeOK' /\ NoAnswerQueued'
  BY <1>3 DEF TypeOK, NoAnswerQueued, pipes
<1> QED
  BY <1>3, <1>4, SameWaits DEF pipes

\* The event loop calls a handler.
LEMMA HandlerCalled ==
    ASSUME IInv, NEW at \in {"drain", "flush", "read", "script"},
           stack' = Push(Frame(at)), posted' \in Nat,
           UNCHANGED <<stdin, pipes, msgQueue, waitForReply, cookieMap, lastReqId, handled>>
    PROVE  IInv'
<1> USE DEF IInv
<1>1. Frame(at) \in Frames /\ Frame(at).at # "wait"
  BY DEF Frame, Frames
<1>2. /\ stack' \in Seq(Frames)
      /\ NewestOnTop(stack)'
      /\ WaitReqs' = WaitReqs
  BY <1>1, PushOther DEF WaitReqs, Push, TypeOK
<1>3. TypeOK' /\ NoAnswerQueued'
  BY <1>2 DEF TypeOK, NoAnswerQueued, pipes
<1> QED
  BY <1>2, <1>3, SameWaits DEF pipes

-----------------------------------------------------------------------------
\* Steps of the pipes

\* Other messages may come and go in the pipe as long as the answers keep
\* their order: k is how far they move up.
LEMMA SameAnswers ==
    ASSUME IInv, NEW k \in {0, 1},
           \A i \in Answers' : i \in Int /\ i + k \in Answers /\ stdin'[i] = stdin[i + k],
           \A i \in Answers : i \in Int /\ i - k \in Answers' /\ stdin'[i - k] = stdin[i],
           WaitReqs' = WaitReqs, UNCHANGED <<asked, cookieMap, lastReqId>>
    PROVE  WaitersAreAnswered' /\ AnswersInOrder'
<1> USE DEF IInv
<1>1. {stdin'[i].n : i \in Answers'} = {stdin[i].n : i \in Answers}
  OBVIOUS
<1>2. WaitersAreAnswered'
  BY <1>1 DEF WaitersAreAnswered
<1>3. ASSUME NEW i \in Answers', NEW j \in Answers', i < j
      PROVE  stdin'[i].n < stdin'[j].n
  <2>1. i + k < j + k
    BY <1>3
  <2> QED
    BY <2>1 DEF AnswersInOrder
<1>4. AnswersInOrder'
  BY <1>3 DEF AnswersInOrder
<1> QED
  BY <1>2, <1>4

\* A message of the network process or of the UI arrives.
LEMMA ArrivalStep ==
    ASSUME IInv, NEW m \in Msgs, m.type # "cookie", stdin' = Append(stdin, m),
           urlMsgs' \in 0..MaxUrlMsgs, uiMsgs' \in 0..MaxUiMsgs,
           UNCHANGED <<asked, msgQueue, waitForReply, cookieMap, lastReqId, posted,
                       stack, handled>>
    PROVE  IInv'
<1> USE DEF IInv
<1>1. /\ stdin \in Seq(Msgs) /\ stdin' \in Seq(Msgs)
      /\ Len(stdin) \in Nat
      /\ DOMAIN stdin = 1..Len(stdin) /\ DOMAIN stdin' = 1..(Len(stdin) + 1)
      /\ \A i \in 1..Len(stdin) : stdin'[i] = stdin[i]
      /\ stdin'[Len(stdin) + 1] = m
  BY DEF TypeOK
<1>2. \A i \in Answers' : i \in Int /\ i + 0 \in Answers /\ stdin'[i] = stdin[i + 0]
  BY <1>1 DEF Answers
<1>3. \A i \in Answers : i \in Int /\ i - 0 \in Answers' /\ stdin'[i - 0] = stdin[i]
  BY <1>1 DEF Answers
<1>4. WaitReqs' = WaitReqs /\ FlagMeansWaiting' /\ NewestOnTop(stack)' /\ NoAnswerQueued'
  BY DEF WaitReqs, FlagMeansWaiting, Waits, NewestOnTop, NoAnswerQueued
<1>5. WaitersAreAnswered' /\ AnswersInOrder'
  BY <1>2, <1>3, <1>4, SameAnswers
<1>6. TypeOK'
  BY <1>1 DEF TypeOK
<1> QED
  BY <1>4, <1>5, <1>6

\* The cookie process answers the request that was asked first.
LEMMA CookieAnswersStep ==
    ASSUME IInv, CookieAnswers
    PROVE  IInv'
<1> USE DEF IInv
<1> DEFINE m == [type |-> "cookie", n |-> Head(asked)]
<1>1. /\ asked \in Seq(1..MaxReqs) /\ asked # <<>>
      /\ asked' = Tail(asked) /\ stdin' = Append(stdin, m)
      /\ UNCHANGED <<urlMsgs, uiMsgs, msgQueue, waitForReply, cookieMap, lastReqId,
                     posted, stack, handled>>
  BY DEF CookieAnswers, TypeOK
<1>2. /\ asked' \in Seq(1..MaxReqs)
      /\ Len(asked) \in Nat \ {0}
      /\ Head(asked) = asked[1] /\ asked[1] \in 1..MaxReqs
      /\ DOMAIN asked = 1..Len(asked) /\ DOMAIN asked' = 1..(Len(asked) - 1)
      /\ \A i \in 1..(Len(asked) - 1) : asked'[i] = asked[i + 1]
  <2> DEFINE Ids == 1..MaxReqs
  <2>1. asked \in Seq(Ids) /\ asked # <<>> /\ asked' = Tail(asked)
    BY <1>1
  <2> HIDE DEF Ids
  <2>2. /\ asked' \in Seq(Ids) /\ Len(asked) \in Nat \ {0}
        /\ Head(asked) = asked[1] /\ asked[1] \in Ids
        /\ DOMAIN asked = 1..Len(asked) /\ DOMAIN asked' = 1..(Len(asked) - 1)
        /\ \A i \in 1..(Len(asked) - 1) : asked'[i] = asked[i + 1]
    BY ONLY <2>1
  <2> QED
    BY ONLY <2>2 DEF Ids
<1>3. m \in Msgs /\ m.type = "cookie" /\ m.n = asked[1]
  BY <1>2 DEF Msgs
<1> HIDE DEF m
<1>4. /\ stdin \in Seq(Msgs) /\ stdin' \in Seq(Msgs)
      /\ Len(stdin) \in Nat
      /\ DOMAIN stdin = 1..Len(stdin) /\ DOMAIN stdin' = 1..(Len(stdin) + 1)
      /\ \A i \in 1..Len(stdin) : stdin'[i] = stdin[i]
      /\ stdin'[Len(stdin) + 1] = m
  BY <1>1, <1>3 DEF TypeOK
<1>5. /\ \A i \in Answers : i \in Answers' /\ i \in 1..Len(stdin) /\ stdin'[i] = stdin[i]
      /\ \A i \in Answers' : \/ i \in Answers /\ stdin'[i] = stdin[i]
                             \/ i = Len(stdin) + 1
      /\ Len(stdin) + 1 \in Answers'
      /\ 1 \in DOMAIN asked
      /\ \A j \in DOMAIN asked' : j + 1 \in DOMAIN asked /\ asked'[j] = asked[j + 1] /\ 1 < j + 1
      /\ \A j \in DOMAIN asked : j = 1 \/ (j - 1 \in DOMAIN asked' /\ asked'[j - 1] = asked[j])
  BY <1>2, <1>3, <1>4 DEF Answers
<1>6. WaitReqs' = WaitReqs /\ FlagMeansWaiting' /\ NewestOnTop(stack)' /\ NoAnswerQueued'
  BY <1>1 DEF WaitReqs, FlagMeansWaiting, Waits, NewestOnTop, NoAnswerQueued
<1>7. WaitersAreAnswered'
  <2>1. WaitReqs \subseteq cookieMap \cup {stdin[i].n : i \in Answers}
                           \cup {asked[i] : i \in DOMAIN asked}
    BY DEF WaitersAreAnswered
  <2>2. {stdin[i].n : i \in Answers} \cup {asked[i] : i \in DOMAIN asked}
        \subseteq {stdin'[i].n : i \in Answers'} \cup {asked'[i] : i \in DOMAIN asked'}
    BY <1>3, <1>4, <1>5
  <2> QED
    BY <1>1, <1>6, <2>1, <2>2 DEF WaitersAreAnswered
<1>8. AnswersInOrder'
  <2>1. \A i, j \in DOMAIN asked' : i < j => asked'[i] < asked'[j]
    BY <1>2, <1>5 DEF AnswersInOrder
  <2>2. ASSUME NEW i \in Answers', NEW j \in Answers', i < j
        PROVE  stdin'[i].n < stdin'[j].n
    <3>1. i \in Answers /\ stdin'[i] = stdin[i]
      BY <1>4, <1>5, <2>2 DEF Answers
    <3>2. CASE j = Len(stdin) + 1
      BY <1>3, <1>4, <1>5, <3>1, <3>2 DEF AnswersInOrder
    <3>3. CASE j # Len(stdin) + 1
      BY <1>5, <2>2, <3>1, <3>3 DEF AnswersInOrder
    <3> QED
      BY <3>2, <3>3
  <2>3. \A i \in Answers', j \in DOMAIN asked' : stdin'[i].n < asked'[j]
    BY <1>3, <1>4, <1>5 DEF AnswersInOrder
  <2>4. \A r \in cookieMap' : /\ \A i \in Answers' : r < stdin'[i].n
                              /\ \A j \in DOMAIN asked' : r < asked'[j]
    BY <1>1, <1>3, <1>4, <1>5 DEF AnswersInOrder
  <2>5. /\ \A i \in Answers' : stdin'[i].n \in WaitReqs'
        /\ \A j \in DOMAIN asked' : asked'[j] \in WaitReqs'
    BY <1>3, <1>4, <1>5, <1>6 DEF AnswersInOrder
  <2> QED
    BY <2>1, <2>2, <2>3, <2>4, <2>5 DEF AnswersInOrder
<1>9. TypeOK'
  BY <1>1, <1>2, <1>4 DEF TypeOK
<1> QED
  BY <1>6, <1>7, <1>8, <1>9


\* Reading a message that is put into the queue or given to a handler.
LEMMA ReadOtherStep ==
    ASSUME IInv, Read, Head(stdin).type # "cookie"
    PROVE  IInv'
<1> USE DEF IInv
<1> DEFINE m == Head(stdin)
<1>1. /\ stdin \in Seq(Msgs) /\ stdin # <<>> /\ stdin' = Tail(stdin)
      /\ msgQueue \in Seq(Msgs)
      /\ UNCHANGED <<asked, urlMsgs, uiMsgs, waitForReply, lastReqId, posted>>
  BY DEF Read, TypeOK, pipes
<1>2. /\ stdin' \in Seq(Msgs)
      /\ Len(stdin) \in Nat \ {0}
      /\ m = stdin[1] /\ m \in Msgs
      /\ DOMAIN stdin = 1..Len(stdin) /\ DOMAIN stdin' = 1..(Len(stdin) - 1)
      /\ \A i \in 1..(Len(stdin) - 1) : stdin'[i] = stdin[i + 1]
  BY <1>1
<1>3. \A i \in Answers' : i \in Int /\ i + 1 \in Answers /\ stdin'[i] = stdin[i + 1]
  BY <1>2 DEF Answers
<1>4. \A i \in Answers : i \in Int /\ i - 1 \in Answers' /\ stdin'[i - 1] = stdin[i]
  BY <1>2 DEF Answers
<1>5. CASE Deferred(m)
  <2>1. msgQueue' = Append(msgQueue, m) /\ UNCHANGED <<cookieMap, stack, handled>>
    BY <1>5 DEF Read
  <2>2. /\ msgQueue' \in Seq(Msgs)
        /\ \A i \in DOMAIN msgQueue' : \/ i \in DOMAIN msgQueue /\ msgQueue'[i] = msgQueue[i]
                                       \/ msgQueue'[i] = m
    BY <1>1, <1>2, <2>1
  <2>3. TypeOK' /\ NoAnswerQueued'
    BY <1>1, <1>2, <2>1, <2>2 DEF TypeOK, NoAnswerQueued
  <2>4. WaitReqs' = WaitReqs /\ FlagMeansWaiting' /\ NewestOnTop(stack)'
    BY <1>1, <2>1 DEF WaitReqs, FlagMeansWaiting, Waits, NewestOnTop
  <2>5. WaitersAreAnswered' /\ AnswersInOrder'
    BY <1>1, <1>3, <1>4, <2>1, <2>4, SameAnswers
  <2> QED
    BY <2>3, <2>4, <2>5
<1>6. CASE ~Deferred(m)
  <2>1. DispatchMsg(m) /\ UNCHANGED msgQueue
    BY <1>6 DEF Read
  <2>2. /\ stack' \in Seq(Frames) /\ handled' \in Seq(Msgs)
        /\ cookieMap' = cookieMap
        /\ WaitReqs' = WaitReqs
        /\ NewestOnTop(stack)'
    BY <1>2, <2>1, DispatchOther
  <2>3. TypeOK' /\ NoAnswerQueued'
    BY <1>1, <1>2, <2>1, <2>2 DEF TypeOK, NoAnswerQueued
  <2>4. FlagMeansWaiting'
    <3>1. Waits' = {} <=> WaitReqs' = {}
      BY DEF Waits, WaitReqs, WaitReqsOf
    <3> QED
      BY <1>1, <2>2, <3>1, WaitsAndReqs DEF FlagMeansWaiting
  <2>5. WaitersAreAnswered' /\ AnswersInOrder'
    BY <1>1, <1>3, <1>4, <2>2, SameAnswers
  <2> QED
    BY <2>2, <2>3, <2>4, <2>5
<1> QED
  BY <1>5, <1>6

\* Reading an answer: it is stored, before any answer that is still to come.
LEMMA ReadAnswerStep ==
    ASSUME IInv, Read, Head(stdin).type = "cookie"
    PROVE  IInv'
<1> USE DEF IInv
<1> DEFINE m == Head(stdin)
<1>1. /\ stdin \in Seq(Msgs) /\ stdin # <<>> /\ stdin' = Tail(stdin)
      /\ cookieMap' = cookieMap \cup {m.n}
      /\ UNCHANGED <<asked, urlMsgs, uiMsgs, msgQueue, waitForReply, lastReqId, posted,
                     stack, handled>>
  BY DEF Read, TypeOK, pipes, Deferred, DispatchMsg, AnswerKey
<1>2. /\ stdin' \in Seq(Msgs)
      /\ Len(stdin) \in Nat \ {0}
      /\ m = stdin[1] /\ m \in Msgs
      /\ DOMAIN stdin = 1..Len(stdin) /\ DOMAIN stdin' = 1..(Len(stdin) - 1)
      /\ \A i \in 1..(Len(stdin) - 1) : stdin'[i] = stdin[i + 1]
  BY <1>1
<1>3. m.n \in 1..MaxReqs
  BY <1>2 DEF Msgs
<1>4. /\ 1 \in Answers
      /\ \A i \in Answers' : i \in Int /\ 1 < i + 1 /\ i + 1 \in Answers /\ stdin'[i] = stdin[i + 1]
      /\ \A i \in Answers : i = 1 \/ (i - 1 \in Answers' /\ stdin'[i - 1] = stdin[i])
  BY <1>2 DEF Answers
<1>5. WaitReqs' = WaitReqs /\ FlagMeansWaiting' /\ NewestOnTop(stack)' /\ NoAnswerQueued'
  BY <1>1 DEF WaitReqs, FlagMeansWaiting, Waits, NewestOnTop, NoAnswerQueued
<1>6. WaitersAreAnswered'
  <2>1. WaitReqs \subseteq cookieMap \cup {stdin[i].n : i \in Answers}
                           \cup {asked[i] : i \in DOMAIN asked}
    BY DEF WaitersAreAnswered
  <2>2. {stdin[i].n : i \in Answers} \subseteq {stdin'[i].n : i \in Answers'} \cup {m.n}
    BY <1>2, <1>4
  <2>3. m.n \in WaitReqs
    BY <1>2, <1>4 DEF AnswersInOrder
  <2> QED
    BY <1>1, <1>5, <2>1, <2>2, <2>3 DEF WaitersAreAnswered
<1>7. AnswersInOrder'
  <2>1. ASSUME NEW i \in Answers', NEW j \in Answers', i < j
        PROVE  stdin'[i].n < stdin'[j].n
    <3>1. i + 1 < j + 1
      BY <1>4, <2>1
    <3> QED
      BY <1>4, <3>1 DEF AnswersInOrder
  <2>2. \A r \in cookieMap' : /\ \A i \in Answers' : r < stdin'[i].n
                              /\ \A j \in DOMAIN asked' : r < asked'[j]
    <3>1. \A i \in Answers' : m.n < stdin'[i].n
      BY <1>2, <1>4 DEF AnswersInOrder
    <3>2. \A j \in DOMAIN asked' : m.n < asked'[j]
      BY <1>1, <1>2, <1>4 DEF AnswersInOrder
    <3>3. \A r \in cookieMap : /\ \A i \in Answers' : r < stdin'[i].n
                               /\ \A j \in DOMAIN asked' : r < asked'[j]
      BY <1>1, <1>4 DEF AnswersInOrder
    <3> HIDE DEF m
    <3> QED
      BY <1>1, <3>1, <3>2, <3>3
  <2> QED
    BY <1>1, <1>4, <1>5, <2>1, <2>2 DEF AnswersInOrder
<1>8. TypeOK'
  BY <1>1, <1>2, <1>3 DEF TypeOK
<1> QED
  BY <1>5, <1>6, <1>7, <1>8

-----------------------------------------------------------------------------
\* Asking and returning

\* Who asks for cookies gets the newest request and raises the flag.
LEMMA CookiesForUrlStep ==
    ASSUME IInv, CookiesForUrl
    PROVE  IInv'
<1> USE DEF IInv
<1> DEFINE r == lastReqId + 1
           w == [at |-> "wait", req |-> r]
<1>1. /\ stack \in Seq(Frames) /\ asked \in Seq(1..MaxReqs)
      /\ lastReqId \in Nat /\ r \in 1..MaxReqs
      /\ lastReqId' = r
      /\ asked' = Append(asked, r)
      /\ waitForReply' = TRUE
      /\ stack' = <<Frame("read"), w>> \o stack
      /\ UNCHANGED <<stdin, urlMsgs, uiMsgs, msgQueue, cookieMap, posted, handled>>
  BY BoundsAssumption DEF CookiesForUrl, TypeOK
<1>2. w \in Frames /\ w.at = "wait" /\ w.req = r
  BY <1>1 DEF Frames
<1>3. Frame("read") \in Frames /\ Frame("read").at # "wait"
  BY DEF Frame, Frames
<1>4. \A q \in WaitReqs : q < r
  <2>1. \A q \in WaitReqs : q <= lastReqId /\ q \in Nat
    BY <1>1 DEF WaitersAreAnswered, WaitReqs, WaitReqsOf, WaitsOf, Frames
  <2> QED
    BY <1>1, <2>1
<1>5. stack' = <<Frame("read")>> \o (<<w>> \o stack)
  <2> HIDE DEF w
  <2>1. <<Frame("read"), w>> \o stack = <<Frame("read")>> \o (<<w>> \o stack)
    BY <1>1, <1>2, <1>3
  <2> QED
    BY <1>1, <2>1
<1> HIDE DEF w
<1>6. /\ <<w>> \o stack \in Seq(Frames)
      /\ WaitReqsOf(<<w>> \o stack) = WaitReqs \cup {r}
      /\ NewestOnTop(<<w>> \o stack)
  BY <1>1, <1>2, <1>4, PushWait DEF WaitReqs
<1>7. /\ stack' \in Seq(Frames)
      /\ WaitReqs' = WaitReqs \cup {r}
      /\ NewestOnTop(stack)'
  BY <1>3, <1>5, <1>6, PushOther DEF WaitReqs
<1>8. /\ asked' \in Seq(1..MaxReqs)
      /\ Len(asked) \in Nat
      /\ DOMAIN asked = 1..Len(asked) /\ DOMAIN asked' = 1..(Len(asked) + 1)
      /\ \A i \in 1..Len(asked) : asked'[i] = asked[i]
      /\ asked'[Len(asked) + 1] = r
  <2> DEFINE Ids == 1..MaxReqs
  <2>1. asked \in Seq(Ids) /\ r \in Ids /\ asked' = Append(asked, r)
    BY <1>1
  <2> HIDE DEF Ids, r
  <2>2. /\ asked' \in Seq(Ids)
        /\ Len(asked) \in Nat
        /\ DOMAIN asked = 1..Len(asked) /\ DOMAIN asked' = 1..(Len(asked) + 1)
        /\ \A i \in 1..Len(asked) : asked'[i] = asked[i]
        /\ asked'[Len(asked) + 1] = r
    BY ONLY <2>1
  <2> QED
    BY ONLY <2>2 DEF Ids
<1>9. TypeOK'
  BY <1>1, <1>7, <1>8 DEF TypeOK
<1>10. FlagMeansWaiting'
  <2>1. Waits' = {} <=> WaitReqs' = {}
    BY DEF Waits, WaitReqs, WaitReqsOf
  <2> QED
    BY <1>1, <1>7, <2>1 DEF FlagMeansWaiting
<1>11. Answers' = Answers /\ NoAnswerQueued'
  BY <1>1 DEF Answers, NoAnswerQueued
<1>12. WaitersAreAnswered'
  <2>1. {asked[i] : i \in DOMAIN asked} \cup {r} \subseteq {asked'[i] : i \in DOMAIN asked'}
    BY <1>8
  <2>2. \A q \in WaitReqs' : q <= lastReqId'
    <3>1. \A q \in WaitReqs : q <= lastReqId /\ q \in Nat
      BY <1>1 DEF WaitersAreAnswered, WaitReqs, WaitReqsOf, WaitsOf, Frames
    <3> HIDE DEF IInv
    <3> QED
      BY <1>1, <1>7, <3>1
  <2> QED
    BY <1>1, <1>7, <1>11, <2>1, <2>2 DEF WaitersAreAnswered
<1>13. AnswersInOrder'
  <2>1. \A j \in DOMAIN asked : asked[j] < r
    BY <1>4 DEF AnswersInOrder
  <2>2. \A i \in Answers : stdin[i].n < r
    BY <1>4 DEF AnswersInOrder
  <2>3. \A q \in cookieMap : q < r
    BY <1>4 DEF WaitersAreAnswered
  <2>4. \A i, j \in DOMAIN asked' : i < j => asked'[i] < asked'[j]
    BY <1>8, <2>1 DEF AnswersInOrder
  <2>5. \A j \in DOMAIN asked' : asked'[j] = r \/ (j \in DOMAIN asked /\ asked'[j] = asked[j])
    BY <1>8
  <2> QED
    BY <1>1, <1>7, <1>11, <2>2, <2>3, <2>4, <2>5 DEF AnswersInOrder
<1> QED
  BY <1>7, <1>9, <1>10, <1>11, <1>12, <1>13

\* Who returns was the last to ask, so every answer has arrived: the flag goes
\* down exactly if nobody else waits.
LEMMA WaitEndsStep ==
    ASSUME IInv, WaitEnds
    PROVE  IInv'
<1> USE DEF IInv
<1> DEFINE r == Head(stack).req
<1>1. /\ stack \in Seq(Frames) /\ stack # <<>> /\ Head(stack).at = "wait"
      /\ r \in cookieMap
      /\ cookieMap' = cookieMap \ {r}
      /\ waitForReply' = (waitForReply /\ cookieMap' # {})
      /\ posted' = posted + 1
      /\ stack' = Tail(stack)
      /\ UNCHANGED <<stdin, asked, urlMsgs, uiMsgs, msgQueue, lastReqId, handled>>
  BY DEF WaitEnds, Top, TypeOK, StillWaiting, PostActivated, pipes
<1>2. /\ stack' \in Seq(Frames)
      /\ NewestOnTop(stack)'
      /\ r \in WaitReqs
      /\ WaitReqs' = WaitReqs \ {r}
      /\ \A q \in WaitReqs : q <= r
  BY <1>1, PopFacts DEF WaitReqs
<1>3. Answers = {} /\ DOMAIN asked = {}
  <2>1. \A q \in WaitReqs : q \in Nat
    BY <1>1 DEF WaitReqs, WaitReqsOf, WaitsOf, Frames
  <2> HIDE DEF r
  <2>2. \A i \in Answers : r < stdin[i].n /\ stdin[i].n <= r
    BY <1>1, <1>2 DEF AnswersInOrder
  <2>3. \A j \in DOMAIN asked : r < asked[j] /\ asked[j] <= r
    BY <1>1, <1>2 DEF AnswersInOrder
  <2>4. \A i \in Answers : stdin[i].n \in Nat
    BY <2>1 DEF AnswersInOrder
  <2>5. \A j \in DOMAIN asked : asked[j] \in Nat
    BY <2>1 DEF AnswersInOrder
  <2>6. r \in Nat
    BY <1>2, <2>1
  <2>7. ASSUME NEW i \in Answers PROVE FALSE
    BY <2>2, <2>4, <2>6
  <2>8. ASSUME NEW j \in DOMAIN asked PROVE FALSE
    BY <2>3, <2>5, <2>6
  <2> QED
    BY <2>7, <2>8
<1>4. WaitReqs = cookieMap
  BY <1>3 DEF WaitersAreAnswered
<1>5. FlagMeansWaiting'
  <2>1. Waits' = {} <=> WaitReqs' = {}
    BY DEF Waits, WaitReqs, WaitReqsOf
  <2>2. waitForReply = TRUE
    BY <1>2, WaitsAndReqs DEF FlagMeansWaiting, TypeOK
  <2> QED
    BY <1>1, <1>2, <1>4, <2>1, <2>2 DEF FlagMeansWaiting
<1>6. TypeOK' /\ NoAnswerQueued'
  <2>1. waitForReply' \in BOOLEAN
    BY <1>1
  <2>2. posted' \in Nat
    BY <1>1 DEF TypeOK
  <2>3. cookieMap \in SUBSET (1..MaxReqs)
    BY DEF TypeOK
  <2>4. cookieMap' \in SUBSET (1..MaxReqs)
    BY ONLY <1>1, <2>3
  <2> QED
    BY <1>1, <1>2, <2>1, <2>2, <2>4 DEF TypeOK, NoAnswerQueued
<1>7. Answers' = {} /\ DOMAIN asked' = {}
  BY <1>1, <1>3 DEF Answers
<1>8. WaitersAreAnswered' /\ AnswersInOrder'
  BY <1>1, <1>2, <1>4, <1>7 DEF WaitersAreAnswered, AnswersInOrder
<1> QED
  BY <1>2, <1>5, <1>6, <1>8

-----------------------------------------------------------------------------
\* The theorems

\* At the start nobody waits.
LEMMA InitIInv == Init => IInv
<1> SUFFICES ASSUME Init PROVE IInv
  OBVIOUS
<1>1. TypeOK
  <2>1. \A S : <<>> \in Seq(S)
    OBVIOUS
  <2>2. urlMsgs \in 0..MaxUrlMsgs /\ uiMsgs \in 0..MaxUiMsgs /\ lastReqId \in 0..MaxReqs
    BY BoundsAssumption DEF Init
  <2> QED
    BY <2>1, <2>2 DEF Init, TypeOK
<1>2. DOMAIN stack = {} /\ DOMAIN stdin = {} /\ DOMAIN asked = {} /\ DOMAIN msgQueue = {}
  BY DEF Init
<1>3. Waits = {} /\ WaitReqs = {} /\ Answers = {}
  BY <1>2 DEF Waits, WaitReqs, WaitReqsOf, WaitsOf, Answers
<1>4. FlagMeansWaiting /\ WaitersAreAnswered /\ AnswersInOrder
  BY <1>2, <1>3 DEF Init, FlagMeansWaiting, WaitersAreAnswered, AnswersInOrder
<1>5. NewestOnTop(stack) /\ NoAnswerQueued
  BY <1>2 DEF NewestOnTop, WaitsOf, NoAnswerQueued
<1> QED
  BY <1>1, <1>4, <1>5 DEF IInv

\* Every step keeps the inductive invariant.
LEMMA NextStep == IInv /\ [Next]_vars => IInv'
<1> SUFFICES ASSUME IInv, [Next]_vars PROVE IInv'
  OBVIOUS
<1>1. CASE Drain
  BY <1>1, DrainStep
<1>2. CASE DrainEnds \/ ReadEnds \/ ScriptEnds
  BY <1>2, OtherReturns DEF DrainEnds, ReadEnds, ScriptEnds, Top
<1>3. CASE Read
  BY <1>3, ReadOtherStep, ReadAnswerStep
<1>4. CASE CookiesForUrl
  BY <1>4, CookiesForUrlStep
<1>5. CASE WaitEnds
  BY <1>5, WaitEndsStep
<1>6. CASE DataReadable
  <2>1. posted' \in Nat
    BY <1>6 DEF DataReadable, IInv, TypeOK
  <2> QED
    BY <1>6, <2>1, HandlerCalled DEF DataReadable, Reading
<1>7. CASE PostedCall
  <2>1. posted' \in Nat
    BY <1>7 DEF PostedCall, IInv, TypeOK
  <2>2. CASE ~waitForReply
    BY <1>7, <2>1, <2>2, HandlerCalled DEF PostedCall
  <2>3. CASE waitForReply
    <3>1. UNCHANGED <<stdin, asked, urlMsgs, uiMsgs, msgQueue, waitForReply, cookieMap,
                      lastReqId, handled, stack>>
      BY <1>7, <2>3 DEF PostedCall, pipes
    <3>2. TypeOK' /\ NewestOnTop(stack)' /\ NoAnswerQueued' /\ WaitReqs' = WaitReqs
      BY <2>1, <3>1 DEF IInv, TypeOK, NewestOnTop, NoAnswerQueued, WaitReqs
    <3> QED
      BY <3>1, <3>2, SameWaits
  <2> QED
    BY <2>2, <2>3
<1>8. CASE Timer
  <2>1. posted' \in Nat
    BY <1>8 DEF Timer, IInv, TypeOK
  <2> QED
    BY <1>8, <2>1, HandlerCalled DEF Timer
<1>9. CASE NetworkSends
  <2>1. /\ [type |-> "url", n |-> urlMsgs + 1] \in Msgs
        /\ urlMsgs' \in 0..MaxUrlMsgs /\ uiMsgs' \in 0..MaxUiMsgs
    BY <1>9, BoundsAssumption DEF NetworkSends, IInv, TypeOK, Msgs
  <2> QED
    BY <1>9, <2>1, ArrivalStep DEF NetworkSends
<1>10. CASE UISends
  <2>1. /\ [type |-> "webapp", n |-> uiMsgs + 1] \in Msgs
        /\ urlMsgs' \in 0..MaxUrlMsgs /\ uiMsgs' \in 0..MaxUiMsgs
    BY <1>10, BoundsAssumption DEF UISends, IInv, TypeOK, Msgs
  <2> QED
    BY <1>10, <2>1, ArrivalStep DEF UISends
<1>11. CASE CookieAnswers
  BY <1>11, CookieAnswersStep
<1>12. CASE UNCHANGED vars
  <2>1. UNCHANGED <<stdin, asked, urlMsgs, uiMsgs, msgQueue, waitForReply, cookieMap,
                    lastReqId, posted, stack, handled>>
    BY <1>12 DEF vars
  <2>2. TypeOK' /\ NewestOnTop(stack)' /\ NoAnswerQueued' /\ WaitReqs' = WaitReqs
    BY <2>1 DEF IInv, TypeOK, NewestOnTop, NoAnswerQueued, WaitReqs
  <2> QED
    BY <2>1, <2>2, SameWaits
<1> QED
  BY <1>1, <1>2, <1>3, <1>4, <1>5, <1>6, <1>7, <1>8, <1>9, <1>10, <1>11, <1>12
     DEF Next, Returns

\* The assertion of cookiesForUrl holds for any depth of nested waits: the
\* flag is up exactly while some call waits for its answer.
THEOREM WaitFlagIsRight == Spec => []FlagMeansWaiting
<1>1. IInv => FlagMeansWaiting
  BY DEF IInv
<1> QED
  BY <1>1, InitIInv, NextStep, PTL DEF Spec

\* The types of the pump's variables.
THEOREM PumpTypeCorrectness == Spec => []TypeOK
<1>1. IInv => TypeOK
  BY DEF IInv
<1> QED
  BY <1>1, InitIInv, NextStep, PTL DEF Spec

-----------------------------------------------------------------------------
\* Messages on their way

\* The oldest message is taken.
LEMMA Taken ==
    ASSUME NEW s \in Seq(Msgs), s # <<>>
    PROVE  /\ Head(s) \in Msgs /\ Tail(s) \in Seq(Msgs) /\ In(s, Head(s))
           /\ \A m : In(s, m) <=> In(Tail(s), m) \/ m = Head(s)
           /\ Distinct(s) => Distinct(Tail(s))
           /\ Distinct(s) /\ Head(s).type # "cookie" => ~In(Tail(s), Head(s))
           /\ Ascending(s) =>
                 /\ Ascending(Tail(s))
                 /\ \A m : In(Tail(s), m) /\ m.type = "webapp" /\ Head(s).type = "webapp"
                           => Head(s).n < m.n
<1> DEFINE t == Tail(s)
<1>1. /\ t \in Seq(Msgs) /\ Head(s) \in Msgs /\ Head(s) = s[1] /\ 1 \in DOMAIN s
      /\ \A i \in DOMAIN s : i \in Nat \ {0} /\ (i # 1 => i - 1 \in DOMAIN t /\ t[i - 1] = s[i])
      /\ \A i \in DOMAIN t : i \in Nat \ {0} /\ i + 1 \in DOMAIN s /\ t[i] = s[i + 1]
  OBVIOUS
<1> HIDE DEF t
<1>2. In(s, Head(s))
  BY <1>1 DEF In
<1>3. ASSUME NEW m, In(s, m), m # Head(s) PROVE In(t, m)
  BY <1>1, <1>3 DEF In
<1>4. ASSUME NEW m, In(t, m) PROVE In(s, m)
  BY <1>1, <1>4 DEF In
<1>5. ASSUME Distinct(s) PROVE Distinct(t)
  <2> SUFFICES ASSUME NEW i \in DOMAIN t, NEW j \in DOMAIN t, t[i] = t[j], t[i].type # "cookie"
               PROVE  i = j
    BY DEF Distinct
  <2>1. i + 1 = j + 1
    BY <1>1, <1>5 DEF Distinct
  <2> QED
    BY <1>1, <2>1
<1>6. ASSUME Distinct(s), Head(s).type # "cookie", In(t, Head(s)) PROVE FALSE
  <2>1. PICK i \in DOMAIN t : t[i] = Head(s)
    BY <1>6 DEF In
  <2>2. i + 1 = 1
    BY <1>1, <1>6, <2>1 DEF Distinct
  <2> QED
    BY <1>1, <2>2
<1>7. ASSUME Ascending(s) PROVE Ascending(t)
  <2> SUFFICES ASSUME NEW i \in DOMAIN t, NEW j \in DOMAIN t, i < j,
                      t[i].type = "webapp", t[j].type = "webapp"
               PROVE  t[i].n < t[j].n
    BY DEF Ascending
  <2>1. i + 1 < j + 1
    BY <1>1
  <2> QED
    BY <1>1, <1>7, <2>1 DEF Ascending
<1>8. ASSUME Ascending(s), NEW m, In(t, m), m.type = "webapp", Head(s).type = "webapp"
      PROVE  Head(s).n < m.n
  <2>1. PICK i \in DOMAIN t : t[i] = m
    BY <1>8 DEF In
  <2>2. 1 < i + 1
    BY <1>1
  <2> QED
    BY <1>1, <1>8, <2>1, <2>2 DEF Ascending
<1> QED
  BY <1>1, <1>2, <1>3, <1>4, <1>5, <1>6, <1>7, <1>8 DEF t

\* A message is put behind the others.
LEMMA Put ==
    ASSUME NEW s \in Seq(Msgs), NEW m \in Msgs
    PROVE  /\ Append(s, m) \in Seq(Msgs)
           /\ \A x : In(Append(s, m), x) <=> In(s, x) \/ x = m
           /\ Distinct(s) /\ (~In(s, m) \/ m.type = "cookie") => Distinct(Append(s, m))
           /\ Ascending(s) /\ (\A x \in Msgs : In(s, x) /\ x.type = "webapp" /\ m.type = "webapp"
                                               => x.n < m.n)
                 => Ascending(Append(s, m))
<1> DEFINE t == Append(s, m)
           n == Len(s)
<1>1. /\ t \in Seq(Msgs) /\ n \in Nat /\ DOMAIN s = 1..n /\ DOMAIN t = 1..(n + 1)
      /\ \A i \in 1..n : t[i] = s[i] /\ s[i] \in Msgs
      /\ t[n + 1] = m
  OBVIOUS
<1> HIDE DEF t, n
<1>2. \A i \in DOMAIN t : i \in 1..n \/ i = n + 1
  BY <1>1
<1>3. \A x : In(t, x) <=> In(s, x) \/ x = m
  <2>1. ASSUME NEW x, In(s, x) PROVE In(t, x)
    BY <1>1, <2>1 DEF In
  <2>2. ASSUME NEW x, In(t, x), x # m PROVE In(s, x)
    BY <1>1, <1>2, <2>2 DEF In
  <2>3. In(t, m)
    <3>1. n + 1 \in DOMAIN t
      BY <1>1
    <3> QED
      BY <1>1, <3>1 DEF In
  <2> QED
    BY <2>1, <2>2, <2>3
<1>4. ASSUME Distinct(s), ~In(s, m) \/ m.type = "cookie" PROVE Distinct(t)
  <2> SUFFICES ASSUME NEW i \in DOMAIN t, NEW j \in DOMAIN t, t[i] = t[j], t[i].type # "cookie"
               PROVE  i = j
    BY DEF Distinct
  <2>1. CASE i \in 1..n /\ j \in 1..n
    BY <1>1, <1>4, <2>1 DEF Distinct
  <2>2. CASE i = n + 1 /\ j \in 1..n
    BY <1>1, <1>4, <2>2 DEF In
  <2>3. CASE i \in 1..n /\ j = n + 1
    BY <1>1, <1>4, <2>3 DEF In
  <2> QED
    BY <1>2, <2>1, <2>2, <2>3
<1>5. ASSUME Ascending(s),
             \A x \in Msgs : In(s, x) /\ x.type = "webapp" /\ m.type = "webapp" => x.n < m.n
      PROVE  Ascending(t)
  <2> SUFFICES ASSUME NEW i \in DOMAIN t, NEW j \in DOMAIN t, i < j,
                      t[i].type = "webapp", t[j].type = "webapp"
               PROVE  t[i].n < t[j].n
    BY DEF Ascending
  <2>1. i \in 1..n
    BY <1>1
  <2>2. CASE j \in 1..n
    BY <1>1, <1>5, <2>1, <2>2 DEF Ascending
  <2>3. CASE j = n + 1
    BY <1>1, <1>5, <2>1, <2>3 DEF In
  <2> QED
    BY <1>2, <2>2, <2>3
<1> QED
  BY <1>1, <1>3, <1>4, <1>5 DEF t

\* What Sent and the messages of each kind are.
LEMMA SentFacts ==
    ASSUME TypeOK
    PROVE  /\ Sent \subseteq Msgs
           /\ \A m \in Msgs : /\ m.type \in {"url", "webapp", "cookie"}
                              /\ m \in Sent => m.type # "cookie" /\ m.n \in Nat
                              /\ m \in Sent /\ m.type = "webapp" => m.n <= uiMsgs
           /\ UNCHANGED <<urlMsgs, uiMsgs>> => Sent' = Sent
<1>1. urlMsgs \in 0..MaxUrlMsgs /\ uiMsgs \in 0..MaxUiMsgs
  BY DEF TypeOK
<1>2. ASSUME NEW m \in Sent
      PROVE  /\ m \in Msgs /\ m.type # "cookie" /\ m.n \in Nat
             /\ m.type = "webapp" => m.n <= uiMsgs
  <2>1. CASE m \in [type : {"url"}, n : 1..urlMsgs]
    <3>1. m.type = "url" /\ m.n \in 1..urlMsgs /\ m = [type |-> m.type, n |-> m.n]
      BY <2>1
    <3>2. m \in [type : {"url"}, n : 1..MaxUrlMsgs]
      BY <1>1, <2>1, <3>1, BoundsAssumption
    <3> QED
      BY <1>1, <3>1, <3>2 DEF Msgs
  <2>2. CASE m \in [type : {"webapp"}, n : 1..uiMsgs]
    <3>1. m.type = "webapp" /\ m.n \in 1..uiMsgs
      BY <2>2
    <3>2. m \in [type : {"webapp"}, n : 1..MaxUiMsgs]
      BY <1>1, <2>2, <3>1, BoundsAssumption
    <3> QED
      BY <1>1, <3>1, <3>2 DEF Msgs
  <2> QED
    BY <2>1, <2>2 DEF Sent
<1>3. \A m \in Msgs : m.type \in {"url", "webapp", "cookie"}
  BY DEF Msgs
<1>4. UNCHANGED <<urlMsgs, uiMsgs>> => Sent' = Sent
  BY DEF Sent
<1> QED
  BY <1>2, <1>3, <1>4

\* The first of a sequence
LEMMA HeadIn ==
    ASSUME NEW S, NEW s \in Seq(S), s # <<>>
    PROVE  Head(s) \in S
OBVIOUS

\* The records of a kind, with one more number
LEMMA OneMoreRecord ==
    ASSUME NEW t, NEW k \in Nat
    PROVE  [type : {t}, n : 1..(k + 1)] = [type : {t}, n : 1..k] \cup {[type |-> t, n |-> k + 1]}
<1> DEFINE new == [type |-> t, n |-> k + 1]
<1>1. ASSUME NEW r \in [type : {t}, n : 1..(k + 1)]
      PROVE  r \in [type : {t}, n : 1..k] \/ r = new
  <2>1. r.type = t /\ r.n \in 1..(k + 1) /\ r = [type |-> r.type, n |-> r.n]
    OBVIOUS
  <2>2. CASE r.n = k + 1
    BY <2>1, <2>2
  <2>3. CASE r.n \in 1..k
    BY <2>1, <2>3
  <2> QED
    BY <2>1, <2>2, <2>3
<1>2. [type : {t}, n : 1..k] \subseteq [type : {t}, n : 1..(k + 1)]
  <2>1. 1..k \subseteq 1..(k + 1)
    OBVIOUS
  <2> QED
    BY <2>1
<1>3. new \in [type : {t}, n : 1..(k + 1)]
  OBVIOUS
<1> HIDE DEF new
<1>4. [type : {t}, n : 1..(k + 1)] = [type : {t}, n : 1..k] \cup {new}
  BY <1>1, <1>2, <1>3
<1> QED
  BY <1>4 DEF new

\* One more has been sent.
LEMMA SentGrows ==
    ASSUME TypeOK
    PROVE  /\ urlMsgs' = urlMsgs + 1 /\ uiMsgs' = uiMsgs =>
                 Sent' = Sent \cup {[type |-> "url", n |-> urlMsgs + 1]}
           /\ urlMsgs' = urlMsgs /\ uiMsgs' = uiMsgs + 1 =>
                 Sent' = Sent \cup {[type |-> "webapp", n |-> uiMsgs + 1]}
<1>1. urlMsgs \in Nat /\ uiMsgs \in Nat
  BY BoundsAssumption DEF TypeOK
<1>2. ASSUME urlMsgs' = urlMsgs + 1, uiMsgs' = uiMsgs
      PROVE  Sent' = Sent \cup {[type |-> "url", n |-> urlMsgs + 1]}
  <2>1. [type : {"url"}, n : 1..urlMsgs'] =
            [type : {"url"}, n : 1..urlMsgs] \cup {[type |-> "url", n |-> urlMsgs + 1]}
    BY <1>1, <1>2, OneMoreRecord
  <2> QED
    BY <1>2, <2>1 DEF Sent
<1>3. ASSUME urlMsgs' = urlMsgs, uiMsgs' = uiMsgs + 1
      PROVE  Sent' = Sent \cup {[type |-> "webapp", n |-> uiMsgs + 1]}
  <2>1. [type : {"webapp"}, n : 1..uiMsgs'] =
            [type : {"webapp"}, n : 1..uiMsgs] \cup {[type |-> "webapp", n |-> uiMsgs + 1]}
    BY <1>1, <1>3, OneMoreRecord
  <2> QED
    BY <1>3, <2>1 DEF Sent
<1> QED
  BY <1>2, <1>3

\* A message is handled that was read or queued.
LEMMA HandledPlaces ==
    ASSUME TypeOK, PlacesInv, UNCHANGED <<urlMsgs, uiMsgs>>, NEW m \in Msgs, m.type # "cookie",
           handled' = Append(handled, m),
           \/ stdin # <<>> /\ m = Head(stdin) /\ stdin' = Tail(stdin) /\ UNCHANGED msgQueue
           \/ msgQueue # <<>> /\ m = Head(msgQueue) /\ msgQueue' = Tail(msgQueue)
              /\ UNCHANGED stdin
    PROVE  PlacesInv'
<1> USE DEF PlacesInv, EachIsInOnePlace, CommandsFollow
<1>1. stdin \in Seq(Msgs) /\ msgQueue \in Seq(Msgs) /\ handled \in Seq(Msgs)
  BY DEF TypeOK
<1>2. Sent' = Sent /\ Sent \subseteq Msgs
  BY SentFacts
<1>3. \A x : In(handled', x) <=> In(handled, x) \/ x = m
  BY <1>1, Put
<1>4. CASE stdin # <<>> /\ m = Head(stdin) /\ stdin' = Tail(stdin) /\ UNCHANGED msgQueue
  <2>1. /\ \A x : In(stdin, x) <=> In(stdin', x) \/ x = m
        /\ Distinct(stdin') /\ ~In(stdin', m)
        /\ Ascending(stdin')
        /\ \A x : In(stdin', x) /\ x.type = "webapp" /\ m.type = "webapp" => m.n < x.n
    BY <1>1, <1>4, Taken
  <2>2. m \in Sent /\ ~In(msgQueue, m) /\ ~In(handled, m)
    BY <2>1
  <2>3. Distinct(handled') /\ Ascending(handled')
    <3>1. \A x \in Msgs : In(handled, x) /\ x.type = "webapp" /\ m.type = "webapp" => x.n < m.n
      BY <2>1
    <3> QED
      BY <1>1, <2>2, <3>1, Put
  <2>4. EachIsInOnePlace'
    BY <1>2, <1>3, <1>4, <2>1, <2>2, <2>3
  <2>5. CommandsFollow'
    BY <1>3, <2>1, <2>3
  <2> QED
    BY <2>4, <2>5
<1>5. CASE msgQueue # <<>> /\ m = Head(msgQueue) /\ msgQueue' = Tail(msgQueue) /\ UNCHANGED stdin
  <2>1. /\ \A x : In(msgQueue, x) <=> In(msgQueue', x) \/ x = m
        /\ Distinct(msgQueue') /\ ~In(msgQueue', m)
    BY <1>1, <1>5, Taken
  <2>2. m \in Sent /\ m.type = "url" /\ ~In(stdin, m) /\ ~In(handled, m)
    BY <2>1
  <2>3. Distinct(handled') /\ Ascending(handled')
    BY <1>1, <2>2, Put
  <2>4. EachIsInOnePlace'
    BY <1>2, <1>3, <1>5, <2>1, <2>2, <2>3
  <2>5. CommandsFollow'
    BY <1>3, <1>5, <2>2, <2>3
  <2> QED
    BY <2>4, <2>5
<1> QED
  BY <1>4, <1>5

\* A message is read and queued.
LEMMA QueuedPlaces ==
    ASSUME TypeOK, PlacesInv, UNCHANGED <<urlMsgs, uiMsgs, handled>>, stdin # <<>>,
           Head(stdin).type = "url", stdin' = Tail(stdin),
           msgQueue' = Append(msgQueue, Head(stdin))
    PROVE  PlacesInv'
<1> DEFINE m == Head(stdin)
<1> USE DEF PlacesInv, EachIsInOnePlace, CommandsFollow
<1>1. stdin \in Seq(Msgs) /\ msgQueue \in Seq(Msgs)
  BY DEF TypeOK
<1>2. Sent' = Sent /\ Sent \subseteq Msgs
  BY SentFacts
<1>3. /\ m \in Msgs /\ \A x : In(stdin, x) <=> In(stdin', x) \/ x = m
      /\ Distinct(stdin') /\ ~In(stdin', m) /\ Ascending(stdin')
  BY <1>1, Taken
<1>4. m \in Sent /\ ~In(msgQueue, m) /\ ~In(handled, m)
  BY <1>3
<1>5. /\ \A x : In(msgQueue', x) <=> In(msgQueue, x) \/ x = m
      /\ Distinct(msgQueue')
  BY <1>1, <1>3, <1>4, Put
<1> HIDE DEF m
<1>6. EachIsInOnePlace'
  BY <1>2, <1>3, <1>4, <1>5 DEF m
<1>7. CommandsFollow'
  BY <1>3
<1> QED
  BY <1>6, <1>7

\* An answer for a script is taken from the pipe.
LEMMA AnswerPlaces ==
    ASSUME TypeOK, PlacesInv, UNCHANGED <<urlMsgs, uiMsgs, handled, msgQueue>>, stdin # <<>>,
           Head(stdin).type = "cookie", stdin' = Tail(stdin)
    PROVE  PlacesInv'
<1> USE DEF PlacesInv, EachIsInOnePlace, CommandsFollow
<1>1. stdin \in Seq(Msgs)
  BY DEF TypeOK
<1>2. Sent' = Sent /\ Sent \subseteq Msgs /\ \A m \in Sent : m.type # "cookie"
  BY SentFacts
<1>3. /\ \A x : In(stdin, x) <=> In(stdin', x) \/ x = Head(stdin)
      /\ Distinct(stdin') /\ Ascending(stdin')
  BY <1>1, Taken
<1>4. EachIsInOnePlace'
  BY <1>2, <1>3
<1>5. CommandsFollow'
  BY <1>3
<1> QED
  BY <1>4, <1>5

\* Another process writes a message into the pipe.
LEMMA ArrivalPlaces ==
    ASSUME TypeOK, TypeOK', PlacesInv, UNCHANGED <<handled, msgQueue>>, NEW m \in Msgs,
           stdin' = Append(stdin, m),
           Sent' = Sent \cup (IF m.type = "cookie" THEN {} ELSE {m}),
           m \notin Sent, m.type = "webapp" => m.n > uiMsgs
    PROVE  PlacesInv'
<1> USE DEF PlacesInv, EachIsInOnePlace, CommandsFollow
<1>1. stdin \in Seq(Msgs)
  BY DEF TypeOK
<1>2. /\ Sent \subseteq Msgs
      /\ \A x \in Msgs : x \in Sent /\ x.type = "webapp" => x.n <= uiMsgs /\ x.n \in Nat
  BY SentFacts
<1>3. \A x : In(stdin', x) <=> In(stdin, x) \/ x = m
  BY <1>1, Put
<1>4. m.type = "webapp" => m.n \in Int /\ uiMsgs \in Int
  BY DEF TypeOK, Msgs
<1>5. m.type = "cookie" \/ ~In(stdin, m)
  OBVIOUS
<1>6. \A x \in Msgs : In(stdin, x) \/ In(handled, x) =>
          (x.type = "webapp" /\ m.type = "webapp" => x.n < m.n)
  BY <1>2, <1>4
<1>7. Distinct(stdin') /\ Ascending(stdin')
  BY <1>1, <1>5, <1>6, Put
<1>8. EachIsInOnePlace'
  BY <1>3, <1>7
<1>9. CommandsFollow'
  BY <1>3, <1>6, <1>7
<1> QED
  BY <1>8, <1>9

LEMMA InitPlaces == Init => PlacesInv
<1> SUFFICES ASSUME Init PROVE PlacesInv
  OBVIOUS
<1>1. DOMAIN stdin = {} /\ DOMAIN msgQueue = {} /\ DOMAIN handled = {}
  BY DEF Init
<1>2. Sent = {}
  BY DEF Init, Sent
<1> QED
  BY <1>1, <1>2 DEF PlacesInv, EachIsInOnePlace, CommandsFollow, In, Distinct, Ascending

LEMMA PlacesStep == IInv /\ PlacesInv /\ [Next]_vars => PlacesInv'
<1> SUFFICES ASSUME IInv, PlacesInv, [Next]_vars PROVE PlacesInv'
  OBVIOUS
<1>1. TypeOK /\ TypeOK'
  BY NextStep DEF IInv
<1>2. ASSUME UNCHANGED <<stdin, msgQueue, handled, urlMsgs, uiMsgs>> PROVE PlacesInv'
  BY <1>2 DEF PlacesInv, EachIsInOnePlace, CommandsFollow, Sent
<1>3. CASE Drain
  <2>1. /\ msgQueue # <<>> /\ msgQueue' = Tail(msgQueue)
        /\ UNCHANGED <<stdin, urlMsgs, uiMsgs>> /\ DispatchMsg(Head(msgQueue))
    BY <1>3 DEF Drain, QueueTaken, pipes
  <2>2. Head(msgQueue) \in Msgs /\ Head(msgQueue).type # "cookie"
    BY <1>1, <2>1 DEF TypeOK, IInv, NoAnswerQueued
  <2>3. handled' = Append(handled, Head(msgQueue))
    BY <2>1, <2>2 DEF DispatchMsg
  <2> QED
    BY <1>1, <2>1, <2>2, <2>3, HandledPlaces
<1>4. CASE Read
  <2>1. stdin # <<>> /\ stdin' = Tail(stdin) /\ UNCHANGED <<urlMsgs, uiMsgs>>
    BY <1>4 DEF Read, pipes
  <2>2. Head(stdin) \in Msgs
    BY <1>1, <2>1 DEF TypeOK
  <2>3. CASE Deferred(Head(stdin))
    <3>1. msgQueue' = Append(msgQueue, Head(stdin)) /\ UNCHANGED handled
          /\ Head(stdin).type = "url"
      BY <1>4, <2>3 DEF Read, Deferred
    <3> QED
      BY <1>1, <2>1, <3>1, QueuedPlaces
  <2>4. CASE ~Deferred(Head(stdin)) /\ Head(stdin).type = "cookie"
    <3>1. UNCHANGED <<msgQueue, handled>>
      BY <1>4, <2>4 DEF Read, DispatchMsg
    <3> QED
      BY <1>1, <2>1, <2>4, <3>1, AnswerPlaces
  <2>5. CASE ~Deferred(Head(stdin)) /\ Head(stdin).type # "cookie"
    <3>1. UNCHANGED msgQueue /\ handled' = Append(handled, Head(stdin))
      BY <1>4, <2>5 DEF Read, DispatchMsg
    <3> QED
      BY <1>1, <2>1, <2>2, <2>5, <3>1, HandledPlaces
  <2> QED
    BY <2>3, <2>4, <2>5
<1>5. CASE NetworkSends
  <2> DEFINE m == [type |-> "url", n |-> urlMsgs + 1]
  <2>1. /\ stdin' = Append(stdin, m) /\ UNCHANGED <<handled, msgQueue, uiMsgs>>
        /\ urlMsgs' = urlMsgs + 1 /\ urlMsgs' \in 1..MaxUrlMsgs
    BY <1>1, <1>5, BoundsAssumption DEF NetworkSends, TypeOK
  <2>2. m \in Msgs /\ m.type = "url" /\ m \notin Sent
    BY <1>1, <2>1 DEF Msgs, Sent, TypeOK
  <2>3. Sent' = Sent \cup {m}
    BY <1>1, <2>1, SentGrows
  <2> HIDE DEF m
  <2> QED
    BY <1>1, <2>1, <2>2, <2>3, ArrivalPlaces
<1>6. CASE UISends
  <2> DEFINE m == [type |-> "webapp", n |-> uiMsgs + 1]
  <2>1. /\ stdin' = Append(stdin, m) /\ UNCHANGED <<handled, msgQueue, urlMsgs>>
        /\ uiMsgs' = uiMsgs + 1 /\ uiMsgs' \in 1..MaxUiMsgs
    BY <1>1, <1>6, BoundsAssumption DEF UISends, TypeOK
  <2>2. m \in Msgs /\ m.type = "webapp" /\ m \notin Sent /\ m.n > uiMsgs
    BY <1>1, <2>1 DEF Msgs, Sent, TypeOK
  <2>3. Sent' = Sent \cup {m}
    BY <1>1, <2>1, SentGrows
  <2> HIDE DEF m
  <2> QED
    BY <1>1, <2>1, <2>2, <2>3, ArrivalPlaces
<1>7. CASE CookieAnswers
  <2> DEFINE m == [type |-> "cookie", n |-> Head(asked)]
  <2>1. stdin' = Append(stdin, m) /\ UNCHANGED <<handled, msgQueue, urlMsgs, uiMsgs>>
        /\ Head(asked) \in 1..MaxReqs
    <3>1. asked \in Seq(1..MaxReqs) /\ asked # <<>>
      BY <1>1, <1>7 DEF CookieAnswers, TypeOK
    <3>2. Head(asked) \in 1..MaxReqs
      BY <3>1, HeadIn
    <3> QED
      BY <1>7, <3>2 DEF CookieAnswers
  <2>2. m \in Msgs /\ m.type = "cookie" /\ m \notin Sent
    BY <2>1 DEF Msgs, Sent
  <2>3. Sent' = Sent
    BY <2>1 DEF Sent
  <2> HIDE DEF m
  <2> QED
    BY <1>1, <2>1, <2>2, <2>3, ArrivalPlaces
<1>8. CASE DrainEnds \/ ReadEnds \/ ScriptEnds \/ CookiesForUrl \/ WaitEnds \/ DataReadable
           \/ PostedCall \/ Timer \/ UNCHANGED vars
  BY <1>2, <1>8 DEF DrainEnds, ReadEnds, ScriptEnds, CookiesForUrl, WaitEnds, DataReadable,
                    PostedCall, Timer, pipes, vars
<1> QED
  BY <1>3, <1>4, <1>5, <1>6, <1>7, <1>8 DEF Next, Returns

\* The number of places of a message in a sequence
LEMMA Places ==
    ASSUME NEW s \in Seq(Msgs), NEW m, m.type # "cookie", Distinct(s)
    PROVE  Cardinality({i \in DOMAIN s : s[i] = m}) = IF In(s, m) THEN 1 ELSE 0
<1>1. CASE ~In(s, m)
  <2>1. {i \in DOMAIN s : s[i] = m} = {}
    BY <1>1 DEF In
  <2> QED
    BY <1>1, <2>1, FS_EmptySet
<1>2. CASE In(s, m)
  <2>1. PICK i \in DOMAIN s : s[i] = m
    BY <1>2 DEF In
  <2>2. {j \in DOMAIN s : s[j] = m} = {i}
    BY <2>1 DEF Distinct
  <2> QED
    BY <1>2, <2>2, FS_Singleton
<1> QED
  BY <1>1, <1>2

\* No message of the network process or the UI is lost, and none is handled twice,
\* for any number of messages, waits and handlers (activated and dispatchMsg).
THEOREM EveryMessageOnce == Spec => []NothingLostOrDoubled
<1>1. IInv /\ PlacesInv => NothingLostOrDoubled
  <2> SUFFICES ASSUME IInv, PlacesInv, NEW m \in Sent
               PROVE  Cardinality({i \in DOMAIN stdin : stdin[i] = m})
                      + Cardinality({i \in DOMAIN msgQueue : msgQueue[i] = m})
                      + Cardinality({i \in DOMAIN handled : handled[i] = m}) = 1
    BY DEF NothingLostOrDoubled, Sent
  <2>1. /\ stdin \in Seq(Msgs) /\ msgQueue \in Seq(Msgs) /\ handled \in Seq(Msgs)
        /\ m \in Msgs /\ m.type # "cookie"
    BY SentFacts DEF IInv, TypeOK
  <2>2. Distinct(stdin) /\ Distinct(msgQueue) /\ Distinct(handled)
    BY DEF PlacesInv, EachIsInOnePlace
  <2>3. \/ In(stdin, m) /\ ~In(msgQueue, m) /\ ~In(handled, m)
        \/ ~In(stdin, m) /\ In(msgQueue, m) /\ ~In(handled, m)
        \/ ~In(stdin, m) /\ ~In(msgQueue, m) /\ In(handled, m)
    BY <2>1 DEF PlacesInv, EachIsInOnePlace
  <2> QED
    BY <2>1, <2>2, <2>3, Places
<1>2. Init => IInv /\ PlacesInv
  BY InitIInv, InitPlaces
<1>3. (IInv /\ PlacesInv) /\ [Next]_vars => (IInv /\ PlacesInv)'
  BY NextStep, PlacesStep
<1> QED
  BY <1>1, <1>2, <1>3, PTL DEF Spec

\* The UI's commands are carried out in the order in which it sent them, whatever
\* they overtake in the queue.
THEOREM CommandsKeepTheirOrder == Spec => []CommandsInOrder
<1>1. IInv /\ PlacesInv => CommandsInOrder
  BY DEF PlacesInv, CommandsFollow, Ascending, CommandsInOrder
<1>2. Init => IInv /\ PlacesInv
  BY InitIInv, InitPlaces
<1>3. (IInv /\ PlacesInv) /\ [Next]_vars => (IInv /\ PlacesInv)'
  BY NextStep, PlacesStep
<1> QED
  BY <1>1, <1>2, <1>3, PTL DEF Spec

-----------------------------------------------------------------------------
\* Nothing of the network process is handled while somebody waits

\* Calls that do not empty the queue go on top of anything.
LEMMA PushAbove ==
    ASSUME NEW s \in Seq(Frames), NEW f \in Frames, NoWaitBelow(s),
           f.at \notin {"drain", "flush"} \/ WaitsOf(s) = {}
    PROVE  <<f>> \o s \in Seq(Frames) /\ NoWaitBelow(<<f>> \o s)
<1> DEFINE t == <<f>> \o s
<1>1. /\ t \in Seq(Frames)
      /\ Len(s) \in Nat
      /\ DOMAIN t = 1..(Len(s) + 1) /\ DOMAIN s = 1..Len(s)
      /\ t[1] = f
      /\ \A i \in 2..(Len(s) + 1) : t[i] = s[i - 1]
  BY PushFacts
<1> HIDE DEF t
<1>2. ASSUME NEW i \in DOMAIN t, NEW j \in DOMAIN t, i < j, t[i].at \in {"drain", "flush"}
      PROVE  t[j].at # "wait"
  <2>1. j - 1 \in DOMAIN s /\ t[j] = s[j - 1]
    BY <1>1, <1>2
  <2>2. CASE i = 1
    BY <1>1, <1>2, <2>1, <2>2 DEF WaitsOf
  <2>3. CASE i # 1
    <3>1. i - 1 \in DOMAIN s /\ t[i] = s[i - 1] /\ i - 1 < j - 1
      BY <1>1, <1>2, <2>3
    <3> QED
      BY <1>2, <2>1, <3>1 DEF NoWaitBelow
  <2> QED
    BY <2>2, <2>3
<1> QED
  BY <1>1, <1>2 DEF NoWaitBelow, t

\* A call returns; if it was emptying the queue, nobody waits.
LEMMA PopBelow ==
    ASSUME NEW s \in Seq(Frames), s # <<>>, NoWaitBelow(s)
    PROVE  /\ Tail(s) \in Seq(Frames) /\ NoWaitBelow(Tail(s))
           /\ Head(s).at \in {"drain", "flush"} => WaitsOf(s) = {}
<1> DEFINE t == Tail(s)
<1>1. /\ t \in Seq(Frames)
      /\ Head(s) = s[1] /\ Len(s) \in Nat \ {0}
      /\ DOMAIN s = 1..Len(s) /\ DOMAIN t = 1..(Len(s) - 1)
      /\ \A i \in 1..(Len(s) - 1) : t[i] = s[i + 1]
  OBVIOUS
<1> HIDE DEF t
<1>2. NoWaitBelow(t)
  <2> SUFFICES ASSUME NEW i \in DOMAIN t, NEW j \in DOMAIN t, i < j,
                      t[i].at \in {"drain", "flush"}
               PROVE  t[j].at # "wait"
    BY DEF NoWaitBelow
  <2>1. /\ i + 1 \in DOMAIN s /\ j + 1 \in DOMAIN s /\ i + 1 < j + 1
        /\ t[i] = s[i + 1] /\ t[j] = s[j + 1]
    BY <1>1
  <2> QED
    BY <2>1 DEF NoWaitBelow
<1>3. ASSUME Head(s).at \in {"drain", "flush"} PROVE WaitsOf(s) = {}
  <2>1. 1 \in DOMAIN s /\ s[1].at \in {"drain", "flush"}
    BY <1>1, <1>3
  <2>2. \A j \in DOMAIN s : j = 1 \/ 1 < j
    BY <1>1
  <2> QED
    BY <2>1, <2>2 DEF NoWaitBelow, WaitsOf
<1> QED
  BY <1>1, <1>2, <1>3 DEF t

\* The frames of the model
LEMMA FramesAre ==
    /\ \A at \in {"drain", "flush", "read", "script"} : Frame(at) \in Frames /\ Frame(at).at = at
    /\ \A r \in 1..MaxReqs : [at |-> "wait", req |-> r] \in Frames
BY DEF Frame, Frames

\* Every step keeps DrainsInv.
LEMMA DrainsStep == IInv /\ DrainsInv /\ [Next]_vars => DrainsInv'
<1> SUFFICES ASSUME IInv, DrainsInv, [Next]_vars PROVE DrainsInv'
  OBVIOUS
<1>1. stack \in Seq(Frames) /\ NoWaitBelow(stack)
  BY DEF IInv, TypeOK, DrainsInv
<1>2. ~waitForReply => WaitsOf(stack) = {}
  BY DEF IInv, FlagMeansWaiting, Waits
<1>3. CASE stack' = stack
  BY <1>3 DEF DrainsInv
<1>4. ASSUME NEW at \in {"drain", "flush", "read", "script"}, stack' = Push(Frame(at)),
             at \in {"drain", "flush"} => ~waitForReply
      PROVE  DrainsInv'
  BY <1>1, <1>2, <1>4, FramesAre, PushAbove DEF Push, DrainsInv
<1>5. CASE stack # <<>> /\ stack' = Tail(stack)
  BY <1>1, <1>5, PopBelow DEF DrainsInv
<1>6. CASE stack # <<>> /\ stack' = <<Frame("read")>> \o Tail(stack)
  <2>1. Tail(stack) \in Seq(Frames) /\ NoWaitBelow(Tail(stack))
    BY <1>1, <1>6, PopBelow
  <2> QED
    BY <1>6, <2>1, FramesAre, PushAbove DEF DrainsInv
<1>7. CASE CookiesForUrl
  <2> DEFINE w == [at |-> "wait", req |-> lastReqId + 1]
  <2>1. w \in Frames /\ w.at = "wait"
    <3>1. lastReqId + 1 \in 1..MaxReqs
      BY <1>7, BoundsAssumption DEF CookiesForUrl, IInv, TypeOK
    <3> QED
      BY <3>1, FramesAre
  <2>2. stack' = <<Frame("read"), w>> \o stack
    BY <1>7 DEF CookiesForUrl
  <2> HIDE DEF w
  <2>3. <<w>> \o stack \in Seq(Frames) /\ NoWaitBelow(<<w>> \o stack)
    BY <1>1, <2>1, PushAbove
  <2>4. stack' = <<Frame("read")>> \o (<<w>> \o stack)
    <3>1. Frame("read") \in Frames
      BY FramesAre
    <3> QED
      BY <1>1, <2>1, <2>2, <3>1
  <2> QED
    BY <2>3, <2>4, FramesAre, PushAbove DEF DrainsInv
<1>8. CASE Drain \/ Read
  <2>1. stack' = stack \/ stack' = Push(Frame("script"))
    BY <1>8 DEF Drain, Read, DispatchMsg
  <2> QED
    BY <1>3, <1>4, <2>1
<1>9. CASE DrainEnds \/ ReadEnds \/ ScriptEnds \/ WaitEnds
  <2>1. \/ stack # <<>> /\ stack' = Tail(stack)
        \/ stack # <<>> /\ stack' = <<Frame("read")>> \o Tail(stack)
    BY <1>9 DEF DrainEnds, ReadEnds, ScriptEnds, WaitEnds, Top
  <2> QED
    BY <1>5, <1>6, <2>1
<1>10. CASE DataReadable
  <2>1. CASE waitForReply
    BY <1>4, <1>10, <2>1 DEF DataReadable, Reading
  <2>2. CASE ~waitForReply
    BY <1>4, <1>10, <2>2 DEF DataReadable, Reading
  <2> QED
    BY <2>1, <2>2
<1>11. CASE PostedCall
  BY <1>3, <1>4, <1>11 DEF PostedCall
<1>12. CASE Timer
  BY <1>4, <1>12 DEF Timer
<1>13. CASE NetworkSends \/ UISends \/ CookieAnswers \/ UNCHANGED vars
  BY <1>3, <1>13 DEF NetworkSends, UISends, CookieAnswers, vars
<1> QED
  BY <1>7, <1>8, <1>9, <1>10, <1>11, <1>12, <1>13 DEF Next, Returns

\* While a script waits for its cookies, whatever its nested event loops run, no
\* message of the network process reaches the page (OpNetwork::activated).
THEOREM NoPageDataUnderScripts == Spec => NoPageDataDuringWait
<1>1. Init => DrainsInv
  BY DEF Init, DrainsInv, NoWaitBelow
<1>2. IInv /\ DrainsInv /\ [Next]_vars =>
         (waitForReply => \A i \in PageData(handled') :
                             i \in PageData(handled) /\ handled'[i] = handled[i])
  <2> SUFFICES ASSUME IInv, DrainsInv, [Next]_vars, waitForReply
               PROVE  \A i \in PageData(handled') :
                         i \in PageData(handled) /\ handled'[i] = handled[i]
    OBVIOUS
  <2>1. handled \in Seq(Msgs) /\ stack \in Seq(Frames)
    BY DEF IInv, TypeOK
  <2>2. ~Drain
    <3>1. SUFFICES ASSUME Drain PROVE FALSE
      OBVIOUS
    <3>2. WaitsOf(stack) # {}
      BY DEF IInv, FlagMeansWaiting, Waits
    <3>3. stack # <<>> /\ Head(stack).at \in {"drain", "flush"}
      BY <3>1 DEF Drain, Top
    <3> QED
      BY <2>1, <3>2, <3>3, PopBelow DEF DrainsInv
  <2>3. CASE handled' = handled
    BY <2>3
  <2>4. CASE Read
    <3> DEFINE m == Head(stdin)
    <3>1. m \in Msgs
      BY <2>4 DEF Read, IInv, TypeOK
    <3>2. handled' = handled \/ (m.type # "url" /\ handled' = Append(handled, m))
      BY <2>4 DEF Read, Deferred, DispatchMsg
    <3> HIDE DEF m
    <3>3. CASE m.type # "url" /\ handled' = Append(handled, m)
      <4>1. /\ DOMAIN handled = 1..Len(handled) /\ Len(handled) \in Nat
            /\ DOMAIN handled' = 1..(Len(handled) + 1)
            /\ handled'[Len(handled) + 1] = m
            /\ \A i \in DOMAIN handled : handled'[i] = handled[i]
        BY <2>1, <3>1, <3>3
      <4> QED
        BY <3>3, <4>1 DEF PageData
    <3> QED
      BY <2>3, <3>2, <3>3
  <2>5. Drain \/ Read \/ handled' = handled
    BY DEF Next, Returns, DrainEnds, ReadEnds, ScriptEnds, CookiesForUrl, WaitEnds,
           DataReadable, PostedCall, Timer, NetworkSends, UISends, CookieAnswers, vars
  <2> QED
    BY <2>2, <2>3, <2>4, <2>5
<1>3. Init => IInv /\ DrainsInv
  BY <1>1, InitIInv
<1>4. (IInv /\ DrainsInv) /\ [Next]_vars => (IInv /\ DrainsInv)'
  BY NextStep, DrainsStep
<1> QED
  BY <1>2, <1>3, <1>4, PTL DEF Spec, NoPageDataDuringWait

-----------------------------------------------------------------------------
\* The pump never stalls

\* Whoever is called, the calls that empty the queue stay below.
LEMMA DrainersBelow ==
    ASSUME NEW s \in Seq(Frames), NEW f \in Frames,
           Drainers(s) # {} \/ f.at \in {"drain", "flush"}
    PROVE  Drainers(<<f>> \o s) # {}
<1> DEFINE t == <<f>> \o s
<1>1. /\ Len(s) \in Nat
      /\ DOMAIN t = 1..(Len(s) + 1) /\ DOMAIN s = 1..Len(s)
      /\ t[1] = f
      /\ \A i \in 1..Len(s) : t[i + 1] = s[i]
  BY PushFacts
<1> HIDE DEF t
<1>2. CASE f.at \in {"drain", "flush"}
  <2>1. 1 \in Drainers(t)
    BY <1>1, <1>2 DEF Drainers
  <2> QED
    BY <2>1 DEF t
<1>3. CASE Drainers(s) # {}
  <2>1. PICK i \in DOMAIN s : s[i].at \in {"drain", "flush"}
    BY <1>3 DEF Drainers
  <2>2. i + 1 \in Drainers(t)
    BY <1>1, <2>1 DEF Drainers
  <2> QED
    BY <2>2 DEF t
<1> QED
  BY <1>2, <1>3

\* A call that returns and was not emptying the queue leaves those that do.
LEMMA DrainersStay ==
    ASSUME NEW s \in Seq(Frames), s # <<>>, Drainers(s) # {},
           Head(s).at \notin {"drain", "flush"}
    PROVE  Drainers(Tail(s)) # {}
<1> DEFINE t == Tail(s)
<1>1. /\ Head(s) = s[1] /\ Len(s) \in Nat \ {0}
      /\ DOMAIN s = 1..Len(s) /\ DOMAIN t = 1..(Len(s) - 1)
      /\ \A i \in 1..(Len(s) - 1) : t[i] = s[i + 1]
  OBVIOUS
<1> HIDE DEF t
<1>2. PICK i \in DOMAIN s : s[i].at \in {"drain", "flush"}
  BY DEF Drainers
<1>3. i \in 2..Len(s)
  BY <1>1, <1>2
<1>4. i - 1 \in DOMAIN t /\ t[i - 1] = s[i]
  BY <1>1, <1>3
<1>5. i - 1 \in Drainers(t)
  BY <1>2, <1>4 DEF Drainers
<1> QED
  BY <1>5 DEF t

\* Every step leaves a queue that is not empty with somebody to empty it.
LEMMA QueueStep == IInv /\ QueueHasDrainer /\ [Next]_vars => QueueHasDrainer'
<1> SUFFICES ASSUME IInv, QueueHasDrainer, [Next]_vars, msgQueue' # <<>>
             PROVE  waitForReply' \/ posted' > 0 \/ Drainers(stack') # {}
  BY DEF QueueHasDrainer
<1>1. stack \in Seq(Frames) /\ posted \in Nat /\ stdin \in Seq(Msgs)
  BY DEF IInv, TypeOK
<1>2. ASSUME NEW at \in {"drain", "flush", "read", "script"}, stack' = Push(Frame(at)),
             Drainers(stack) # {} \/ at \in {"drain", "flush"}
      PROVE  Drainers(stack') # {}
  BY <1>1, <1>2, FramesAre, DrainersBelow DEF Push
<1>3. CASE UNCHANGED <<waitForReply, posted, msgQueue>>
           /\ (stack' = stack \/ \E at \in {"read", "drain", "script"} : stack' = Push(Frame(at)))
  BY <1>2, <1>3 DEF QueueHasDrainer
<1>4. CASE Drain
  <2>1. 1 \in Drainers(stack)
    <3>1. stack # <<>> /\ Head(stack).at \in {"drain", "flush"}
      BY <1>4 DEF Drain, Top
    <3>2. 1 \in DOMAIN stack /\ stack[1] = Head(stack)
      BY <1>1, <3>1
    <3> QED
      BY <3>1, <3>2 DEF Drainers
  <2>2. stack' = stack \/ stack' = Push(Frame("script"))
    BY <1>4 DEF Drain, DispatchMsg
  <2> QED
    BY <1>2, <2>1, <2>2
<1>5. CASE DrainEnds
  BY <1>5 DEF DrainEnds
<1>6. CASE Read
  <2>1. CASE Deferred(Head(stdin))
    BY <1>6, <2>1 DEF Read, Deferred
  <2>2. CASE ~Deferred(Head(stdin))
    BY <1>3, <1>6, <2>2 DEF Read, DispatchMsg
  <2> QED
    BY <2>1, <2>2
<1>7. CASE ReadEnds \/ ScriptEnds
  <2>1. /\ stack # <<>> /\ Head(stack).at \notin {"drain", "flush"}
        /\ stack' = Tail(stack) /\ UNCHANGED <<waitForReply, posted, msgQueue>>
    BY <1>7 DEF ReadEnds, ScriptEnds, Top
  <2> QED
    BY <1>1, <2>1, DrainersStay DEF QueueHasDrainer
<1>8. CASE CookiesForUrl
  BY <1>8 DEF CookiesForUrl
<1>9. CASE WaitEnds
  BY <1>1, <1>9 DEF WaitEnds, PostActivated
<1>10. CASE DataReadable \/ Timer
  <2>1. Reading = Frame("read") \/ Reading = Frame("drain")
    BY DEF Reading
  <2> QED
    BY <1>3, <1>10, <2>1 DEF DataReadable, Timer
<1>11. CASE PostedCall
  BY <1>2, <1>11 DEF PostedCall
<1>12. CASE NetworkSends \/ UISends \/ CookieAnswers \/ UNCHANGED vars
  BY <1>3, <1>12 DEF NetworkSends, UISends, CookieAnswers, vars
<1> QED
  BY <1>4, <1>5, <1>6, <1>7, <1>8, <1>9, <1>10, <1>11, <1>12 DEF Next, Returns

\* However deep the waits are nested: when no call, no event and no answer is
\* left to run, every call of cookiesForUrl has returned and every message of the
\* network process and the UI was handled.  Nothing is forgotten in m_msgQueue and
\* no script waits for an answer that does not come.
THEOREM PumpNeverStalls == Spec => []NothingIsStuck
<1>1. IInv /\ PlacesInv /\ QueueHasDrainer => NothingIsStuck
  <2> SUFFICES ASSUME IInv, PlacesInv, QueueHasDrainer, ~CanStep
               PROVE  stack = <<>> /\ \A m \in Sent : In(handled, m)
    BY DEF NothingIsStuck
  <2>1. /\ stack \in Seq(Frames) /\ NewestOnTop(stack)
        /\ posted \in Nat
    BY DEF IInv, TypeOK
  <2>2. InEventLoop
    BY DEF CanStep, InEventLoop
  <2>3. stdin = <<>> /\ posted = 0 /\ asked = <<>>
    BY <2>1, <2>2 DEF CanStep
  <2>4. stack = <<>>
    <3>1. SUFFICES ASSUME stack # <<>> PROVE FALSE
      OBVIOUS
    <3>2. Top("wait")
      BY <2>2, <3>1 DEF InEventLoop
    <3>3. Head(stack).req \in WaitReqs
      BY <2>1, <3>1, <3>2, PopFacts DEF Top, WaitReqs
    <3>4. WaitReqs \subseteq cookieMap
      BY <2>3 DEF IInv, WaitersAreAnswered, Answers
    <3> QED
      BY <3>2, <3>3, <3>4 DEF CanStep
  <2>5. ~waitForReply
    BY <2>4 DEF IInv, FlagMeansWaiting, Waits, WaitsOf
  <2>6. msgQueue = <<>>
    BY <2>3, <2>4, <2>5 DEF QueueHasDrainer, Drainers
  <2>7. \A m \in Sent : ~In(stdin, m) /\ ~In(msgQueue, m)
    BY <2>3, <2>6 DEF In
  <2> QED
    BY <2>4, <2>7 DEF PlacesInv, EachIsInOnePlace
<1>2. Init => IInv /\ PlacesInv /\ QueueHasDrainer
  BY InitIInv, InitPlaces DEF Init, QueueHasDrainer
<1>3. (IInv /\ PlacesInv /\ QueueHasDrainer) /\ [Next]_vars
      => (IInv /\ PlacesInv /\ QueueHasDrainer)'
  BY NextStep, PlacesStep, QueueStep
<1> QED
  BY <1>1, <1>2, <1>3, PTL DEF Spec
=============================================================================
