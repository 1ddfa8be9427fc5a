----------------------------- MODULE OpNetwork -----------------------------
(***************************************************************************)
(* The message pump of a web-app process (webapp/op2/OpNetwork.cpp).       *)
(*                                                                         *)
(* A script that reads document.cookie calls cookiesForUrl, which asks the *)
(* cookie process and runs a nested event loop until the answer is there.  *)
(* Events of that loop run handlers and scripts, which may ask for cookies *)
(* again.  While anybody waits, `activated' dispatches answers and UI      *)
(* commands only and puts every other message into m_msgQueue.             *)
(*                                                                         *)
(* The C++ call stack is the variable stack: the top frame runs, and the   *)
(* event loop runs when the stack is empty or a `wait' frame is on top.    *)
(* The kernel and the cookie process are the FIFO pipes stdin and asked.   *)
(*                                                                         *)
(* FAULT marks a slip in the definition below it, as in WebAppMgr.         *)
(***************************************************************************)
EXTENDS Integers, Sequences, FiniteSets

CONSTANTS
    MaxReqs,    \* bound: how often the scripts ask for cookies
    MaxUrlMsgs, \* bound: messages from the network process (MSG_RETURN_URL ...)
    MaxUiMsgs   \* bound: MSG_WEBAPP_MSG from the UI or the kernel

ASSUME BoundsAssumption ==
    /\ MaxReqs \in Nat
    /\ MaxUrlMsgs \in Nat
    /\ MaxUiMsgs \in Nat

Msgs == [type : {"url"}, n : 1..MaxUrlMsgs]
        \cup [type : {"webapp"}, n : 1..MaxUiMsgs]
        \cup [type : {"cookie"}, n : 1..MaxReqs]

\* What a frame of the call stack is doing:
\*   drain   activated(readFd) empties m_msgQueue, then reads
\*   flush   activated(-1) empties m_msgQueue and returns
\*   read    activated(readFd) reads while data is available
\*   script  a handler or a script runs
\*   wait    cookiesForUrl runs the event loop until request req is answered
Frames == [at : {"drain", "flush", "read", "script"}, req : {0}]
          \cup [at : {"wait"}, req : 1..MaxReqs]

VARIABLES
    stdin,        \* the pipe from the kernel
    asked,        \* MSG_DOM_COOKIE_GET on their way to the cookie process
    urlMsgs,      \* number of messages the network process has sent
    uiMsgs,       \* number of messages the UI has sent
    msgQueue,     \* m_msgQueue
    waitForReply, \* m_waitForReply
    cookieMap,    \* keys of m_cookieMap
    lastReqId,    \* m_reqId
    posted,       \* calls of activated(-1) in Qt's event queue
    stack,        \* the call stack, innermost frame first
    handled       \* history: messages dispatched to a handler, in order

vars == <<stdin, asked, urlMsgs, uiMsgs, msgQueue, waitForReply, cookieMap,
          lastReqId, posted, stack, handled>>
pipes == <<asked, urlMsgs, uiMsgs>>

TypeOK ==
    /\ stdin \in Seq(Msgs)
    /\ asked \in Seq(1..MaxReqs)
    /\ urlMsgs \in 0..MaxUrlMsgs
    /\ uiMsgs \in 0..MaxUiMsgs
    /\ msgQueue \in Seq(Msgs)
    /\ waitForReply \in BOOLEAN
    /\ cookieMap \in SUBSET (1..MaxReqs)
    /\ lastReqId \in 0..MaxReqs
    /\ posted \in Nat
    /\ stack \in Seq(Frames)
    /\ handled \in Seq(Msgs)

Init ==
    /\ stdin = <<>> /\ asked = <<>> /\ urlMsgs = 0 /\ uiMsgs = 0
    /\ msgQueue = <<>> /\ waitForReply = FALSE /\ cookieMap = {} /\ lastReqId = 0
    /\ posted = 0 /\ stack = <<>> /\ handled = <<>>

Frame(at) == [at |-> at, req |-> 0]
Push(frame) == <<frame>> \o stack
Top(at) == stack # <<>> /\ Head(stack).at = at
InEventLoop == stack = <<>> \/ Top("wait")

-----------------------------------------------------------------------------
\* FAULT: the answer is stored for the request after.
NextKey(m) == m.n + 1

\* handleCookieMap: the key an answer is stored under
AnswerKey(m) == m.n

\* dispatchMsg: an answer is stored, any other message runs a handler.
DispatchMsg(m) ==
    IF m.type = "cookie"
    THEN /\ cookieMap' = cookieMap \cup {AnswerKey(m)}
         /\ UNCHANGED <<stack, handled>>
    ELSE /\ stack' = Push(Frame("script"))
         /\ handled' = Append(handled, m)
         /\ UNCHANGED cookieMap

\* The frame that activated(readFd) starts with: the queue is left alone while
\* somebody waits.
Reading == IF waitForReply THEN Frame("read") ELSE Frame("drain")

\* FAULT: first() instead of takeFirst().
NotTaken == msgQueue

QueueTaken == Tail(msgQueue)

\* The loop over m_msgQueue
Drain ==
    /\ Top("drain") \/ Top("flush")
    /\ msgQueue # <<>>
    /\ DispatchMsg(Head(msgQueue))
    /\ msgQueue' = QueueTaken
    /\ UNCHANGED <<stdin, pipes, waitForReply, lastReqId, posted>>

DrainEnds ==
    /\ msgQueue = <<>>
    /\ \/ /\ Top("drain")
          /\ stack' = <<Frame("read")>> \o Tail(stack)
       \/ /\ Top("flush")
          /\ stack' = Tail(stack)
    /\ UNCHANGED <<stdin, pipes, msgQueue, waitForReply, cookieMap, lastReqId, posted, handled>>

\* FAULT: every message is dispatched, whoever waits.
NothingDeferred(m) == FALSE

\* FAULT: the answers wait too.
AllDeferred(m) == waitForReply

\* FAULT: UI commands wait too.
CommandsDeferred(m) == waitForReply /\ m.type # "cookie"

\* What has to wait while a script waits for its cookies
Deferred(m) == waitForReply /\ m.type = "url"

\* The loop over the readable data: one message is read and dispatched or queued.
Read ==
    /\ Top("read") /\ stdin # <<>>
    /\ stdin' = Tail(stdin)
    /\ IF Deferred(Head(stdin))
       THEN /\ msgQueue' = Append(msgQueue, Head(stdin))
            /\ UNCHANGED <<cookieMap, stack, handled>>
       ELSE /\ DispatchMsg(Head(stdin))
            /\ UNCHANGED msgQueue
    /\ UNCHANGED <<pipes, waitForReply, lastReqId, posted>>

ReadEnds ==
    /\ Top("read") /\ stdin = <<>>
    /\ stack' = Tail(stack)
    /\ UNCHANGED <<stdin, pipes, msgQueue, waitForReply, cookieMap, lastReqId, posted, handled>>

-----------------------------------------------------------------------------
\* cookiesForUrl up to its event loop: it asks, and reads what is there first.
CookiesForUrl ==
    /\ Top("script") /\ lastReqId < MaxReqs
    /\ lastReqId' = lastReqId + 1
    /\ asked' = Append(asked, lastReqId + 1)
    /\ waitForReply' = TRUE
    /\ stack' = <<Frame("read"), [at |-> "wait", req |-> lastReqId + 1]>> \o stack
    /\ UNCHANGED <<stdin, urlMsgs, uiMsgs, msgQueue, cookieMap, posted, handled>>

\* FAULT: as in the network process, the flag is reset by whoever returns.
AnyWaitEnds(rest) == FALSE

\* m_waitForReply after an answer was taken and the answers `rest' are left
StillWaiting(rest) == waitForReply /\ rest # {}

\* FAULT: the queued call is forgotten.
PostNothing == posted

PostActivated == posted + 1

\* The answer is there: cookiesForUrl takes it, resets the flag if no answer is
\* left, and posts a call of activated(-1).
WaitEnds ==
    /\ Top("wait") /\ Head(stack).req \in cookieMap
    /\ cookieMap' = cookieMap \ {Head(stack).req}
    /\ waitForReply' = StillWaiting(cookieMap')
    /\ posted' = PostActivated
    /\ stack' = Tail(stack)
    /\ UNCHANGED <<stdin, pipes, msgQueue, lastReqId, handled>>

-----------------------------------------------------------------------------
\* The event loop: readable data, queued calls, timers and repaints

DataReadable ==
    /\ InEventLoop /\ stdin # <<>>
    /\ stack' = Push(Reading)
    /\ UNCHANGED <<stdin, pipes, msgQueue, waitForReply, cookieMap, lastReqId, posted, handled>>

PostedCall ==
    /\ InEventLoop /\ posted > 0
    /\ posted' = posted - 1
    /\ IF waitForReply THEN UNCHANGED stack ELSE stack' = Push(Frame("flush"))
    /\ UNCHANGED <<stdin, pipes, msgQueue, waitForReply, cookieMap, lastReqId, handled>>

\* A timer or a repaint runs a script.  Those that will not ask for cookies any
\* more change nothing that is modelled.
Timer ==
    /\ InEventLoop /\ lastReqId < MaxReqs
    /\ stack' = Push(Frame("script"))
    /\ UNCHANGED <<stdin, pipes, msgQueue, waitForReply, cookieMap, lastReqId, posted, handled>>

ScriptEnds ==
    /\ Top("script")
    /\ stack' = Tail(stack)
    /\ UNCHANGED <<stdin, pipes, msgQueue, waitForReply, cookieMap, lastReqId, posted, handled>>

-----------------------------------------------------------------------------
\* The other processes

NetworkSends ==
    /\ urlMsgs < MaxUrlMsgs
    /\ urlMsgs' = urlMsgs + 1
    /\ stdin' = Append(stdin, [type |-> "url", n |-> urlMsgs + 1])
    /\ UNCHANGED <<asked, uiMsgs, msgQueue, waitForReply, cookieMap, lastReqId, posted, stack, handled>>

UISends ==
    /\ uiMsgs < MaxUiMsgs
    /\ uiMsgs' = uiMsgs + 1
    /\ stdin' = Append(stdin, [type |-> "webapp", n |-> uiMsgs + 1])
    /\ UNCHANGED <<asked, urlMsgs, msgQueue, waitForReply, cookieMap, lastReqId, posted, stack, handled>>

\* CookieManager handles one request after the other, in the order of asking.
CookieAnswers ==
    /\ asked # <<>>
    /\ asked' = Tail(asked)
    /\ stdin' = Append(stdin, [type |-> "cookie", n |-> Head(asked)])
    /\ UNCHANGED <<urlMsgs, uiMsgs, msgQueue, waitForReply, cookieMap, lastReqId, posted, stack, handled>>

-----------------------------------------------------------------------------
Returns == Drain \/ DrainEnds \/ Read \/ ReadEnds \/ ScriptEnds

Next ==
    \/ Returns \/ CookiesForUrl \/ WaitEnds
    \/ DataReadable \/ PostedCall \/ Timer
    \/ NetworkSends \/ UISends \/ CookieAnswers

Spec == Init /\ [][Next]_vars

\* Handlers and scripts end, the cookie process answers, and every source of
\* events that stays ready is served: one turn of Qt's event loop delivers the
\* posted calls and polls the pipe, and processEvents returns after a turn, so
\* that cookiesForUrl looks into m_cookieMap.
FairSpec ==
    /\ Spec
    /\ WF_vars(Returns) /\ WF_vars(CookieAnswers)
    /\ SF_vars(DataReadable) /\ SF_vars(PostedCall) /\ SF_vars(WaitEnds)

-----------------------------------------------------------------------------
\* Properties

WaitsOf(s) == {i \in DOMAIN s : s[i].at = "wait"}
Waits == WaitsOf(stack)

\* OpNetwork.cpp:224, Q_ASSERT(m_waitForReply == true), and more: the flag is
\* up exactly while a call of cookiesForUrl is on the stack.  A nested call
\* that returns first must not reset it, and it does not only because the
\* cookie process answers in the order of asking.
FlagMeansWaiting == waitForReply <=> Waits # {}

\* Nothing is handled twice or dropped on the way through m_msgQueue.
NothingLostOrDoubled ==
    \A m \in [type : {"url"}, n : 1..urlMsgs] \cup [type : {"webapp"}, n : 1..uiMsgs] :
        Cardinality({i \in DOMAIN stdin : stdin[i] = m})
        + Cardinality({i \in DOMAIN msgQueue : msgQueue[i] = m})
        + Cardinality({i \in DOMAIN handled : handled[i] = m}) = 1

\* UI commands (show, hide, close) are carried out in the order they were
\* sent, whatever they overtake.
CommandsInOrder ==
    \A i, j \in DOMAIN handled :
        i < j /\ handled[i].type = "webapp" /\ handled[j].type = "webapp"
            => handled[i].n < handled[j].n

PageData(s) == {i \in DOMAIN s : s[i].type = "url"}

\* While a script waits for its cookies nothing the network process sent is
\* handled: the page does not change under a running script.
NoPageDataDuringWait ==
    [][waitForReply => \A i \in PageData(handled') :
                          i \in PageData(handled) /\ handled'[i] = handled[i]]_vars

\* Every call of cookiesForUrl returns.
WaitsReturn == Waits # {} ~> Waits = {}

\* What was queued during a wait is handled, also when nothing else arrives.
QueueIsServed == msgQueue # <<>> ~> msgQueue = <<>>

\* OpNetwork.cpp:96 "process queued msg first": a message just read is never
\* handled while older ones are in the queue.
QueuedGoFirst ==
    [][Len(handled') > Len(handled) /\ handled'[Len(handled')].type = "url"
         /\ msgQueue' = msgQueue => msgQueue = <<>>]_vars

-----------------------------------------------------------------------------
\* The inductive invariant behind FlagMeansWaiting

WaitReqsOf(s) == {s[i].req : i \in WaitsOf(s)}
WaitReqs == WaitReqsOf(stack)

\* The answers that have not been read yet
Answers == {i \in DOMAIN stdin : stdin[i].type = "cookie"}

\* Whoever waits is still to be answered, or its answer has not been taken.
WaitersAreAnswered ==
    /\ WaitReqs \subseteq cookieMap \cup {stdin[i].n : i \in Answers} \cup {asked[i] : i \in DOMAIN asked}
    /\ cookieMap \subseteq WaitReqs
    /\ \A r \in WaitReqs : r <= lastReqId

\* Answers come in the order of asking.
AnswersInOrder ==
    /\ \A i, j \in DOMAIN asked : i < j => asked[i] < asked[j]
    /\ \A i, j \in Answers : i < j => stdin[i].n < stdin[j].n
    /\ \A i \in Answers, j \in DOMAIN asked : stdin[i].n < asked[j]
    /\ \A r \in cookieMap : /\ \A i \in Answers : r < stdin[i].n
                            /\ \A j \in DOMAIN asked : r < asked[j]
    /\ \A i \in Answers : stdin[i].n \in WaitReqs
    /\ \A j \in DOMAIN asked : asked[j] \in WaitReqs

\* The innermost call asked last.
NewestOnTop(s) == \A i, j \in WaitsOf(s) : i < j => s[i].req > s[j].req

NoAnswerQueued == \A i \in DOMAIN msgQueue : msgQueue[i].type # "cookie"

IInv ==
    /\ TypeOK
    /\ FlagMeansWaiting
    /\ WaitersAreAnswered
    /\ AnswersInOrder
    /\ NewestOnTop(stack)
    /\ NoAnswerQueued

-----------------------------------------------------------------------------
\* The inductive invariant behind NothingLostOrDoubled and CommandsInOrder

\* What the network process and the UI have sent
Sent == [type : {"url"}, n : 1..urlMsgs] \cup [type : {"webapp"}, n : 1..uiMsgs]

In(s, m) == \E i \in DOMAIN s : s[i] = m
Distinct(s) == \A i, j \in DOMAIN s : s[i] = s[j] /\ s[i].type # "cookie" => i = j

\* Every message sent is in one place of the three, and only there.
EachIsInOnePlace ==
    /\ \A m \in Msgs : In(stdin, m) => m.type = "cookie" \/ (m \in Sent /\ ~In(msgQueue, m))
    /\ \A m \in Msgs : In(msgQueue, m) => m.type = "url" /\ m \in Sent
    /\ \A m \in Msgs : In(handled, m) => m \in Sent /\ ~In(stdin, m) /\ ~In(msgQueue, m)
    /\ \A m \in Sent : In(stdin, m) \/ In(msgQueue, m) \/ In(handled, m)
    /\ Distinct(stdin) /\ Distinct(msgQueue) /\ Distinct(handled)

\* Commands are read in the order in which they were sent.
Ascending(s) ==
    \A i, j \in DOMAIN s : i < j /\ s[i].type = "webapp" /\ s[j].type = "webapp" => s[i].n < s[j].n

CommandsFollow ==
    /\ Ascending(stdin) /\ Ascending(handled)
    /\ \A a, b \in Msgs : In(handled, a) /\ In(stdin, b) /\ a.type = "webapp" /\ b.type = "webapp"
                          => a.n < b.n

PlacesInv == EachIsInOnePlace /\ CommandsFollow

-----------------------------------------------------------------------------
\* The inductive invariant behind NoPageDataDuringWait: the queue is emptied by
\* calls that began when nobody waited, so those that wait lie above them.

NoWaitBelow(s) ==
    \A i, j \in DOMAIN s :
        i < j /\ s[i].at \in {"drain", "flush"} => s[j].at # "wait"

DrainsInv == NoWaitBelow(stack)

-----------------------------------------------------------------------------
\* What WaitsReturn and QueueIsServed say of a moment: nothing is stuck.

\* A queue that is not empty has somebody to empty it: a call that is on the
\* stack, one that is posted, or the one that is posted when a wait ends.
Drainers(s) == {i \in DOMAIN s : s[i].at \in {"drain", "flush"}}
QueueHasDrainer == msgQueue # <<>> => waitForReply \/ posted > 0 \/ Drainers(stack) # {}

\* The web app can go on, or the cookie process can: the guards of the actions
\* that FairSpec is about.
CanStep ==
    \/ stack # <<>> /\ ~Top("wait")
    \/ Top("wait") /\ Head(stack).req \in cookieMap
    \/ InEventLoop /\ (stdin # <<>> \/ posted > 0)
    \/ asked # <<>>

GuardsAreRight ==
    CanStep <=> ENABLED (Returns \/ WaitEnds \/ DataReadable \/ PostedCall \/ CookieAnswers)

\* When there is nothing to do, nobody waits and every message was handled.
NothingIsStuck == ~CanStep => stack = <<>> /\ \A m \in Sent : In(handled, m)
=============================================================================
