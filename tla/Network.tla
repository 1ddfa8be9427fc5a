------------------------------ MODULE Network ------------------------------
(***************************************************************************)
(* The network process (network/Manager.cpp, network/Network.cpp): it      *)
(* fetches URLs for the web apps and asks the cookie process for cookies.  *)
(*                                                                         *)
(* Creating a request calls Manager::cookiesForUrl, which waits in a nested *)
(* event loop for the answer.  Meanwhile `activated' reads the pipe, stores *)
(* the answer and puts every other message into m_msgQueue, and replies    *)
(* that are under way go on signalling.                                    *)
(*                                                                         *)
(* A fetch is a (web app, URL id) pair: ids are unique within a web app    *)
(* only.  Requests are GETs and POSTs.  FAULT marks a slip in the          *)
(* definition below it, as in WebAppMgr.                                   *)
(***************************************************************************)
EXTENDS Integers, Sequences, FiniteSets

CONSTANTS
    Fetches,   \* records [app |-> ..., url |-> ...]
    NoFetch,   \* none of them
    MaxChunks  \* bound: how often a reply has new data to read

ASSUME FetchesAssumption ==
    /\ NoFetch \notin Fetches
    /\ \A f, g \in Fetches : f.app = g.app /\ f.url = g.url => f = g
    /\ MaxChunks \in Nat

Msgs == [type : {"FETCH_URL", "FETCH_URL_ABORT"}, of : Fetches]
        \cup [type : {"COOKIE_GET_RETURN"}, of : {NoFetch}]

VARIABLES
    stdin,        \* the pipe from the kernel
    fetched,      \* fetches whose MSG_FETCH_URL a web app has sent
    aborted,      \* fetches whose MSG_FETCH_URL_ABORT a web app has sent
    asking,       \* MSG_COOKIE_GET is on its way to the cookie process
    msgQueue,     \* m_msgQueue
    waitForReply, \* m_waitForReply
    answered,     \* the answer is in m_cookieMap
    frame,        \* the outermost call of activated, see Frames
    waiting,      \* the fetch whose request is being created: it waits for cookies
    posted,       \* calls of activated(-1) in Qt's event queue
    requestQueue, \* m_requestQueue
    left,         \* data a reply still has to read from the network
    failed,       \* replies that the network broke off
    sent          \* the messages sent for each fetch

vars == <<stdin, fetched, aborted, asking, msgQueue, waitForReply, answered, frame,
          waiting, posted, requestQueue, left, failed, sent>>
apps == <<fetched, aborted>>
pump == <<msgQueue, waitForReply, answered, frame, waiting, posted>>
replies == <<requestQueue, left, failed, sent>>

\* idle: none; drain: it empties m_msgQueue, then reads; flush: the posted call,
\* it empties m_msgQueue only; read: it reads while data is available
Frames == {"idle", "drain", "flush", "read"}

TypeOK ==
    /\ stdin \in Seq(Msgs)
    /\ fetched \in SUBSET Fetches /\ aborted \in SUBSET Fetches
    /\ asking \in BOOLEAN
    /\ msgQueue \in Seq(Msgs)
    /\ waitForReply \in BOOLEAN /\ answered \in BOOLEAN
    /\ frame \in Frames
    /\ waiting \in Fetches \cup {NoFetch}
    /\ posted \in Nat
    /\ requestQueue \in SUBSET Fetches
    /\ left \in [Fetches -> 0..MaxChunks]
    /\ failed \in SUBSET Fetches
    /\ sent \in [Fetches -> Seq({"META", "DATA", "END"})]

Init ==
    /\ stdin = <<>> /\ fetched = {} /\ aborted = {} /\ asking = FALSE
    /\ msgQueue = <<>> /\ waitForReply = FALSE /\ answered = FALSE
    /\ frame = "idle" /\ waiting = NoFetch /\ posted = 0
    /\ requestQueue = {} /\ failed = {}
    /\ left \in [Fetches -> 0..MaxChunks]
    /\ sent = [f \in Fetches |-> <<>>]

InEventLoop == frame = "idle" \/ waiting # NoFetch

-----------------------------------------------------------------------------
\* NetworkRequest

\* FAULT: forwardData and finish rely on metaDataChanged having come before.
WithoutMeta(f, msg) == <<msg>>

\* sendMetaDataIfNeeded in front of msg
WithMeta(f, msg) == IF sent[f] = <<>> THEN <<"META", msg>> ELSE <<msg>>

Send(f, msgs) == sent' = [sent EXCEPT ![f] = @ \o msgs]

\* FAULT: finish leaves the request in m_requestQueue.
NotRemoved(f) == requestQueue

Removed(f) == requestQueue \ {f}

Finish(f) ==
    /\ Send(f, WithMeta(f, "END"))
    /\ requestQueue' = Removed(f)

\* Signals of a reply.  finished() comes after the last data or on an error.
MetaDataChanged(f) ==
    /\ InEventLoop /\ f \in requestQueue /\ sent[f] = <<>>
    /\ Send(f, <<"META">>)
    /\ UNCHANGED <<stdin, apps, asking, pump, requestQueue, left, failed>>

ReadyRead(f) ==
    /\ InEventLoop /\ f \in requestQueue /\ left[f] > 0
    /\ left' = [left EXCEPT ![f] = @ - 1]
    /\ Send(f, WithMeta(f, "DATA"))
    /\ UNCHANGED <<stdin, apps, asking, pump, requestQueue, failed>>

Finished(f) ==
    /\ InEventLoop /\ f \in requestQueue
    /\ \/ left[f] = 0 /\ UNCHANGED failed
       \/ failed' = failed \cup {f}
    /\ Finish(f)
    /\ UNCHANGED <<stdin, apps, asking, pump, left>>

-----------------------------------------------------------------------------
\* Manager

\* FAULT: requests are told apart by their URL id only.
SameUrlId(f) == {g \in requestQueue : g.url = f.url}

\* The requests that a MSG_FETCH_URL_ABORT of f matches
AbortTargets(f) == {g \in requestQueue : g.app = f.app /\ g.url = f.url}

\* dispatchMsg.  Aborting a reply makes it emit finished().
DispatchMsg(m) ==
    CASE m.type = "FETCH_URL" ->
             /\ waiting' = m.of
             /\ waitForReply' = TRUE
             /\ asking' = TRUE
             /\ UNCHANGED <<answered, replies>>
      [] m.type = "FETCH_URL_ABORT" ->
             /\ IF AbortTargets(m.of) = {}
                THEN UNCHANGED <<sent, requestQueue>>
                ELSE \E g \in AbortTargets(m.of) : Finish(g)
             /\ UNCHANGED <<asking, waitForReply, answered, waiting, left, failed>>
      [] m.type = "COOKIE_GET_RETURN" ->
             /\ answered' = TRUE
             /\ UNCHANGED <<asking, waitForReply, waiting, replies>>

\* FAULT: only aborts have to wait.
AbortsDeferred(m) == waitForReply /\ m.type = "FETCH_URL_ABORT"

Deferred(m) == waitForReply /\ m.type # "COOKIE_GET_RETURN"

\* activated in the event loop: readable data, or a posted call.  A call that
\* comes while somebody waits does not touch m_msgQueue.
DataReadable ==
    /\ frame = "idle" /\ stdin # <<>>
    /\ frame' = "drain"
    /\ UNCHANGED <<stdin, apps, asking, msgQueue, waitForReply, answered, waiting, posted, replies>>

PostedCall ==
    /\ InEventLoop /\ posted > 0
    /\ posted' = posted - 1
    /\ frame' = IF waitForReply THEN frame ELSE "flush"
    /\ UNCHANGED <<stdin, apps, asking, msgQueue, waitForReply, answered, waiting, replies>>

Drain ==
    /\ frame \in {"drain", "flush"} /\ waiting = NoFetch /\ msgQueue # <<>>
    /\ DispatchMsg(Head(msgQueue))
    /\ msgQueue' = Tail(msgQueue)
    /\ UNCHANGED <<stdin, apps, frame, posted>>

DrainEnds ==
    /\ frame \in {"drain", "flush"} /\ waiting = NoFetch /\ msgQueue = <<>>
    /\ frame' = IF frame = "drain" THEN "read" ELSE "idle"
    /\ UNCHANGED <<stdin, apps, asking, msgQueue, waitForReply, answered, waiting, posted, replies>>

\* The reading loop, of the outermost call of activated or of one inside a wait
Read ==
    /\ stdin # <<>> /\ (frame = "read" \/ waiting # NoFetch)
    /\ stdin' = Tail(stdin)
    /\ IF Deferred(Head(stdin))
       THEN /\ msgQueue' = Append(msgQueue, Head(stdin))
            /\ UNCHANGED <<asking, waitForReply, answered, waiting, replies>>
       ELSE /\ DispatchMsg(Head(stdin))
            /\ UNCHANGED msgQueue
    /\ UNCHANGED <<apps, frame, posted>>

ReadEnds ==
    /\ frame = "read" /\ waiting = NoFetch /\ stdin = <<>>
    /\ frame' = "idle"
    /\ UNCHANGED <<stdin, apps, asking, msgQueue, waitForReply, answered, waiting, posted, replies>>

\* FAULT: the queued call is forgotten.
PostNothing == posted

PostActivated == posted + 1

\* FAULT: a request that has not got its reply yet is listed.
NullRequest == NoFetch

Created == waiting

\* cookiesForUrl returns, the reply is created and the request is listed.
WaitEnds ==
    /\ waiting # NoFetch /\ answered
    /\ answered' = FALSE /\ waitForReply' = FALSE
    /\ posted' = PostActivated
    /\ requestQueue' = requestQueue \cup {Created}
    /\ waiting' = NoFetch
    /\ UNCHANGED <<stdin, apps, asking, msgQueue, frame, left, failed, sent>>

-----------------------------------------------------------------------------
\* The web apps and the cookie process

AppFetches(f) ==
    /\ f \notin fetched
    /\ fetched' = fetched \cup {f}
    /\ stdin' = Append(stdin, [type |-> "FETCH_URL", of |-> f])
    /\ UNCHANGED <<aborted, asking, pump, replies>>

AppAborts(f) ==
    /\ f \in fetched \ aborted
    /\ aborted' = aborted \cup {f}
    /\ stdin' = Append(stdin, [type |-> "FETCH_URL_ABORT", of |-> f])
    /\ UNCHANGED <<fetched, asking, pump, replies>>

CookieAnswers ==
    /\ asking
    /\ asking' = FALSE
    /\ stdin' = Append(stdin, [type |-> "COOKIE_GET_RETURN", of |-> NoFetch])
    /\ UNCHANGED <<apps, pump, replies>>

-----------------------------------------------------------------------------
Runs == Drain \/ DrainEnds \/ Read \/ ReadEnds

Next ==
    \/ Runs \/ WaitEnds \/ DataReadable \/ PostedCall \/ CookieAnswers
    \/ \E f \in Fetches : \/ MetaDataChanged(f) \/ ReadyRead(f) \/ Finished(f)
                          \/ AppFetches(f) \/ AppAborts(f)

Spec == Init /\ [][Next]_vars

\* The process runs, a ready source of events is served in the next turn of
\* Qt's event loop, the cookie process answers, and every reply ends some day.
FairSpec ==
    /\ Spec
    /\ WF_vars(Runs) /\ WF_vars(CookieAnswers)
    /\ SF_vars(DataReadable) /\ SF_vars(PostedCall) /\ SF_vars(WaitEnds)
    /\ \A f \in Fetches : SF_vars(Finished(f))

-----------------------------------------------------------------------------
\* Properties

At(f, msg) == {i \in DOMAIN sent[f] : sent[f][i] = msg}
Ended(f) == At(f, "END") # {}

\* How far the answer to f has come, if it has the promised shape
Phase(f) ==
    CASE sent[f] = <<>>                                         -> "silent"
      [] At(f, "META") = {1} /\ ~Ended(f)                       -> "open"
      [] At(f, "META") = {1} /\ At(f, "END") = {Len(sent[f])}   -> "ended"
      [] OTHER                                                  -> "broken"

\* The network process implements UrlStream for every fetch.
Streams == INSTANCE UrlStream WITH
    phase <- [f \in Fetches |-> Phase(f)],
    chunks <- [f \in Fetches |-> Cardinality(At(f, "DATA"))]

KeepsStreamPromise == Streams!Spec

\* Manager.cpp:198, Q_ASSERT(m_waitForReply == false): no request is created
\* while another one waits for its cookies, and no other assertion of the wait
\* fails (line 209): the flag is up exactly while a request waits.
OneWaitAtATime ==
    [][waiting' # waiting => (waiting = NoFetch) = ~waitForReply
                              /\ (waiting = NoFetch \/ waiting' = NoFetch)]_vars

\* Only a web app's own abort, or the network, cuts an answer short: the end
\* mark is not sent before all data because of another web app.
CutShortOnlyByOwner ==
    \A f \in Fetches :
        Ended(f) /\ left[f] > 0 => f \in aborted \cup failed

\* Every fetch gets its end mark, aborted or not.
EveryFetchEnds ==
    \A f \in Fetches : f \in fetched ~> Ended(f)

\* Manager.cpp:101 "process queued msg first": an abort is not handled while
\* the fetch it follows is still in the queue.  When it is, it finds no
\* request, and the fetch started later is never aborted.
AbortFollowsFetch ==
    [][\A f \in Fetches :
          stdin # <<>> /\ Head(stdin) = [type |-> "FETCH_URL_ABORT", of |-> f]
          /\ stdin' = Tail(stdin) /\ msgQueue' = msgQueue
             => \A i \in DOMAIN msgQueue : msgQueue[i] # [type |-> "FETCH_URL", of |-> f]]_vars

-----------------------------------------------------------------------------
\* The inductive invariant behind the safety properties

IsFetch(m) == m.type = "FETCH_URL"
IsAbort(m) == m.type = "FETCH_URL_ABORT"

\* The flag is up while a request waits for its cookies.
FlagIsRight == waitForReply <=> waiting # NoFetch

\* An abort on its way comes from the web app that owns the fetch.
AbortsAreOwn ==
    /\ \A i \in DOMAIN stdin : IsAbort(stdin[i]) => stdin[i].of \in aborted
    /\ \A i \in DOMAIN msgQueue : IsAbort(msgQueue[i]) => msgQueue[i].of \in aborted

\* A fetch is begun once: nothing is listed or sent for one that is on its way.
Unbegun(f) == f \in fetched /\ f # waiting /\ f \notin requestQueue /\ sent[f] = <<>>

FetchesAreNew ==
    /\ \A i \in DOMAIN stdin : IsFetch(stdin[i]) => Unbegun(stdin[i].of)
    /\ \A i \in DOMAIN msgQueue : IsFetch(msgQueue[i]) => Unbegun(msgQueue[i].of)
    /\ \A i, j \in DOMAIN stdin :
          i # j /\ IsFetch(stdin[i]) /\ IsFetch(stdin[j]) => stdin[i].of # stdin[j].of
    /\ \A i, j \in DOMAIN msgQueue :
          i # j /\ IsFetch(msgQueue[i]) /\ IsFetch(msgQueue[j])
             => msgQueue[i].of # msgQueue[j].of
    /\ \A i \in DOMAIN stdin, j \in DOMAIN msgQueue :
          IsFetch(stdin[i]) /\ IsFetch(msgQueue[j]) => stdin[i].of # msgQueue[j].of

\* So is the one whose request is being created.
WaitingIsNew ==
    waiting # NoFetch => waiting \in fetched \ requestQueue /\ sent[waiting] = <<>>

OnlyFetchedAreServed ==
    /\ requestQueue \subseteq fetched
    /\ \A f \in Fetches : sent[f] # <<>> => f \in fetched

\* What was sent has the promised shape, and a request is listed to its end only.
AnswersHaveShape ==
    \A f \in Fetches :
        sent[f] # <<>> =>
            /\ At(f, "META") = {1}
            /\ Ended(f) => At(f, "END") = {Len(sent[f])} /\ f \notin requestQueue

IInv ==
    /\ TypeOK
    /\ FlagIsRight
    /\ AbortsAreOwn
    /\ FetchesAreNew
    /\ WaitingIsNew
    /\ OnlyFetchedAreServed
    /\ AnswersHaveShape
    /\ CutShortOnlyByOwner

-----------------------------------------------------------------------------
\* What EveryFetchEnds says of a moment: nothing is stuck.

On(pipe, m) == \E i \in DOMAIN pipe : pipe[i] = m

\* A fetch that was asked for is on its way, being created, listed, or over.
FetchMsg(f) == [type |-> "FETCH_URL", of |-> f]
NoFetchIsLost ==
    \A f \in fetched :
        \/ On(stdin, FetchMsg(f)) \/ On(msgQueue, FetchMsg(f))
        \/ f = waiting \/ f \in requestQueue \/ Ended(f)

\* Whoever waits for cookies is still to be answered, or is answered already.
WaitIsAnswered ==
    waiting # NoFetch =>
        asking \/ answered \/ On(stdin, [type |-> "COOKIE_GET_RETURN", of |-> NoFetch])

\* A queue that is not empty has somebody to empty it: a call that runs, one that
\* is posted, or the one that is posted when the wait ends.
QueueHasDrainer ==
    msgQueue # <<>> => waiting # NoFetch \/ posted > 0 \/ frame \in {"drain", "flush"}

WayInv == NoFetchIsLost /\ WaitIsAnswered /\ QueueHasDrainer

\* The network process can go on, the cookie process can, or a reply: the guards
\* of the actions that FairSpec is about.
CanStep ==
    \/ frame # "idle" /\ waiting = NoFetch
    \/ waiting # NoFetch /\ (stdin # <<>> \/ answered)
    \/ frame = "idle" /\ stdin # <<>>
    \/ InEventLoop /\ (posted > 0 \/ requestQueue # {})
    \/ asking

\* When there is nothing to do, every fetch a web app asked for has its end mark,
\* and no message and no request is left behind.
NothingIsStuck ==
    ~CanStep => /\ waiting = NoFetch /\ msgQueue = <<>>
                /\ \A f \in fetched : Ended(f)
=============================================================================
