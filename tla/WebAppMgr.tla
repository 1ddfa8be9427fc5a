----------------------------- MODULE WebAppMgr -----------------------------
(***************************************************************************)
(* The kernel process of the OP2 browser as the owner of web-app processes *)
(* (kernel/main.cpp, kernel/WebAppMgr.cpp, kernel/WebAppCache.cpp): which  *)
(* process is shown in which UI container, which is pre-created, which is  *)
(* parked in the cache of closed web apps, which has been told to quit, and *)
(* what the SIGCHLD handler does when one of them dies.                    *)
(*                                                                         *)
(* A web app is named by its objectId.  One action is one run of a handler *)
(* of the kernel's main loop, one run of the SIGCHLD handler, or a step of *)
(* the environment (a child process, the UI reading its pipe, time).       *)
(* Signals that arrive inside a handler are the subject of KernelSignals.  *)
(*                                                                         *)
(* A definition marked FAULT is a plausible slip in the definition below   *)
(* it.  The specification does not use it: put in the place of the sound   *)
(* one it shows that a property is able to fail.                           *)
(***************************************************************************)
EXTENDS Integers, Sequences, FiniteSets

CONSTANTS
    Origins,     \* the same-origin classes of URLs (DomainName::sameOrigin)
    NoOrigin,    \* label of a process that was never given a URL
    Containers,  \* X11 ids of UI widgets, sent as the container of a web app
    OpenTypes,   \* WebView::OpenType values web apps send instead of one
    CacheSize,   \* WebAppCache::m_size: 10, or 0 for the crawler
    Linger,      \* age in seconds at line 299 of main.cpp: 4
    Crawler,     \* IS_CRAWLER
    MaxApps,     \* bound: how many web-app ids are ever handed out
    PipeBound    \* bound: a handler starts with fewer messages to the UI unread;
                 \* the SIGCHLD handler, once per process, does not wait for it

\* Load types and window ids travel in the same field and never coincide;
\* 0 means "no container".
ASSUME ConstantsAssumption ==
    /\ NoOrigin \notin Origins
    /\ OpenTypes \subseteq 1..5
    /\ Containers \subseteq Nat \ (0..5)
    /\ CacheSize \in Nat
    /\ Linger \in Nat
    /\ Crawler \in BOOLEAN
    /\ MaxApps \in Nat \ {0}
    /\ PipeBound \in Nat

UI_ID == 3
WEBAPP_FIRST_ID == 1024
Apps == WEBAPP_FIRST_ID..(WEBAPP_FIRST_ID + MaxApps - 1)

NoApp == -1        \* the null m_cachedWebApp
Boxes == Containers \cup OpenTypes \cup {0, 1}

\* The values the UI sends as container: its widget's window id, or always 1
\* from the crawler, which has no widgets.
UIBoxes == IF Crawler THEN {1} ELSE Containers

\* What is left of the kernel: it serves, it left through exit(0), or it died
\* of a null WebAppProcess, of a freed Process_t that no longer holds its id,
\* or of the exception a read at end-of-file throws outside handleMessage's try.
KernelStates == {"up", "exited", "null_app", "freed_proc", "eof"}

ProcStates == {"unborn", "running", "zombie", "reaped"}
InitMsgStates == {"unsent", "piped", "read"}

UiMsgs ==
    [type : {"NEW_WEBAPP"}, app : Apps, container : Boxes, wid : {"zero", "junk", "wid"}]
    \cup [type : {"webAppExited"}, app : Apps]
    \cup [type : {"EMBED_FRAME"}, app : Apps, value : {0, 1}]

VARIABLES
    kernel,        \* \in KernelStates
    nextApp,       \* WEBAPP_FIRST_ID + WebAppMgr::m_webAppIdOffset
    procMap,       \* main.cpp procMap, its web-app part
    webAppList,    \* WebAppMgr::m_webAppList
    container,     \* WebAppProcess::container of a listed web app
    client,        \* WebAppProcess::client: its window id, or 0
    cachedWebApp,  \* WebAppMgr::m_cachedWebApp, the pre-created process
    cache,         \* WebAppCache::m_entries, oldest first
    label,         \* Process_t::label
    clientId,      \* Process_t::clientId, not initialised by createProc
    killList,      \* main.cpp killList: told to quit, not reaped yet
    killAge,       \* seconds since a process was put on killList
    proc,          \* the operating system's view of each process
    initMsg,       \* the MSG_NEW_WEBAPP a new process writes first
    uiPipe         \* messages the kernel has written to the UI

kernelVars == <<kernel, nextApp, procMap, webAppList, container, client,
                cachedWebApp, cache, label, clientId, killList, killAge>>
vars == <<kernelVars, proc, initMsg, uiPipe>>

TypeOK ==
    /\ kernel \in KernelStates
    /\ nextApp \in WEBAPP_FIRST_ID..(WEBAPP_FIRST_ID + MaxApps)
    /\ procMap \in SUBSET Apps
    /\ webAppList \in SUBSET Apps
    /\ container \in [Apps -> Boxes]
    /\ client \in [Apps -> {"zero", "junk", "wid"}]
    /\ cachedWebApp \in Apps \cup {NoApp}
    /\ cache \in Seq(Apps)
    /\ label \in [Apps -> Origins \cup {NoOrigin}]
    /\ clientId \in [Apps -> {"junk", "wid"}]
    /\ killList \in SUBSET Apps
    /\ killAge \in [Apps -> 0..Linger]
    /\ proc \in [Apps -> ProcStates]
    /\ initMsg \in [Apps -> InitMsgStates]
    /\ uiPipe \in Seq(UiMsgs)

-----------------------------------------------------------------------------
\* Small helpers

Elems(s) == {s[i] : i \in DOMAIN s}

RemoveIndex(s, i) == [j \in 1..(Len(s) - 1) |-> IF j < i THEN s[j] ELSE s[j + 1]]

PreCreated == {cachedWebApp} \ {NoApp}

\* The kernel dies or leaves.  What its maps held no longer matters.
Down(how) ==
    /\ kernel' = how
    /\ UNCHANGED <<nextApp, procMap, webAppList, container, client, cachedWebApp,
                   cache, label, clientId, killList, killAge, initMsg, uiPipe>>

-----------------------------------------------------------------------------
\* WebAppMgr: the constructor pre-creates the first web app.

Init ==
    /\ kernel = "up"
    /\ nextApp = WEBAPP_FIRST_ID + 1
    /\ procMap = {WEBAPP_FIRST_ID}
    /\ webAppList = {}
    /\ container = [a \in Apps |-> 0]
    /\ client = [a \in Apps |-> "zero"]
    /\ cachedWebApp = WEBAPP_FIRST_ID
    /\ cache = <<>>
    /\ label = [a \in Apps |-> NoOrigin]
    /\ clientId = [a \in Apps |-> "junk"]
    /\ killList = {}
    /\ killAge = [a \in Apps |-> 0]
    /\ proc = [a \in Apps |-> IF a = WEBAPP_FIRST_ID THEN "running" ELSE "unborn"]
    /\ initMsg = [a \in Apps |-> "unsent"]
    /\ uiPipe = <<>>

-----------------------------------------------------------------------------
\* MSG_NEW_URL

\* FAULT: any cached process will do.
AnyEntry(o) == DOMAIN cache

\* The cached processes that WebAppCache::hit takes for a URL of origin o.
HitAt(o) == {i \in DOMAIN cache : label[cache[i]] = o}
FirstHit(i, o) == i \in HitAt(o) /\ \A j \in HitAt(o) : i <= j

\* FAULT: the requester's id is taken for its container.
RequesterAsContainer(app, c, requester) ==
    IF c = 1 /\ requester \in webAppList THEN requester ELSE c

\* The container prepNewProc gives to app: a web app that navigates away in
\* its own container (load type 1) hands that container on, if it is listed.
ContainerFor(app, c, requester) ==
    IF c = 1 /\ requester \in webAppList THEN container[requester] ELSE c

\* Who may ask for a new URL: the UI, and a web app that was given one itself.
Requester(c, requester) ==
    \/ /\ requester = UI_ID
       /\ c \in UIBoxes
    \/ /\ ~Crawler
       /\ requester \in procMap
       /\ label[requester] # NoOrigin
       /\ c \in OpenTypes

\* The end of handleNewUrl: the web app is listed and labelled, and the UI is
\* told its window id under the web app's own source id.
Hand(app, c, requester, o, wid) ==
    /\ webAppList' = webAppList \cup {app}
    /\ container' = [container EXCEPT ![app] = ContainerFor(app, c, requester)]
    /\ label' = [label EXCEPT ![app] = o]
    /\ client' = [client EXCEPT ![app] = wid]
    /\ uiPipe' = Append(uiPipe, [type |-> "NEW_WEBAPP", app |-> app,
                                 container |-> ContainerFor(app, c, requester),
                                 wid |-> wid])

\* A closed web app of the same origin is taken out of the cache.
NewUrlFromCache(c, requester, o) ==
    /\ \E i \in DOMAIN cache :
          /\ FirstHit(i, o)
          /\ Hand(cache[i], c, requester, o, clientId[cache[i]])
          /\ cache' = RemoveIndex(cache, i)
    /\ UNCHANGED <<kernel, nextApp, procMap, cachedWebApp, clientId, killList,
                   killAge, proc, initMsg>>

\* FAULT: the id that the blocking read returns is not kept in Process_t.
FirstMessageNotKept(app) ==
    IF client[app] # "zero"
    THEN UNCHANGED <<initMsg, clientId>>
    ELSE /\ \/ initMsg[app] = "piped"
            \/ initMsg[app] = "unsent" /\ proc[app] = "running"
         /\ initMsg' = [initMsg EXCEPT ![app] = "read"]
         /\ UNCHANGED clientId

\* The window id of the pre-created process: handleMessage has it already, or
\* handleNewUrl blocks until the process has written its first message and
\* reads that one.
FirstMessageRead(app) ==
    IF client[app] # "zero"
    THEN UNCHANGED <<initMsg, clientId>>
    ELSE /\ \/ initMsg[app] = "piped"
            \/ initMsg[app] = "unsent" /\ proc[app] = "running"
         /\ initMsg' = [initMsg EXCEPT ![app] = "read"]
         /\ clientId' = [clientId EXCEPT ![app] = "wid"]

\* FAULT: the id the blocking read returns is not taken over.
WindowIdAsHeld(app) == client[app]

WindowId(app) == IF client[app] = "zero" THEN "wid" ELSE client[app]

\* preCreateWebApp with m_cachedWebApp empty
PreCreate(n) ==
    /\ n \in Apps
    /\ nextApp' = n + 1
    /\ cachedWebApp' = n
    /\ procMap' = procMap \cup {n}
    /\ proc' = [proc EXCEPT ![n] = "running"]

NewUrlFromPreCreated(c, requester, o) ==
    /\ HitAt(o) = {}
    /\ cachedWebApp # NoApp
    /\ FirstMessageRead(cachedWebApp)
    /\ Hand(cachedWebApp, c, requester, o, WindowId(cachedWebApp))
    /\ IF Crawler
       THEN cachedWebApp' = NoApp /\ UNCHANGED <<nextApp, procMap, proc>>
       ELSE PreCreate(nextApp)
    /\ UNCHANGED <<kernel, cache, killList, killAge>>

\* Nothing pre-created: the process is created on the spot (the crawler).
NewUrlFresh(c, requester, o) ==
    /\ HitAt(o) = {}
    /\ cachedWebApp = NoApp
    /\ nextApp \in Apps
    /\ nextApp' = nextApp + 1
    /\ procMap' = procMap \cup {nextApp}
    /\ proc' = [proc EXCEPT ![nextApp] = "running"]
    /\ initMsg' = [initMsg EXCEPT ![nextApp] = "read"]
    /\ clientId' = [clientId EXCEPT ![nextApp] = "wid"]
    /\ Hand(nextApp, c, requester, o, "wid")
    /\ UNCHANGED <<kernel, cachedWebApp, cache, killList, killAge>>

\* The process is dead, or dies, before its first message: the blocking read
\* meets end-of-file and throws, and nothing catches it.
NewUrlNoFirstMessage(o) ==
    /\ HitAt(o) = {}
    /\ cachedWebApp # NoApp => initMsg[cachedWebApp] = "unsent"
                                /\ client[cachedWebApp] = "zero"
    /\ cachedWebApp = NoApp => nextApp \in Apps
    /\ Down("eof")
    /\ UNCHANGED proc

HandleNewUrl(c, requester, o) ==
    /\ kernel = "up"
    /\ Requester(c, requester)
    /\ Len(uiPipe) < PipeBound
    /\ \/ NewUrlFromCache(c, requester, o)
       \/ NewUrlFromPreCreated(c, requester, o)
       \/ NewUrlFresh(c, requester, o)
       \/ NewUrlNoFirstMessage(o)

-----------------------------------------------------------------------------
\* MSG_NEW_WEBAPP: only the pre-created process' window id is kept.
HandleNewWebApp(app) ==
    /\ kernel = "up"
    /\ app \in procMap
    /\ initMsg[app] = "piped"
    /\ initMsg' = [initMsg EXCEPT ![app] = "read"]
    /\ IF app = cachedWebApp
       THEN /\ client' = [client EXCEPT ![app] = "wid"]
            /\ clientId' = [clientId EXCEPT ![app] = "wid"]
       ELSE UNCHANGED <<client, clientId>>
    /\ UNCHANGED <<kernel, nextApp, procMap, webAppList, container, cachedWebApp,
                   cache, label, killList, killAge, proc, uiPipe>>

\* MSG_EMBED_FRAME: a web app's frame message is passed to the UI unchanged.
HandleEmbedFrame(app, value) ==
    /\ kernel = "up"
    /\ app \in procMap
    /\ label[app] # NoOrigin
    /\ Len(uiPipe) < PipeBound
    /\ uiPipe' = Append(uiPipe, [type |-> "EMBED_FRAME", app |-> app, value |-> value])
    /\ UNCHANGED <<kernelVars, proc, initMsg>>

\* MSG_UPDATA_CONTAINER: the UI says which widget shows a web app.
HandleUpdateContainer(c, app) ==
    /\ kernel = "up"
    /\ app \in webAppList
    /\ container' = [container EXCEPT ![app] = c]
    /\ UNCHANGED <<kernel, nextApp, procMap, webAppList, client, cachedWebApp, cache,
                   label, clientId, killList, killAge, proc, initMsg, uiPipe>>

\* checkWebAppMsg: a web app without a container is taken by whoever asks.
CheckWebAppMsg(c, app) ==
    /\ app \in webAppList
    /\ container[app] \in {c, 0}

\* WebAppCache::store of app when there is room
StoreOnly(app) ==
    /\ cache' = Append(cache, app)
    /\ UNCHANGED <<procMap, killList, killAge>>

\* FAULT: removeFromProcMap is missing.
EvictStillRouted(old) ==
    /\ killList' = killList \cup {old}
    /\ killAge' = [killAge EXCEPT ![old] = 0]
    /\ UNCHANGED procMap

\* FAULT: addToKillList is missing.
EvictForgotten(old) ==
    /\ UNCHANGED <<killList, killAge>>
    /\ procMap' = procMap \ {old}

\* WebAppCache::evict of old: told to quit, put on the kill list, forgotten
Evict(old) ==
    /\ killList' = killList \cup {old}
    /\ killAge' = [killAge EXCEPT ![old] = 0]
    /\ procMap' = procMap \ {old}

\* FAULT: the size is compared before the entry is added.
StoreOneTooMany(app) ==
    IF Len(cache) <= CacheSize
    THEN StoreOnly(app)
    ELSE /\ Evict(Head(Append(cache, app)))
         /\ cache' = Tail(Append(cache, app))

Store(app) ==
    IF Len(cache) + 1 <= CacheSize
    THEN StoreOnly(app)
    ELSE /\ Evict(Head(Append(cache, app)))
         /\ cache' = Tail(Append(cache, app))

\* MSG_WEBAPP_CLOSE from the UI: the web app is hidden and parked in the cache.
HandleCloseWebApp(c, app) ==
    /\ kernel = "up"
    /\ CheckWebAppMsg(c, app)
    /\ Store(app)
    /\ webAppList' = webAppList \ {app}
    /\ container' = [container EXCEPT ![app] = 0]
    /\ client' = [client EXCEPT ![app] = "zero"]
    /\ UNCHANGED <<kernel, nextApp, cachedWebApp, label, clientId, proc, initMsg, uiPipe>>

\* With a cache of size 0 store() has already deleted the Process_t whose
\* objectId removeFromWebAppList reads: the assertion there may fail.
HandleCloseFreed(c, app) ==
    /\ kernel = "up"
    /\ CheckWebAppMsg(c, app)
    /\ cache = <<>> /\ CacheSize = 0
    /\ Down("freed_proc")
    /\ UNCHANGED proc

-----------------------------------------------------------------------------
\* sigchldHandler

\* FAULT: a dead process is looked up in procMap only.
RoutedZombies == {a \in procMap : proc[a] = "zombie"}

Zombies == {a \in Apps : proc[a] = "zombie"}

\* Every order in which waitpid can return the processes of K
Orders(K) == {f \in [1..Cardinality(K) -> K] :
                 \A i, j \in 1..Cardinality(K) : f[i] = f[j] => i = j}

Exited(f) == [i \in DOMAIN f |-> [type |-> "webAppExited", app |-> f[i]]]

\* The loop over killList at the end forces those that are not older than
\* Linger, whatever its message says.
Forced(a) == a \in killList /\ proc[a] = "running" /\ killAge[a] < Linger

SigchldReaps ==
    /\ Zombies # {}
    /\ Zombies \cap procMap \subseteq webAppList
    /\ \E f \in Orders(Zombies \cap killList) : uiPipe' = uiPipe \o Exited(f)
    /\ killList' = killList \ Zombies
    /\ procMap' = procMap \ Zombies
    /\ webAppList' = webAppList \ Zombies
    /\ container' = [a \in Apps |-> IF a \in Zombies THEN 0 ELSE container[a]]
    /\ client' = [a \in Apps |-> IF a \in Zombies THEN "zero" ELSE client[a]]
    /\ proc' = [a \in Apps |-> IF a \in Zombies THEN "reaped"
                               ELSE IF Forced(a) THEN "zombie" ELSE proc[a]]
    /\ UNCHANGED <<kernel, nextApp, cachedWebApp, cache, label, clientId, killAge,
                   initMsg>>

\* handleUnexpectedClose of a process that is pre-created or in the cache:
\* operator[] puts a null entry in m_webAppList and dereferences it.
SigchldNullApp ==
    /\ \E a \in Zombies \cap procMap : a \notin webAppList
    /\ Down("null_app")
    /\ UNCHANGED proc

\* handleUnexpectedClose of a listed process deletes the Process_t and then
\* reads its objectId: the assertion in removeFromWebAppList may fail.
SigchldFreed ==
    /\ Zombies \cap webAppList # {}
    /\ Down("freed_proc")
    /\ UNCHANGED proc

Sigchld ==
    /\ kernel = "up"
    /\ SigchldReaps \/ SigchldNullApp \/ SigchldFreed

\* SIGINT, or the death of the UI or of a service: killProcs, then exit.
KillProcs ==
    /\ kernel = "up"
    /\ proc' = [a \in Apps |-> IF a \in procMap /\ proc[a] = "running"
                               THEN "zombie" ELSE proc[a]]
    /\ Down("exited")

-----------------------------------------------------------------------------
\* The environment

\* A new process writes its first message.
Announce(app) ==
    /\ proc[app] = "running"
    /\ initMsg[app] = "unsent"
    /\ initMsg' = [initMsg EXCEPT ![app] = "piped"]
    /\ UNCHANGED <<kernelVars, proc, uiPipe>>

\* A process crashes or leaves by itself.
Die(app) ==
    /\ proc[app] = "running"
    /\ app \notin killList
    /\ proc' = [proc EXCEPT ![app] = "zombie"]
    /\ UNCHANGED <<kernelVars, initMsg, uiPipe>>

\* A process that was sent MSG_WEBAPP_CLOSE closes its view and leaves.
QuitOnClose(app) ==
    /\ proc[app] = "running"
    /\ app \in killList
    /\ proc' = [proc EXCEPT ![app] = "zombie"]
    /\ UNCHANGED <<kernelVars, initMsg, uiPipe>>

UIRead ==
    /\ uiPipe # <<>>
    /\ uiPipe' = Tail(uiPipe)
    /\ UNCHANGED <<kernelVars, proc, initMsg>>

\* A second passes.  Ages matter up to Linger only.
Tick ==
    /\ kernel = "up"
    /\ \E a \in killList : killAge[a] < Linger
    /\ killAge' = [a \in Apps |-> IF a \in killList /\ killAge[a] < Linger
                                  THEN killAge[a] + 1 ELSE killAge[a]]
    /\ UNCHANGED <<kernel, nextApp, procMap, webAppList, container, client,
                   cachedWebApp, cache, label, clientId, killList, proc, initMsg, uiPipe>>

-----------------------------------------------------------------------------
KernelStep ==
    \/ \E c \in UIBoxes \cup OpenTypes, r \in Apps \cup {UI_ID}, o \in Origins :
           HandleNewUrl(c, r, o)
    \/ \E a \in Apps : HandleNewWebApp(a)
    \/ \E a \in Apps, v \in {0, 1} : HandleEmbedFrame(a, v)
    \/ \E c \in UIBoxes, a \in Apps : HandleUpdateContainer(c, a)
    \/ \E c \in UIBoxes, a \in Apps : HandleCloseWebApp(c, a)
    \/ \E c \in UIBoxes, a \in Apps : HandleCloseFreed(c, a)
    \/ Sigchld
    \/ KillProcs

EnvironmentStep ==
    \/ \E a \in Apps : Announce(a)
    \/ \E a \in Apps : Die(a)
    \/ \E a \in Apps : QuitOnClose(a)
    \/ UIRead
    \/ Tick

Next == KernelStep \/ EnvironmentStep

Spec == Init /\ [][Next]_vars

\* The children make progress on MSG_WEBAPP_CLOSE (op2 closes its view and its
\* event loop ends), the UI reads its pipe, and SIGCHLD is delivered: the
\* handler is not masked and runs whenever a child has died.
Fairness ==
    /\ WF_vars(Sigchld)
    /\ WF_vars(UIRead)
    /\ \A a \in Apps : WF_vars(QuitOnClose(a))

FairSpec == Spec /\ Fairness

-----------------------------------------------------------------------------
\* Properties

\* Every web-app process the kernel knows has exactly one role: shown in a
\* container, pre-created, or parked in the cache; a process told to quit has
\* none, and the next id is new.  The assertions of addToProcMap,
\* removeFromProcMap, addToWebAppList and addToKillList rest on it.
ProcsHaveOneRole ==
    /\ procMap = webAppList \cup PreCreated \cup Elems(cache)
    /\ webAppList \cap Elems(cache) = {}
    /\ cachedWebApp \notin webAppList \cup Elems(cache)
    /\ \A i, j \in DOMAIN cache : cache[i] = cache[j] => i = j
    /\ killList \cap procMap = {}
    /\ \A a \in procMap \cup killList : a < nextApp

\* The cache never holds more processes than its size (WebAppCache::store).
CacheBounded == Len(cache) <= CacheSize

\* What the UI is told to embed is a window id the process really sent, also
\* when the process comes out of the cache: neither the 0 of a fresh
\* WebAppProcess nor the clientId createProc leaves uninitialised.
GenuineWindowIds ==
    /\ \A a \in webAppList : client[a] = "wid"
    /\ \A i \in DOMAIN uiPipe : uiPipe[i].type = "NEW_WEBAPP" => uiPipe[i].wid = "wid"

\* No web app keeps running where the kernel cannot reach it: it is routed to
\* (procMap) or told to quit (killList), and after exit(0) only the latter.
NoOrphanProcess ==
    \A a \in Apps : proc[a] = "running" =>
        IF kernel = "exited" THEN a \in killList ELSE a \in procMap \cup killList

\* A process serves one origin all its life: it is reused from the cache only
\* for the origin it was labelled with.
OneOriginPerProcess ==
    [][\A a \in Apps : label[a] # NoOrigin => label'[a] = label[a]]_vars

\* An evicted web app leaves the kill list (and the UI is told), unless the
\* kernel itself goes down.
EvictedAppsAreReaped ==
    \A a \in Apps : a \in killList ~> (a \notin killList \/ kernel # "up")

\* main.cpp:224 "webapp died, keep running...": the death of a web app never
\* takes the kernel down through a null m_webAppList entry.
WebAppDeathLeavesKernelUp == kernel # "null_app"

\* main.cpp:300 "found a lingering process, forcing kill": the SIGCHLD handler
\* forces only processes that have been on the kill list for Linger seconds.
OnlyLingeringAreForced ==
    [][(Zombies # {} /\ \A a \in Zombies : proc'[a] = "reaped") =>
          \A a \in killList : proc[a] = "running" /\ proc'[a] = "zombie"
                                 => killAge[a] >= Linger]_vars

-----------------------------------------------------------------------------
\* The inductive invariant: what the properties above need besides each other.

\* Ids that have not been handed out belong to no process.
UnbornApps ==
    \A a \in Apps : a >= nextApp =>
        proc[a] = "unborn" /\ label[a] = NoOrigin /\ client[a] = "zero"

\* A process that was given a URL has its window id in Process_t; the
\* pre-created one has it there when WebAppProcess has it, and has no label.
KnownClients ==
    /\ \A a \in webAppList \cup Elems(cache) : clientId[a] = "wid"
    /\ cachedWebApp # NoApp =>
          /\ client[cachedWebApp] # "junk"
          /\ client[cachedWebApp] = "wid" => clientId[cachedWebApp] = "wid"
          /\ label[cachedWebApp] = NoOrigin

\* Outside crawler mode a process is always pre-created when a message is handled.
PreCreatedReady == ~Crawler => cachedWebApp # NoApp

IInv ==
    /\ TypeOK
    /\ ProcsHaveOneRole
    /\ CacheBounded
    /\ GenuineWindowIds
    /\ NoOrphanProcess
    /\ UnbornApps
    /\ KnownClients
    /\ PreCreatedReady

-----------------------------------------------------------------------------
\* What EvictedAppsAreReaped says of a moment: nobody on the kill list is stuck.

\* Whom the kernel routes to or has told to quit is a child it has not waited
\* for: the kill() of sigchldHandler and killProcs meets no other process that
\* has got the pid since.
KnownAreChildren ==
    kernel = "up" => \A a \in procMap \cup killList : proc[a] \in {"running", "zombie"}

\* Somebody told to quit can, or the SIGCHLD handler has somebody to wait for.
CanReap == kernel = "up" /\ (Zombies # {} \/ \E a \in killList : proc[a] = "running")

\* When nobody can quit and nobody is to be waited for, the kill list is empty.
KillListIsServed == kernel = "up" /\ ~CanReap => killList = {}
=============================================================================
