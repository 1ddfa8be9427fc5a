----------------------------- MODULE Embedding -----------------------------
(***************************************************************************)
(* The UI of the OP2 browser as the place where web apps are shown         *)
(* (op-ui/webview.cpp, browserapplication.cpp, tabwidget.cpp), composed    *)
(* with the kernel of WebAppMgr over the two pipes between them and with   *)
(* the X server that moves the windows of web apps into the UI's tabs.     *)
(*                                                                         *)
(* The kernel's handlers are those of WebAppMgr.  There the UI may send    *)
(* anything; here it sends what its tabs send.  The kernel serves the      *)
(* ready process with the lowest id, so a web app (1024 and up) is heard   *)
(* only when nothing of the UI (3) is waiting.                             *)
(*                                                                         *)
(* Web apps neither crash nor leave here (WebAppMgr has that), and frames  *)
(* are handled inside the page (OP_IFRAME is not set, kernel.h:185), so    *)
(* m_iframes is empty and embedFrame does nothing.                         *)
(***************************************************************************)
EXTENDS WebAppMgr

CONSTANT UiBound   \* bound: the user waits while more messages to the kernel are unread

ASSUME UiAssumption ==
    /\ ~Crawler
    /\ Containers # {}
    /\ OpenTypes \subseteq 1..4
    /\ UiBound \in Nat

NoClient == 0      \* m_clientId of a tab without a web app, clientWinId() of none
Root == 0          \* the X11 root window
Gone == -1         \* the parent of a window that was destroyed

\* What a tab sends to the kernel, MSG_WEBAPP_LOAD_URL to a web app left out.
UiRequests ==
    [type : {"NEW_URL"}, tab : Containers, origin : Origins]
    \cup [type : {"UPDATE", "CLOSE"}, tab : Containers, app : Apps]

\* ReparentNotify: the window of app came into a tab or left it.
XEvents == [tab : Containers, app : Apps, kind : {"in", "out"}]

VARIABLES
    uiOut,       \* messages of the UI that the kernel has not read
    tabs,        \* the open tabs, named by their window ids
    closed,      \* window ids of tabs that were closed
    current,     \* m_mainWindows[0]->currentTab()
    tabClient,   \* WebView::m_clientId, which m_clientWId goes with
    embedding,   \* WebView::m_embedding
    timers,      \* pending reEmbedClient timers of each tab
    shown,       \* QX11EmbedContainer::clientWinId()
    parent,      \* the X server's parent of each web app's window
    xEvents,     \* events the UI has not read from its X connection
    dropped,     \* history: web apps whose MSG_NEW_WEBAPP had no effect
    superseded   \* history: tabs that got a web app while they had one, showed
                 \* none and awaited none

uiVars == <<uiOut, tabs, closed, current, tabClient, embedding, timers, shown, parent,
            xEvents, dropped, superseded>>
allVars == <<vars, uiVars>>

UiTypeOK ==
    /\ uiOut \in Seq(UiRequests)
    /\ tabs \in SUBSET Containers /\ closed \in SUBSET Containers
    /\ current \in tabs
    /\ tabClient \in [Containers -> Apps \cup {NoClient}]
    /\ embedding \in [Containers -> BOOLEAN]
    /\ timers \in [Containers -> Nat]
    /\ shown \in [Containers -> Apps \cup {NoClient}]
    /\ parent \in [Apps -> Containers \cup {Root, Gone}]
    /\ xEvents \in Seq(XEvents)
    /\ dropped \in SUBSET Apps
    /\ superseded \in SUBSET Containers

UiInit ==
    /\ uiOut = <<>>
    /\ \E c \in Containers : tabs = {c} /\ current = c
    /\ closed = {}
    /\ tabClient = [c \in Containers |-> NoClient]
    /\ embedding = [c \in Containers |-> FALSE]
    /\ timers = [c \in Containers |-> 0]
    /\ shown = [c \in Containers |-> NoClient]
    /\ parent = [a \in Apps |-> Root]
    /\ xEvents = <<>>
    /\ dropped = {}
    /\ superseded = {}

-----------------------------------------------------------------------------
\* The X server and QX11EmbedContainer

\* The events of moving the window of app to a tab or to the root: its old
\* parent, if that is another tab that still exists, and the new one hear of it.
Moved(app, to) ==
    (IF parent[app] \in tabs \ {to}
     THEN <<[tab |-> parent[app], app |-> app, kind |-> "out"]>> ELSE <<>>)
    \o (IF to = Root THEN <<>> ELSE <<[tab |-> to, app |-> app, kind |-> "in"]>>)

\* The windows that were moved into a tab and have not been seen there.
Coming(t) == {i \in DOMAIN xEvents : xEvents[i].tab = t /\ xEvents[i].kind = "in"}

NoMove(unread) == xEvents' = unread /\ UNCHANGED parent

\* XReparentWindow, unread being what is left of the event queue.  For a window
\* that was destroyed it fails (in embedClient with error(), which nobody hears).
Reparent(app, to, unread) ==
    IF parent[app] = Gone
    THEN NoMove(unread)
    ELSE /\ parent' = [parent EXCEPT ![app] = to]
         /\ xEvents' = unread \o Moved(app, to)

-----------------------------------------------------------------------------
\* WebView

Update(tab, app) == [type |-> "UPDATE", tab |-> tab, app |-> app]
Close(tab, app) == [type |-> "CLOSE", tab |-> tab, app |-> app]

\* FAULT: the old id is not checked for 0.
AlsoClosesNone(tab, app) == <<Update(tab, app), Close(tab, tabClient[tab])>>

\* FAULT: setClientIds runs before the old id is taken.
ClosesTheNew(tab, app) ==
    <<Update(tab, app)>>
    \o (IF tabClient[tab] = NoClient THEN <<>> ELSE <<Close(tab, app)>>)

\* FAULT: setClientIds does not tell the kernel.
KernelNotTold(tab, app) ==
    IF tabClient[tab] = NoClient THEN <<>> ELSE <<Close(tab, tabClient[tab])>>

\* FAULT: the old web app is not closed.
OldNotClosed(tab, app) == <<Update(tab, app)>>

\* What handleEmbed sends: setClientIds tells the kernel of the new web app,
\* then the old one is closed.
Announced(tab, app) ==
    <<Update(tab, app)>>
    \o (IF tabClient[tab] = NoClient THEN <<>> ELSE <<Close(tab, tabClient[tab])>>)

HandleEmbed(tab, app) ==
    /\ embedding' = [embedding EXCEPT ![tab] = TRUE]
    /\ tabClient' = [tabClient EXCEPT ![tab] = app]
    /\ uiOut' = uiOut \o Announced(tab, app)
    /\ IF tabClient[tab] = NoClient
       THEN Reparent(app, tab, xEvents)
       ELSE IF shown[tab] # NoClient
            THEN Reparent(shown[tab], Root, xEvents)
            ELSE NoMove(xEvents)
    /\ superseded' = IF tabClient[tab] # NoClient /\ shown[tab] = NoClient
                        /\ Coming(tab) = {}
                     THEN superseded \cup {tab} ELSE superseded
    /\ UNCHANGED <<timers, shown, dropped>>

\* FAULT: slotClientIsEmbeded does not compare the ids.
AnyClientIsKept(tab, app) ==
    IF shown[tab] # NoClient
    THEN /\ Reparent(app, Root, Tail(xEvents))
         /\ UNCHANGED <<shown, embedding>>
    ELSE /\ shown' = [shown EXCEPT ![tab] = app]
         /\ NoMove(Tail(xEvents))
         /\ embedding' = [embedding EXCEPT ![tab] = FALSE]

\* A window was moved into a tab.  Qt accepts it if it has none, and
\* slotClientIsEmbeded discards it if the tab's web app changed meanwhile.
ClientComes(tab, app) ==
    IF shown[tab] # NoClient
    THEN /\ Reparent(app, Root, Tail(xEvents))
         /\ UNCHANGED <<shown, embedding>>
    ELSE /\ shown' = [shown EXCEPT ![tab] = app]
         /\ IF tabClient[tab] # app
            THEN /\ Reparent(app, Root, Tail(xEvents))
                 /\ UNCHANGED embedding
            ELSE /\ NoMove(Tail(xEvents))
                 /\ embedding' = [embedding EXCEPT ![tab] = FALSE]

\* FAULT: slotClientClosed leaves everything to the timer.
OnlyTheTimer(tab) ==
    /\ shown' = [shown EXCEPT ![tab] = NoClient]
    /\ timers' = [timers EXCEPT ![tab] = @ + 1]
    /\ NoMove(Tail(xEvents))

\* The window a tab shows was moved away: slotClientClosed.
ClientGoes(tab) ==
    /\ shown' = [shown EXCEPT ![tab] = NoClient]
    /\ IF embedding[tab]
       THEN Reparent(tabClient[tab], tab, Tail(xEvents)) /\ UNCHANGED timers
       ELSE /\ timers' = [timers EXCEPT ![tab] = @ + 1]
            /\ NoMove(Tail(xEvents))

XEvent ==
    /\ xEvents # <<>>
    /\ LET e == Head(xEvents) IN
       \/ /\ e.tab \notin tabs
          /\ NoMove(Tail(xEvents))
          /\ UNCHANGED <<shown, embedding, timers>>
       \/ /\ e.tab \in tabs /\ e.kind = "in"
          /\ ClientComes(e.tab, e.app)
          /\ UNCHANGED timers
       \/ /\ e.tab \in tabs /\ e.kind = "out" /\ shown[e.tab] = e.app
          /\ ClientGoes(e.tab)
          /\ UNCHANGED embedding
       \/ /\ e.tab \in tabs /\ e.kind = "out" /\ shown[e.tab] # e.app
          /\ NoMove(Tail(xEvents))
          /\ UNCHANGED <<shown, embedding, timers>>
    /\ UNCHANGED <<vars, uiOut, tabs, closed, current, tabClient, dropped, superseded>>

\* reEmbedClient
ReEmbed(tab) ==
    /\ tab \in tabs
    /\ timers[tab] > 0
    /\ timers' = [timers EXCEPT ![tab] = @ - 1]
    /\ IF embedding[tab]
       THEN NoMove(xEvents)
       ELSE Reparent(tabClient[tab], tab, xEvents)
    /\ UNCHANGED <<vars, uiOut, tabs, closed, current, tabClient, embedding, shown,
                   dropped, superseded>>

-----------------------------------------------------------------------------
\* The user

\* makeNewTab: window ids are not used twice.
NextTab == {c \in Containers \ (tabs \cup closed) :
               \A d \in Containers \ (tabs \cup closed) : c <= d}

NewTab ==
    /\ \E c \in NextTab :
          /\ tabs' = tabs \cup {c}
          /\ current' \in {current, c}
    /\ UNCHANGED <<vars, uiOut, closed, tabClient, embedding, timers, shown, parent,
                   xEvents, dropped, superseded>>

SelectTab ==
    /\ current' \in tabs \ {current}
    /\ UNCHANGED <<vars, uiOut, tabs, closed, tabClient, embedding, timers, shown,
                   parent, xEvents, dropped, superseded>>

\* loadUrl of a tab without a web app.  With one, the web app is told, and may
\* ask the kernel itself (WebAppNewUrl).
LoadUrl(tab, o) ==
    /\ tab \in tabs
    /\ tabClient[tab] = NoClient
    /\ Len(uiOut) < UiBound
    /\ uiOut' = Append(uiOut, [type |-> "NEW_URL", tab |-> tab, origin |-> o])
    /\ UNCHANGED <<vars, tabs, closed, current, tabClient, embedding, timers, shown,
                   parent, xEvents, dropped, superseded>>

\* ~QX11EmbedContainer gives back the window it has accepted, from wherever that
\* is by now.  A window that is in the tab and whose ReparentNotify was not read
\* is destroyed with the tab's own.
WindowsOfClosed(tab) ==
    LET mine == shown[tab] IN
    /\ parent' = [a \in Apps |->
                    IF parent[a] # Gone /\ a = mine THEN Root
                    ELSE IF parent[a] = tab THEN Gone ELSE parent[a]]
    /\ IF mine # NoClient /\ parent[mine] \in tabs \ {tab}
       THEN xEvents' = xEvents \o Moved(mine, Root)
       ELSE UNCHANGED xEvents

\* closeTab: ~WebView closes the web app, then ~QX11EmbedContainer.  The last tab
\* stays; closing it ends the browser.
CloseTab(tab) ==
    /\ tab \in tabs
    /\ tabs # {tab}
    /\ Len(uiOut) < UiBound
    /\ tabs' = tabs \ {tab}
    /\ closed' = closed \cup {tab}
    /\ IF current = tab THEN current' \in tabs' ELSE UNCHANGED current
    /\ uiOut' = IF tabClient[tab] = NoClient THEN uiOut
                ELSE Append(uiOut, Close(tab, tabClient[tab]))
    /\ tabClient' = [tabClient EXCEPT ![tab] = NoClient]
    /\ embedding' = [embedding EXCEPT ![tab] = FALSE]
    /\ timers' = [timers EXCEPT ![tab] = 0]
    /\ shown' = [shown EXCEPT ![tab] = NoClient]
    /\ WindowsOfClosed(tab)
    /\ UNCHANGED <<vars, dropped, superseded>>

-----------------------------------------------------------------------------
\* BrowserApplication::dispatch of MSG_NEW_WEBAPP

\* The tab it is for: the current one is asked first, and for its web app too.
IsFor(tab, m) == tabClient[tab] = m.app \/ tab = m.container
Destination(m) ==
    IF IsFor(current, m) THEN {current} ELSE {t \in tabs : IsFor(t, m)}

\* No tab is for it: the current one takes it if it is empty, a load type makes
\* a tab, and otherwise nobody does.
NoDestination(m) ==
    IF tabClient[current] = NoClient
    THEN /\ HandleEmbed(current, m.app)
         /\ UNCHANGED <<tabs, closed, current>>
    ELSE \/ /\ m.container \in 2..4
            /\ \E c \in NextTab :
                  /\ tabs' = tabs \cup {c}
                  /\ IF m.container = 2 THEN UNCHANGED current ELSE current' = c
                  /\ HandleEmbed(c, m.app)
            /\ UNCHANGED closed
         \/ /\ m.container \notin 2..4
            /\ dropped' = dropped \cup {m.app}
            /\ UNCHANGED <<uiOut, tabs, closed, current, tabClient, embedding, timers,
                           shown, parent, xEvents, superseded>>

UiDispatch ==
    /\ uiPipe # <<>>
    /\ uiPipe' = Tail(uiPipe)
    /\ LET m == Head(uiPipe) IN
          IF m.type = "NEW_WEBAPP"
          THEN IF Destination(m) # {}
               THEN /\ \E t \in Destination(m) : HandleEmbed(t, m.app)
                    /\ UNCHANGED <<tabs, closed, current>>
               ELSE NoDestination(m)
          ELSE UNCHANGED uiVars
    /\ UNCHANGED <<kernelVars, proc, initMsg>>

-----------------------------------------------------------------------------
\* The kernel

Unread == UNCHANGED <<tabs, closed, current, tabClient, embedding, timers, shown, parent,
                      xEvents, superseded>>

\* handleNewUrl; a dropped web app stays listed, so it is not handed out again.
NewUrl(c, requester, o) ==
    /\ kernel = "up"
    /\ Requester(c, requester)
    /\ Len(uiPipe) < PipeBound
    /\ NewUrlFromCache(c, requester, o) \/ NewUrlFromPreCreated(c, requester, o)
    /\ UNCHANGED dropped

\* A message of the UI.  A close that fails the check changes nothing.
KernelReadsUi ==
    /\ uiOut # <<>>
    /\ uiOut' = Tail(uiOut)
    /\ LET m == Head(uiOut) IN
       \/ /\ m.type = "NEW_URL"
          /\ NewUrl(m.tab, UI_ID, m.origin)
       \/ /\ m.type = "UPDATE"
          /\ \/ HandleUpdateContainer(m.tab, m.app)
             \/ m.app \notin webAppList /\ UNCHANGED vars
          /\ UNCHANGED dropped
       \/ /\ m.type = "CLOSE"
          /\ \/ HandleCloseWebApp(m.tab, m.app)
             \/ ~CheckWebAppMsg(m.tab, m.app) /\ UNCHANGED vars
          /\ UNCHANGED dropped
    /\ Unread

\* MSG_NEW_URL of a web app: it navigates (load type 1) or opens a tab or window.
WebAppNewUrl(app, loadType, o) ==
    /\ uiOut = <<>>
    /\ loadType \in OpenTypes
    /\ NewUrl(loadType, app, o)
    /\ Unread
    /\ UNCHANGED uiOut

-----------------------------------------------------------------------------
EmbeddingInit == Init /\ UiInit

UiStep == UiDispatch \/ XEvent \/ \E t \in Containers : ReEmbed(t)

UserStep ==
    \/ NewTab
    \/ SelectTab
    \/ \E t \in Containers : CloseTab(t)
    \/ \E t \in Containers, o \in Origins : LoadUrl(t, o)

EmbeddingNext ==
    \/ KernelReadsUi
    \/ \E a \in Apps, t \in OpenTypes, o \in Origins : WebAppNewUrl(a, t, o)
    \/ UiStep
    \/ UserStep

EmbeddingSpec == EmbeddingInit /\ [][EmbeddingNext]_allVars

\* The kernel reads what the UI sends, which has the lowest id of those that
\* write in this model, and the event loop of the UI serves its socket, its X
\* connection and its timers.  Nothing is assumed of the user and the pages.
EmbeddingFairness ==
    /\ WF_allVars(KernelReadsUi)
    /\ WF_allVars(UiDispatch)
    /\ WF_allVars(XEvent)
    /\ \A t \in Containers : WF_allVars(ReEmbed(t))

FairEmbedding == EmbeddingSpec /\ EmbeddingFairness

-----------------------------------------------------------------------------
\* Properties

\* No two tabs hold one web app, and the kernel lists what a tab holds: the
\* kernel takes a web app away from a tab only when that tab has asked for it.
TabsHoldListedApps ==
    /\ \A t \in tabs : tabClient[t] # NoClient => tabClient[t] \in webAppList
    /\ \A t, u \in tabs : tabClient[t] = tabClient[u] /\ tabClient[t] # NoClient => t = u

\* "container and client don't match" (WebAppMgr.cpp:272) is never printed for
\* a tab: every close the kernel reads passes checkWebAppMsg.
ClosesAreAccepted ==
    uiOut # <<>> /\ Head(uiOut).type = "CLOSE" =>
        CheckWebAppMsg(Head(uiOut).tab, Head(uiOut).app)

\* When nothing is on the way, kernel and UI agree: every listed web app is
\* held by the open tab that the kernel has as its container, unless the UI
\* dropped it, which it does only to one whose tab is closed, or which was asked
\* for by a web app that had lost its own tab (load type 1 is then left as it is).
KernelAndTabsAgree ==
    uiOut = <<>> /\ uiPipe = <<>> =>
        /\ \A a \in webAppList \ dropped :
              container[a] \in tabs /\ tabClient[container[a]] = a
        /\ \A t \in tabs : tabClient[t] # NoClient => container[tabClient[t]] = t
        /\ \A a \in dropped : container[a] \in closed \cup {1}

\* A tab that is not embedding shows its own web app or none.
ShowsItsOwn ==
    \A t \in tabs : ~embedding[t] /\ shown[t] # NoClient => shown[t] = tabClient[t]

\* A tab whose web app has no window any more: a tab that was closed took it along.
WindowLost(t) == tabClient[t] # NoClient /\ parent[tabClient[t]] = Gone

\* A tab that is embedding gets its web app embedded (slotClientIsEmbeded resets
\* m_embedding), or is given another one again and again.  Two cases are excepted:
\* it was given one in place of one whose window it did not show or await, because
\* the timer of slotClientClosed was running or that window was lost; or the window
\* of its web app was destroyed with a tab that was closed before it accepted it.
EmbeddingEnds ==
    \A t \in Containers :
        \/ []<>(~embedding[t] \/ t \in superseded \/ WindowLost(t))
        \/ []<><<tabClient'[t] # tabClient[t]>>_allVars

\* webview.cpp:118: a tab whose web app is replaced while it shows no window is
\* embedding it, and the old one will be discarded in slotClientIsEmbeded.
ReplacedAppIsShownOrComing ==
    [][\A t \in tabs \cap tabs' :
          tabClient[t] \notin {NoClient, tabClient'[t]} /\ shown[t] = NoClient =>
              embedding[t]]_allVars

\* The web app of an open tab has a window.
WebAppsKeepTheirWindows == \A t \in tabs : ~WindowLost(t)

-----------------------------------------------------------------------------
\* The inductive invariant: a listed web app is in one place, and word of the
\* tab that holds it is on its way to the kernel until the kernel has it.

Awaited(a) == \E i \in DOMAIN uiPipe : uiPipe[i].type = "NEW_WEBAPP" /\ uiPipe[i].app = a
Held(a) == \E t \in tabs : tabClient[t] = a
Closing(a) == \E i \in DOMAIN uiOut : uiOut[i].type = "CLOSE" /\ uiOut[i].app = a

\* What the kernel lists is on its way to the UI, in a tab, on its way back, or
\* dropped.
ListedAreSomewhere ==
    \A a \in Apps : a \in webAppList <=> Awaited(a) \/ Held(a) \/ Closing(a) \/ a \in dropped

InOnePlace ==
    /\ \A a \in Apps : /\ Awaited(a) => ~Held(a) /\ ~Closing(a) /\ a \notin dropped
                       /\ Held(a) => ~Closing(a) /\ a \notin dropped
                       /\ Closing(a) => a \notin dropped
    /\ \A t, u \in tabs : tabClient[t] = tabClient[u] /\ tabClient[t] # NoClient => t = u
    /\ \A i, j \in DOMAIN uiPipe :
          /\ uiPipe[i].type = "NEW_WEBAPP" /\ uiPipe[j].type = "NEW_WEBAPP"
          /\ uiPipe[i].app = uiPipe[j].app
          => i = j
    /\ \A i, j \in DOMAIN uiOut :
          uiOut[i].type = "CLOSE" /\ uiOut[j].type = "CLOSE" /\ uiOut[i].app = uiOut[j].app
          => i = j

\* The kernel has the tab as container, or an update will come before the close.
WordIsUnderWay ==
    /\ \A t \in tabs : tabClient[t] # NoClient =>
          \/ container[tabClient[t]] = t
          \/ \E i \in DOMAIN uiOut : uiOut[i] = Update(t, tabClient[t])
    /\ \A j \in DOMAIN uiOut : uiOut[j].type = "CLOSE" =>
          \/ container[uiOut[j].app] = uiOut[j].tab
          \/ \E i \in DOMAIN uiOut : i < j /\ uiOut[i] = Update(uiOut[j].tab, uiOut[j].app)

\* An update is about a web app its tab holds, or closes further back.
UpdatesAreOwn ==
    \A i \in DOMAIN uiOut : uiOut[i].type = "UPDATE" =>
        \/ uiOut[i].tab \in tabs /\ tabClient[uiOut[i].tab] = uiOut[i].app
        \/ \E j \in DOMAIN uiOut : i < j /\ uiOut[j] = Close(uiOut[i].tab, uiOut[i].app)

\* Containers are tabs that exist or existed, or load types.
ContainersAreKnown ==
    /\ tabs \cap closed = {}
    /\ \A i \in DOMAIN uiOut : uiOut[i].tab \in tabs \cup closed
    /\ \A a \in webAppList : container[a] \in tabs \cup closed \cup OpenTypes
    /\ \A a \in dropped : container[a] \in closed \cup {1}
    /\ \A i \in DOMAIN uiPipe : uiPipe[i].type = "NEW_WEBAPP" =>
          uiPipe[i].container = container[uiPipe[i].app]

\* A tab without a web app has no window, no timer, and none is coming.
EmptyTabsAreQuiet ==
    /\ \A t \in Containers :
          /\ t \notin tabs => tabClient[t] = NoClient
          /\ tabClient[t] = NoClient => ~embedding[t] /\ timers[t] = 0 /\ shown[t] = NoClient
    /\ \A i \in DOMAIN xEvents :
          /\ xEvents[i].tab \in tabs \cup closed
          /\ xEvents[i].kind = "in" /\ xEvents[i].tab \in tabs =>
                tabClient[xEvents[i].tab] # NoClient

UiInv ==
    /\ UiTypeOK
    /\ ListedAreSomewhere
    /\ InOnePlace
    /\ WordIsUnderWay
    /\ UpdatesAreOwn
    /\ ContainersAreKnown
    /\ EmptyTabsAreQuiet

-----------------------------------------------------------------------------
\* The inductive invariant behind ShowsItsOwn, which needs EmptyTabsAreQuiet too:
\* a tab awaits one window at a time, and shows none until it has come.

OneWindowComes ==
    \A t \in tabs :
        /\ \A i, j \in Coming(t) : i = j
        /\ Coming(t) # {} => shown[t] = NoClient
        /\ timers[t] > 0 => timers[t] = 1 /\ shown[t] = NoClient /\ Coming(t) = {}
        /\ ~embedding[t] => \A i \in Coming(t) : xEvents[i].app = tabClient[t]

WindowsInv == OneWindowComes /\ ShowsItsOwn
-----------------------------------------------------------------------------
\* What EmbeddingEnds says of a moment: no tab is stuck.

\* The UI will hear that the window of app left the tab, after message k.
Leaving(t, app, k) ==
    \E i \in DOMAIN xEvents : i > k /\ xEvents[i] = [tab |-> t, app |-> app, kind |-> "out"]

\* A window that a tab shows or awaits is in it, or word that it left follows.
WindowsAreFollowed ==
    \A t \in tabs :
        /\ shown[t] # NoClient => parent[shown[t]] = t \/ Leaving(t, shown[t], 0)
        /\ \A i \in Coming(t) :
              parent[xEvents[i].app] = t \/ Leaving(t, xEvents[i].app, i)

\* A tab that is embedding awaits a window, or word that the one it shows left,
\* or the window of its web app is lost.
EmbeddingGoesOn ==
    \A t \in tabs \ superseded : embedding[t] =>
        \/ Coming(t) # {}
        \/ shown[t] # NoClient /\ Leaving(t, shown[t], 0)
        \/ WindowLost(t)

\* A tab that is not has a window, or awaits one or the timer, or its is lost.
EmptyTabsAwaitSomething ==
    \A t \in tabs : tabClient[t] # NoClient /\ ~embedding[t] =>
        shown[t] # NoClient \/ Coming(t) # {} \/ timers[t] > 0 \/ WindowLost(t)

GoesOnInv == WindowsAreFollowed /\ EmbeddingGoesOn /\ EmptyTabsAwaitSomething

\* When the UI has read all of its events and no timer runs, every tab shows the
\* web app it was given last and is not embedding, apart from the two cases that
\* EmbeddingEnds excepts.
NothingIsStuck ==
    xEvents = <<>> /\ (\A t \in tabs : timers[t] = 0) =>
        \A t \in tabs \ superseded :
            WindowLost(t) \/ (~embedding[t] /\ shown[t] = tabClient[t])
=============================================================================
