--------------------------- MODULE KernelSignals ---------------------------
(***************************************************************************)
(* SIGCHLD inside a handler of the kernel.  main.cpp means to block every  *)
(* signal but SIGINT while a message is handled, but adds ~SIGINT, which is *)
(* no signal number, to an empty mask: sigaddset fails, nothing is blocked *)
(* and sigchldHandler runs wherever the main loop happens to be.           *)
(*                                                                         *)
(* Here handleCloseWebApp is cut where it uses what it has looked up       *)
(* before: the check and the hide message, the store in the cache, and the *)
(* removal from m_webAppList.  Every other handler is one step of WebAppMgr. *)
(***************************************************************************)
EXTENDS WebAppMgr

VARIABLES
    pc,        \* where the main loop is: "select", "checked" or "stored"
    closing    \* the web app handleCloseWebApp works on

sigVars == <<vars, pc, closing>>

SigInit == Init /\ pc = "select" /\ closing = NoApp

\* WebAppMgr.cpp:300-311: the web app is looked up, hidden, and kept in `app'.
CloseBegins(c, app) ==
    /\ kernel = "up" /\ pc = "select"
    /\ CheckWebAppMsg(c, app)
    /\ pc' = "checked" /\ closing' = app
    /\ UNCHANGED vars

\* WebAppMgr.cpp:312: m_cache->store(app->proc, msgId)
CloseStores ==
    /\ kernel = "up" /\ pc = "checked"
    /\ Store(closing)
    /\ pc' = "stored"
    /\ UNCHANGED <<kernel, nextApp, webAppList, container, client, cachedWebApp, label,
                   clientId, proc, initMsg, uiPipe, closing>>

\* WebAppMgr.cpp:314: removeFromWebAppList(app)
CloseRemoves ==
    /\ kernel = "up" /\ pc = "stored"
    /\ webAppList' = webAppList \ {closing}
    /\ container' = [container EXCEPT ![closing] = 0]
    /\ client' = [client EXCEPT ![closing] = "zero"]
    /\ pc' = "select" /\ closing' = NoApp
    /\ UNCHANGED <<kernel, nextApp, procMap, cachedWebApp, cache, label, clientId,
                   killList, killAge, proc, initMsg, uiPipe>>

OtherHandler ==
    /\ pc = "select"
    /\ \/ \E c \in UIBoxes \cup OpenTypes, r \in Apps \cup {UI_ID}, o \in Origins :
              HandleNewUrl(c, r, o)
       \/ \E a \in Apps : HandleNewWebApp(a)
       \/ \E c \in UIBoxes, a \in Apps : HandleUpdateContainer(c, a)

SigNext ==
    \/ \E c \in UIBoxes, a \in Apps : CloseBegins(c, a)
    \/ CloseStores
    \/ CloseRemoves
    \/ (OtherHandler \/ Sigchld \/ EnvironmentStep) /\ UNCHANGED <<pc, closing>>

SigSpec == SigInit /\ [][SigNext]_sigVars

\* The assertion at WebAppMgr.cpp:362, assert(iter != m_webAppList.end()), as
\* removeFromWebAppList meets it at the end of handleCloseWebApp: the web app
\* looked up at the start is still listed.
RemoveFindsTheApp == pc = "stored" => closing \in webAppList
=============================================================================
