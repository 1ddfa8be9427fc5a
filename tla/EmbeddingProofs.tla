--------------------------- MODULE EmbeddingProofs ---------------------------
(***************************************************************************)
(* Proofs about the UI composed with the kernel: the kernel still does     *)
(* what WebAppMgr allows, so that what WebAppMgrProofs proves holds here,  *)
(* kernel and tabs agree on who holds what, a tab shows what it holds, and *)
(* no tab waits for a window or a timer that does not come, for any number *)
(* of tabs and web apps and any size of the cache.                         *)
(***************************************************************************)
EXTENDS Embedding, WebAppMgrProofs

-----------------------------------------------------------------------------
\* Messages

\* What the fields of a message of a tab are.
LEMMA RequestFacts ==
    ASSUME NEW m \in UiRequests
    PROVE  /\ m.tab \in Containers
           /\ m.type \in {"NEW_URL", "UPDATE", "CLOSE"}
           /\ m.type = "NEW_URL" => m.origin \in Origins
           /\ m.type \in {"UPDATE", "CLOSE"} => m.app \in Apps
           /\ m.type = "UPDATE" => m = Update(m.tab, m.app)
           /\ m.type = "CLOSE" => m = Close(m.tab, m.app)
BY DEF UiRequests, Update, Close

\* The messages handleEmbed sends are messages of a tab.
LEMMA UpdateAndClose ==
    ASSUME NEW t \in Containers, NEW a \in Apps
    PROVE  /\ Update(t, a) \in UiRequests /\ Close(t, a) \in UiRequests
           /\ Update(t, a).type = "UPDATE" /\ Update(t, a).tab = t /\ Update(t, a).app = a
           /\ Close(t, a).type = "CLOSE" /\ Close(t, a).tab = t /\ Close(t, a).app = a
BY DEF UiRequests, Update, Close

\* What the kernel announces is a web app and its container.
LEMMA AnnouncementFacts ==
    ASSUME NEW m \in UiMsgs, m.type = "NEW_WEBAPP"
    PROVE  m.app \in Apps /\ m.container \in Boxes
BY DEF UiMsgs

\* Zero and the ids of windows and web apps do not meet.
LEMMA UiValues ==
    /\ NoClient \notin Apps
    /\ Root \notin Containers /\ Gone \notin Containers /\ Gone # Root
    /\ UIBoxes = Containers
    /\ Containers \cap OpenTypes = {} /\ Containers \cap (1..4) = {}
BY ConstantsAssumption, UiAssumption
   DEF NoClient, Root, Gone, UIBoxes, Apps, WEBAPP_FIRST_ID

-----------------------------------------------------------------------------
\* The kernel

\* A NEW_URL that the kernel handles here is one it handles in WebAppMgr.
LEMMA NewUrlIsHandleNewUrl ==
    ASSUME NEW c, NEW r, NEW o, NewUrl(c, r, o)
    PROVE  HandleNewUrl(c, r, o)
BY DEF NewUrl, HandleNewUrl

\* The composition takes steps of WebAppMgr only.
LEMMA StepsAreKernelSteps ==
    ASSUME IInv, UiTypeOK, [EmbeddingNext]_allVars
    PROVE  [Next]_vars
<1>1. CASE UNCHANGED vars
  BY <1>1
<1>2. CASE KernelReadsUi
  <2> DEFINE m == Head(uiOut)
  <2>1. m \in UiRequests
    BY <1>2 DEF KernelReadsUi, UiTypeOK
  <2>2. /\ m.tab \in UIBoxes
        /\ m.type = "NEW_URL" => m.origin \in Origins
        /\ m.type \in {"UPDATE", "CLOSE"} => m.app \in Apps
    BY <2>1, RequestFacts, UiValues
  <2>3. CASE m.type = "NEW_URL" /\ NewUrl(m.tab, UI_ID, m.origin)
    <3>1. HandleNewUrl(m.tab, UI_ID, m.origin)
      BY <2>3, NewUrlIsHandleNewUrl
    <3> QED
      BY <2>2, <2>3, <3>1 DEF Next, KernelStep
  <2>4. CASE m.type = "UPDATE" /\ HandleUpdateContainer(m.tab, m.app)
    BY <2>2, <2>4 DEF Next, KernelStep
  <2>5. CASE m.type = "CLOSE" /\ HandleCloseWebApp(m.tab, m.app)
    BY <2>2, <2>5 DEF Next, KernelStep
  <2> QED
    BY <1>1, <1>2, <2>3, <2>4, <2>5 DEF KernelReadsUi
<1>3. ASSUME NEW a \in Apps, NEW t \in OpenTypes, NEW o \in Origins, WebAppNewUrl(a, t, o)
      PROVE  Next
  <2>1. HandleNewUrl(t, a, o)
    BY <1>3, NewUrlIsHandleNewUrl DEF WebAppNewUrl
  <2> QED
    BY <2>1 DEF Next, KernelStep
<1>4. CASE UiDispatch
  <2>1. UIRead
    BY <1>4 DEF UiDispatch, UIRead
  <2> QED
    BY <2>1 DEF Next, EnvironmentStep
<1>5. CASE XEvent \/ (\E t \in Containers : ReEmbed(t)) \/ UserStep
  BY <1>1, <1>5 DEF XEvent, ReEmbed, UserStep, NewTab, SelectTab, CloseTab, LoadUrl
<1> QED
  BY <1>1, <1>2, <1>3, <1>4, <1>5 DEF EmbeddingNext, UiStep, allVars

-----------------------------------------------------------------------------
\* Windows

\* A window that was destroyed stays so.
GoneStays == \A a \in Apps : parent[a] = Gone => parent'[a] = Gone

\* The event queue is what is left of it, and the events of one more move.
Queued(app, to, unread) == xEvents' = unread \o Moved(app, to)

LEMMA MovedOK ==
    ASSUME UiTypeOK, NEW app \in Apps, NEW to \in Containers \cup {Root},
           NEW unread \in Seq(XEvents), Queued(app, to, unread)
    PROVE  /\ xEvents' \in Seq(XEvents)
           /\ \A i \in DOMAIN xEvents' :
                 \/ \E j \in DOMAIN unread : xEvents'[i] = unread[j]
                 \/ xEvents'[i].tab \in tabs /\ xEvents'[i].kind = "out"
                 \/ to # Root /\ xEvents'[i].tab = to
<1> DEFINE left == [tab |-> parent[app], app |-> app, kind |-> "out"]
           come == [tab |-> to, app |-> app, kind |-> "in"]
<1>2. parent[app] \in tabs \ {to} => left \in XEvents
  BY DEF UiTypeOK, XEvents
<1>3. to # Root => come \in XEvents
  BY DEF XEvents
<1>4. Moved(app, to) \in Seq(XEvents)
      /\ \A k \in DOMAIN Moved(app, to) :
            \/ parent[app] \in tabs \ {to} /\ Moved(app, to)[k] = left
            \/ to # Root /\ Moved(app, to)[k] = come
  <2> HIDE DEF left, come
  <2>1. Moved(app, to) = (IF parent[app] \in tabs \ {to} THEN <<left>> ELSE <<>>)
                         \o (IF to = Root THEN <<>> ELSE <<come>>)
    BY DEF Moved, left, come
  <2>2. CASE parent[app] \in tabs \ {to} /\ to # Root
    <3>1. Moved(app, to) = <<left>> \o <<come>>
      BY <2>1, <2>2
    <3>2. left \in XEvents /\ come \in XEvents
      BY <1>2, <1>3, <2>2
    <3> QED
      BY <2>2, <3>1, <3>2
  <2>3. CASE parent[app] \in tabs \ {to} /\ to = Root
    <3>1. Moved(app, to) = <<left>> \o <<>>
      BY <2>1, <2>3
    <3> QED
      BY <1>2, <2>3, <3>1
  <2>4. CASE parent[app] \notin tabs \ {to} /\ to # Root
    <3>1. Moved(app, to) = <<>> \o <<come>>
      BY <2>1, <2>4
    <3> QED
      BY <1>3, <2>4, <3>1
  <2>5. CASE parent[app] \notin tabs \ {to} /\ to = Root
    <3>1. Moved(app, to) = <<>> \o <<>>
      BY <2>1, <2>5
    <3> QED
      BY <3>1
  <2> QED
    BY <2>2, <2>3, <2>4, <2>5
<1>5. xEvents' = unread \o Moved(app, to)
  BY DEF Queued
<1>6. xEvents' \in Seq(XEvents)
  BY <1>4, <1>5
<1>7. ASSUME NEW i \in DOMAIN xEvents'
      PROVE  \/ \E j \in DOMAIN unread : xEvents'[i] = unread[j]
             \/ \E k \in DOMAIN Moved(app, to) : xEvents'[i] = Moved(app, to)[k]
  <2>1. i \in 1..(Len(unread) + Len(Moved(app, to)))
    BY <1>4, <1>5
  <2>2. CASE i <= Len(unread)
    BY <1>4, <1>5, <2>1, <2>2
  <2>3. CASE i > Len(unread)
    <3>1. i - Len(unread) \in DOMAIN Moved(app, to)
      BY <1>4, <2>1, <2>3
    <3> QED
      BY <1>4, <1>5, <2>1, <2>3, <3>1
  <2> QED
    BY <2>1, <2>2, <2>3
<1>8. ASSUME NEW i \in DOMAIN xEvents'
      PROVE  \/ \E j \in DOMAIN unread : xEvents'[i] = unread[j]
             \/ xEvents'[i].tab \in tabs /\ xEvents'[i].kind = "out"
             \/ to # Root /\ xEvents'[i].tab = to
  <2>1. CASE \E k \in DOMAIN Moved(app, to) : xEvents'[i] = Moved(app, to)[k]
    <3>1. \/ parent[app] \in tabs /\ xEvents'[i] = left
          \/ to # Root /\ xEvents'[i] = come
      BY <1>4, <2>1
    <3>2. left.tab = parent[app] /\ left.kind = "out" /\ come.tab = to
      OBVIOUS
    <3> HIDE DEF left, come
    <3> QED
      BY <3>1, <3>2
  <2> QED
    BY <1>7, <2>1
<1> QED
  BY <1>6, <1>8

\* A window is moved, or was destroyed and is not.
LEMMA ReparentOK ==
    ASSUME UiTypeOK, NEW app \in Apps, NEW to \in Containers \cup {Root},
           NEW unread \in Seq(XEvents), Reparent(app, to, unread)
    PROVE  /\ parent' \in [Apps -> Containers \cup {Root, Gone}]
           /\ GoneStays
           /\ xEvents' \in Seq(XEvents)
           /\ \A i \in DOMAIN xEvents' :
                 \/ \E j \in DOMAIN unread : xEvents'[i] = unread[j]
                 \/ xEvents'[i].tab \in tabs /\ xEvents'[i].kind = "out"
                 \/ to # Root /\ xEvents'[i].tab = to
<1>1. parent \in [Apps -> Containers \cup {Root, Gone}]
  BY DEF UiTypeOK
<1>2. CASE parent[app] = Gone
  <2>1. xEvents' = unread /\ parent' = parent
    BY <1>2 DEF Reparent, NoMove
  <2>2. GoneStays
    BY <2>1 DEF GoneStays
  <2>3. \A i \in DOMAIN xEvents' : \E j \in DOMAIN unread : xEvents'[i] = unread[j]
    BY <2>1
  <2> QED
    BY <1>1, <2>1, <2>2, <2>3
<1>3. CASE parent[app] # Gone
  <2>1. Queued(app, to, unread) /\ parent' = [parent EXCEPT ![app] = to]
    BY <1>3 DEF Reparent, Queued
  <2>2. GoneStays /\ parent' \in [Apps -> Containers \cup {Root, Gone}]
    BY <1>1, <1>3, <2>1 DEF GoneStays
  <2>3. Queued(app, to, unread)
    BY <2>1
  <2>4. /\ xEvents' \in Seq(XEvents)
        /\ \A i \in DOMAIN xEvents' :
              \/ \E j \in DOMAIN unread : xEvents'[i] = unread[j]
              \/ xEvents'[i].tab \in tabs /\ xEvents'[i].kind = "out"
              \/ to # Root /\ xEvents'[i].tab = to
    BY <2>3, MovedOK
  <2> QED
    BY <2>2, <2>4
<1> QED
  BY <1>2, <1>3

\* The windows of a tab that is closed: another tab hears of it when the one that
\* the tab had accepted was moved there.
ToldOther(tab, app) ==
    /\ Queued(app, Root, xEvents)
    /\ parent'[app] = Root
    /\ \A a \in Apps \ {app} : parent[a] \in tabs \ {tab} => parent'[a] = parent[a]
ToldNobody(tab) ==
    /\ xEvents' = xEvents
    /\ \A a \in Apps : parent[a] \in tabs \ {tab} => parent'[a] = parent[a]

LEMMA ClosedWindows ==
    ASSUME UiTypeOK, NEW tab \in Containers, WindowsOfClosed(tab)
    PROVE  /\ parent' \in [Apps -> Containers \cup {Root, Gone}]
           /\ GoneStays
           /\ ToldNobody(tab) \/ \E app \in Apps : ToldOther(tab, app)
<1>1. /\ parent \in [Apps -> Containers \cup {Root, Gone}]
      /\ shown[tab] \in Apps \cup {NoClient} /\ tabs \subseteq Containers
  BY DEF UiTypeOK
<1>2. \A a \in Apps :
          parent'[a] = IF parent[a] # Gone /\ a = shown[tab] THEN Root
                       ELSE IF parent[a] = tab THEN Gone ELSE parent[a]
  BY DEF WindowsOfClosed
<1>3. parent' \in [Apps -> Containers \cup {Root, Gone}]
  BY <1>1 DEF WindowsOfClosed
<1>4. GoneStays
  BY <1>2 DEF GoneStays
<1>5. CASE shown[tab] # NoClient /\ parent[shown[tab]] \in tabs \ {tab}
  <2>1. PICK app \in Apps : app = shown[tab]
    BY <1>1, <1>5
  <2>2. Queued(app, Root, xEvents)
    BY <1>5, <2>1 DEF WindowsOfClosed, Queued
  <2>3. parent'[app] = Root
    BY <1>1, <1>2, <1>5, <2>1, UiValues
  <2>4. ToldOther(tab, app)
    BY <1>2, <2>1, <2>2, <2>3 DEF ToldOther
  <2> QED
    BY <1>3, <1>4, <2>4
<1>6. CASE ~(shown[tab] # NoClient /\ parent[shown[tab]] \in tabs \ {tab})
  <2>1. xEvents' = xEvents
    BY <1>6 DEF WindowsOfClosed
  <2>2. \A a \in Apps : parent[a] \in tabs \ {tab} => a # shown[tab]
    BY <1>6, UiValues
  <2>3. ToldNobody(tab)
    BY <1>2, <2>1, <2>2 DEF ToldNobody
  <2> QED
    BY <1>3, <1>4, <2>3
<1> QED
  BY <1>5, <1>6

\* Two sequences one after the other
LEMMA ConcatFacts ==
    ASSUME NEW S, NEW s \in Seq(S), NEW r \in Seq(S)
    PROVE  /\ s \o r \in Seq(S)
           /\ DOMAIN (s \o r) = 1..(Len(s) + Len(r))
           /\ \A i \in 1..Len(s) : (s \o r)[i] = s[i]
           /\ \A i \in 1..Len(r) : (s \o r)[Len(s) + i] = r[i]
           /\ Len(s) \in Nat /\ DOMAIN s = 1..Len(s)
OBVIOUS

\* The messages that handleEmbed adds to the pipe
LEMMA AnnouncedFacts ==
    ASSUME UiTypeOK, NEW tab \in Containers, NEW app \in Apps
    PROVE  /\ uiOut \o Announced(tab, app) \in Seq(UiRequests)
           /\ Len(uiOut) \in Nat
           /\ DOMAIN uiOut = 1..Len(uiOut)
           /\ DOMAIN (uiOut \o Announced(tab, app)) =
                 1..(Len(uiOut) + (IF tabClient[tab] = NoClient THEN 1 ELSE 2))
           /\ \A i \in 1..Len(uiOut) : (uiOut \o Announced(tab, app))[i] = uiOut[i]
           /\ (uiOut \o Announced(tab, app))[Len(uiOut) + 1] = Update(tab, app)
           /\ tabClient[tab] # NoClient =>
                 (uiOut \o Announced(tab, app))[Len(uiOut) + 2] = Close(tab, tabClient[tab])
<1> DEFINE u == Update(tab, app)
           c == Close(tab, tabClient[tab])
<1>1. u \in UiRequests /\ (tabClient[tab] # NoClient => c \in UiRequests)
  BY UpdateAndClose DEF UiTypeOK
<1>2. Announced(tab, app) = <<u>> \o (IF tabClient[tab] = NoClient THEN <<>> ELSE <<c>>)
  BY DEF Announced
<1>3. uiOut \in Seq(UiRequests)
  BY DEF UiTypeOK
<1> HIDE DEF u, c
<1>4. CASE tabClient[tab] = NoClient
  <2>1. Announced(tab, app) = <<u>>
    BY <1>2, <1>4
  <2>2. /\ uiOut \o <<u>> \in Seq(UiRequests)
        /\ DOMAIN (uiOut \o <<u>>) = 1..(Len(uiOut) + 1)
        /\ \A i \in 1..Len(uiOut) : (uiOut \o <<u>>)[i] = uiOut[i]
        /\ (uiOut \o <<u>>)[Len(uiOut) + 1] = u
        /\ Len(uiOut) \in Nat /\ DOMAIN uiOut = 1..Len(uiOut)
    BY <1>1, <1>3
  <2> QED
    BY <1>4, <2>1, <2>2 DEF u, c
<1>5. CASE tabClient[tab] # NoClient
  <2> DEFINE both == <<u>> \o <<c>>
  <2>1. Announced(tab, app) = both
    BY <1>2, <1>5
  <2>2. both \in Seq(UiRequests) /\ Len(both) = 2 /\ both[1] = u /\ both[2] = c
    BY <1>1, <1>5
  <2> HIDE DEF both
  <2>3. /\ uiOut \o both \in Seq(UiRequests)
        /\ DOMAIN (uiOut \o both) = 1..(Len(uiOut) + Len(both))
        /\ \A i \in 1..Len(uiOut) : (uiOut \o both)[i] = uiOut[i]
        /\ \A i \in 1..Len(both) : (uiOut \o both)[Len(uiOut) + i] = both[i]
        /\ Len(uiOut) \in Nat /\ DOMAIN uiOut = 1..Len(uiOut)
    BY <1>3, <2>2, ConcatFacts
  <2> QED
    BY <1>5, <2>1, <2>2, <2>3 DEF u, c
<1> QED
  BY <1>4, <1>5

\* handleEmbed in a tab that is open, or that is opened for it
LEMMA HandleEmbedWindows ==
    ASSUME UiTypeOK, EmptyTabsAreQuiet, NEW tab \in Containers, NEW app \in Apps,
           HandleEmbed(tab, app), tab \notin closed, closed' = closed,
           tabs' = tabs \cup {tab}, current' \in tabs'
    PROVE  UiTypeOK' /\ EmptyTabsAreQuiet'
<1>1. /\ embedding' = [embedding EXCEPT ![tab] = TRUE]
      /\ tabClient' = [tabClient EXCEPT ![tab] = app]
      /\ uiOut' = uiOut \o Announced(tab, app)
      /\ UNCHANGED <<timers, shown, dropped>>
      /\ superseded' \in SUBSET Containers
  BY DEF HandleEmbed, UiTypeOK
<1>2. app # NoClient
  BY UiValues
<1>3. /\ parent' \in [Apps -> Containers \cup {Root, Gone}]
      /\ xEvents' \in Seq(XEvents)
      /\ \A i \in DOMAIN xEvents' :
            \/ \E j \in DOMAIN xEvents : xEvents'[i] = xEvents[j]
            \/ xEvents'[i].tab \in tabs /\ xEvents'[i].kind = "out"
            \/ xEvents'[i].tab = tab
  <2>1. xEvents \in Seq(XEvents)
    BY DEF UiTypeOK
  <2>2. CASE tabClient[tab] = NoClient
    <3>1. Reparent(app, tab, xEvents)
      BY <2>2 DEF HandleEmbed
    <3> QED
      BY <2>1, <3>1, ReparentOK
  <2>3. CASE tabClient[tab] # NoClient /\ shown[tab] # NoClient
    <3>1. Reparent(shown[tab], Root, xEvents) /\ shown[tab] \in Apps
      BY <2>3 DEF HandleEmbed, UiTypeOK
    <3>2. Root \in Containers \cup {Root}
      OBVIOUS
    <3> QED
      BY <2>1, <3>1, <3>2, ReparentOK
  <2>4. CASE tabClient[tab] # NoClient /\ shown[tab] = NoClient
    BY <2>4 DEF HandleEmbed, NoMove, UiTypeOK
  <2> QED
    BY <2>2, <2>3, <2>4
<1>4. UiTypeOK'
  BY <1>1, <1>3, AnnouncedFacts DEF UiTypeOK
<1>5. \A t \in Containers :
          /\ t \notin tabs' => tabClient'[t] = NoClient
          /\ tabClient'[t] = NoClient =>
                ~embedding'[t] /\ timers'[t] = 0 /\ shown'[t] = NoClient
  BY <1>1, <1>2 DEF EmptyTabsAreQuiet, UiTypeOK
<1>6. ASSUME NEW i \in DOMAIN xEvents'
      PROVE  /\ xEvents'[i].tab \in tabs' \cup closed
             /\ xEvents'[i].kind = "in" /\ xEvents'[i].tab \in tabs' =>
                   tabClient'[xEvents'[i].tab] # NoClient
  <2>1. tabClient'[tab] = app /\ \A t \in Containers \ {tab} : tabClient'[t] = tabClient[t]
    BY <1>1 DEF UiTypeOK
  <2>2. CASE \E j \in DOMAIN xEvents : xEvents'[i] = xEvents[j]
    <3>1. PICK j \in DOMAIN xEvents : xEvents'[i] = xEvents[j]
      BY <2>2
    <3>2. /\ xEvents[j].tab \in tabs \cup closed
          /\ xEvents[j].kind = "in" /\ xEvents[j].tab \in tabs =>
                tabClient[xEvents[j].tab] # NoClient
      BY DEF EmptyTabsAreQuiet
    <3>3. xEvents[j].tab \in Containers
      <4>1. xEvents[j] \in XEvents
        BY DEF UiTypeOK
      <4> QED
        BY <4>1 DEF XEvents
    <3> QED
      BY <1>2, <2>1, <3>1, <3>2, <3>3
  <2>3. CASE xEvents'[i].tab \in tabs /\ xEvents'[i].kind = "out"
    BY <2>3
  <2>4. CASE xEvents'[i].tab = tab
    BY <1>2, <2>1, <2>4
  <2> QED
    BY <1>3, <2>2, <2>3, <2>4
<1> QED
  BY <1>4, <1>5, <1>6 DEF EmptyTabsAreQuiet

\* A tab's web app moves into it or out of it, or a window is given back: what
\* stays true of events and tabs when no tab changes its web app.
LEMMA MovesKeepQuiet ==
    ASSUME UiTypeOK, EmptyTabsAreQuiet, UNCHANGED <<tabs, closed, tabClient>>,
           NEW unread \in Seq(XEvents),
           \A i \in DOMAIN unread : \E j \in DOMAIN xEvents : unread[i] = xEvents[j],
           xEvents' \in Seq(XEvents),
           \A i \in DOMAIN xEvents' :
              \/ \E j \in DOMAIN unread : xEvents'[i] = unread[j]
              \/ xEvents'[i].tab \in tabs /\ xEvents'[i].kind = "out"
              \/ xEvents'[i].tab \in tabs /\ tabClient[xEvents'[i].tab] # NoClient,
           \A t \in Containers : tabClient[t] = NoClient =>
              ~embedding'[t] /\ timers'[t] = 0 /\ shown'[t] = NoClient
    PROVE  EmptyTabsAreQuiet'
<1>1. ASSUME NEW i \in DOMAIN xEvents'
      PROVE  /\ xEvents'[i].tab \in tabs \cup closed
             /\ xEvents'[i].kind = "in" /\ xEvents'[i].tab \in tabs =>
                   tabClient[xEvents'[i].tab] # NoClient
  <2>1. CASE \E j \in DOMAIN xEvents : xEvents'[i] = xEvents[j]
    <3>1. PICK j \in DOMAIN xEvents : xEvents'[i] = xEvents[j]
      BY <2>1
    <3>2. /\ xEvents[j].tab \in tabs \cup closed
          /\ xEvents[j].kind = "in" /\ xEvents[j].tab \in tabs =>
                tabClient[xEvents[j].tab] # NoClient
      BY DEF EmptyTabsAreQuiet
    <3> QED
      BY <3>1, <3>2
  <2>2. CASE xEvents'[i].tab \in tabs /\ xEvents'[i].kind = "out"
    BY <2>2
  <2>3. CASE xEvents'[i].tab \in tabs /\ tabClient[xEvents'[i].tab] # NoClient
    BY <2>3
  <2> QED
    BY <2>1, <2>2, <2>3
<1>2. \A t \in Containers : t \notin tabs => tabClient[t] = NoClient
  BY DEF EmptyTabsAreQuiet
<1> QED
  BY <1>1, <1>2 DEF EmptyTabsAreQuiet

\* The rest of a sequence
LEMMA TailFacts ==
    ASSUME NEW S, NEW s \in Seq(S), s # <<>>
    PROVE  /\ Tail(s) \in Seq(S) /\ Head(s) \in S
           /\ Head(s) = s[1] /\ 1 \in DOMAIN s
           /\ Len(s) \in Nat /\ DOMAIN s = 1..Len(s)
           /\ DOMAIN Tail(s) = 1..(Len(s) - 1)
           /\ \A i \in DOMAIN Tail(s) : i + 1 \in DOMAIN s /\ Tail(s)[i] = s[i + 1]
OBVIOUS

\* The UI reads an event of its X connection.
LEMMA XEventWindows ==
    ASSUME UiTypeOK, EmptyTabsAreQuiet, XEvent
    PROVE  UiTypeOK' /\ EmptyTabsAreQuiet'
<1> DEFINE unread == Tail(xEvents)
<1>1. PICK e : e = Head(xEvents)
  OBVIOUS
<1>2. /\ xEvents # <<>>
      /\ UNCHANGED <<uiOut, tabs, closed, current, tabClient, dropped, superseded>>
      /\ \/ e.tab \notin tabs /\ NoMove(unread) /\ UNCHANGED <<shown, embedding, timers>>
         \/ e.tab \in tabs /\ e.kind = "in" /\ ClientComes(e.tab, e.app) /\ UNCHANGED timers
         \/ /\ e.tab \in tabs /\ e.kind = "out" /\ shown[e.tab] = e.app
            /\ ClientGoes(e.tab) /\ UNCHANGED embedding
         \/ NoMove(unread) /\ UNCHANGED <<shown, embedding, timers>>
  BY <1>1, Zenon DEF XEvent
<1>3. /\ unread \in Seq(XEvents) /\ e \in XEvents /\ e = xEvents[1] /\ 1 \in DOMAIN xEvents
      /\ \A i \in DOMAIN unread : \E j \in DOMAIN xEvents : unread[i] = xEvents[j]
  <2>1. xEvents \in Seq(XEvents)
    BY DEF UiTypeOK
  <2> QED
    BY <1>1, <1>2, <2>1, TailFacts
<1>4. e.tab \in Containers /\ e.app \in Apps /\ e.app # NoClient
  BY <1>3, UiValues DEF XEvents
<1>5. /\ tabClient \in [Containers -> Apps \cup {NoClient}]
      /\ embedding \in [Containers -> BOOLEAN] /\ timers \in [Containers -> Nat]
      /\ shown \in [Containers -> Apps \cup {NoClient}]
      /\ parent \in [Apps -> Containers \cup {Root, Gone}]
  BY DEF UiTypeOK
<1>6. \A t \in Containers : tabClient[t] = NoClient =>
          ~embedding[t] /\ timers[t] = 0 /\ shown[t] = NoClient
  BY DEF EmptyTabsAreQuiet
<1> DEFINE Typed == /\ embedding' \in [Containers -> BOOLEAN] /\ timers' \in [Containers -> Nat]
                    /\ shown' \in [Containers -> Apps \cup {NoClient}]
           Quiet == \A t \in Containers : tabClient[t] = NoClient =>
                        ~embedding'[t] /\ timers'[t] = 0 /\ shown'[t] = NoClient
           Moves == /\ parent' \in [Apps -> Containers \cup {Root, Gone}]
                    /\ xEvents' \in Seq(XEvents)
                    /\ \A i \in DOMAIN xEvents' :
                          \/ \E j \in DOMAIN unread : xEvents'[i] = unread[j]
                          \/ xEvents'[i].tab \in tabs /\ xEvents'[i].kind = "out"
                          \/ /\ xEvents'[i].tab \in tabs
                             /\ tabClient[xEvents'[i].tab] # NoClient
<1>7. ASSUME NoMove(unread) PROVE Moves
  BY <1>3, <1>5, <1>7 DEF NoMove
<1>8. ASSUME NEW a \in Apps, Reparent(a, Root, unread) PROVE Moves
  <2>1. Root \in Containers \cup {Root}
    OBVIOUS
  <2> QED
    BY <1>3, <1>8, <2>1, ReparentOK
<1>9. ASSUME NoMove(unread), UNCHANGED <<shown, embedding, timers>>
      PROVE  Typed /\ Quiet /\ Moves
  BY <1>5, <1>6, <1>7, <1>9
<1>10. ASSUME e.tab \in tabs, e.kind = "in", ClientComes(e.tab, e.app), UNCHANGED timers
       PROVE  Typed /\ Quiet /\ Moves
  <2>1. tabClient[e.tab] # NoClient
    BY <1>3, <1>10 DEF EmptyTabsAreQuiet
  <2>2. /\ shown' = shown \/ shown' = [shown EXCEPT ![e.tab] = e.app]
        /\ embedding' = embedding \/ embedding' = [embedding EXCEPT ![e.tab] = FALSE]
    BY <1>10 DEF ClientComes
  <2>3. Typed
    BY <1>4, <1>5, <1>10, <2>2
  <2>4. Quiet
    BY <1>4, <1>5, <1>6, <1>10, <2>1, <2>2
  <2>5. NoMove(unread) \/ Reparent(e.app, Root, unread)
    BY <1>10 DEF ClientComes
  <2> QED
    BY <1>4, <1>7, <1>8, <2>3, <2>4, <2>5
<1>11. ASSUME e.tab \in tabs, shown[e.tab] = e.app, ClientGoes(e.tab), UNCHANGED embedding
       PROVE  Typed /\ Quiet /\ Moves
  <2>1. tabClient[e.tab] # NoClient /\ tabClient[e.tab] \in Apps
    BY <1>4, <1>5, <1>6, <1>11
  <2>2. /\ shown' = [shown EXCEPT ![e.tab] = NoClient]
        /\ timers' = timers \/ timers' = [timers EXCEPT ![e.tab] = @ + 1]
    BY <1>11 DEF ClientGoes
  <2>3. Typed
    BY <1>4, <1>5, <1>11, <2>2
  <2>4. Quiet
    BY <1>4, <1>5, <1>6, <1>11, <2>1, <2>2
  <2>5. Moves
    <3>1. CASE NoMove(unread)
      BY <3>1, <1>7
    <3>2. CASE Reparent(tabClient[e.tab], e.tab, unread)
      <4> HIDE DEF unread
      <4>1. e.tab \in Containers \cup {Root}
        BY <1>4
      <4>2. unread \in Seq(XEvents) /\ tabClient[e.tab] \in Apps
        BY <1>3, <2>1
      <4>3. /\ parent' \in [Apps -> Containers \cup {Root, Gone}]
            /\ xEvents' \in Seq(XEvents)
            /\ \A i \in DOMAIN xEvents' :
                  \/ \E j \in DOMAIN unread : xEvents'[i] = unread[j]
                  \/ xEvents'[i].tab \in tabs /\ xEvents'[i].kind = "out"
                  \/ e.tab # Root /\ xEvents'[i].tab = e.tab
        BY <3>2, <4>1, <4>2, ReparentOK
      <4> QED
        BY <1>11, <2>1, <4>3
    <3> QED
      BY <1>11, <3>1, <3>2 DEF ClientGoes
  <2> QED
    BY <2>3, <2>4, <2>5
<1>12. Typed /\ Quiet /\ Moves
  <2> HIDE DEF Typed, Quiet, Moves, unread
  <2>1. CASE NoMove(unread) /\ UNCHANGED <<shown, embedding, timers>>
    BY <2>1, <1>9
  <2>2. CASE e.tab \in tabs /\ e.kind = "in" /\ ClientComes(e.tab, e.app)
             /\ UNCHANGED timers
    BY <2>2, <1>10
  <2>3. CASE e.tab \in tabs /\ shown[e.tab] = e.app /\ ClientGoes(e.tab)
             /\ UNCHANGED embedding
    BY <2>3, <1>11
  <2> QED
    BY <1>2, <2>1, <2>2, <2>3
<1> HIDE DEF unread
<1>13. UiTypeOK'
  BY <1>2, <1>12 DEF UiTypeOK
<1>14. EmptyTabsAreQuiet'
  BY <1>2, <1>3, <1>12, MovesKeepQuiet
<1> QED
  BY <1>13, <1>14

\* The timer of a tab that lost its window fires.
LEMMA ReEmbedWindows ==
    ASSUME UiTypeOK, EmptyTabsAreQuiet, NEW tab \in Containers, ReEmbed(tab)
    PROVE  UiTypeOK' /\ EmptyTabsAreQuiet'
<1>1. /\ tab \in tabs /\ timers[tab] > 0 /\ timers' = [timers EXCEPT ![tab] = @ - 1]
      /\ UNCHANGED <<uiOut, tabs, closed, current, tabClient, embedding, shown, dropped,
                     superseded>>
      /\ NoMove(xEvents) \/ Reparent(tabClient[tab], tab, xEvents)
  BY DEF ReEmbed
<1>2. tabClient[tab] # NoClient /\ tabClient[tab] \in Apps
  BY <1>1 DEF EmptyTabsAreQuiet, UiTypeOK
<1>3. /\ timers' \in [Containers -> Nat]
      /\ \A t \in Containers : tabClient[t] = NoClient =>
            ~embedding'[t] /\ timers'[t] = 0 /\ shown'[t] = NoClient
  BY <1>1, <1>2 DEF EmptyTabsAreQuiet, UiTypeOK
<1>4. xEvents \in Seq(XEvents)
  BY DEF UiTypeOK
<1>5. /\ parent' \in [Apps -> Containers \cup {Root, Gone}]
      /\ xEvents' \in Seq(XEvents)
      /\ \A i \in DOMAIN xEvents' :
            \/ \E j \in DOMAIN xEvents : xEvents'[i] = xEvents[j]
            \/ xEvents'[i].tab \in tabs /\ xEvents'[i].kind = "out"
            \/ xEvents'[i].tab \in tabs /\ tabClient[xEvents'[i].tab] # NoClient
  <2>1. CASE NoMove(xEvents)
    BY <1>4, <2>1 DEF NoMove, UiTypeOK
  <2>2. CASE Reparent(tabClient[tab], tab, xEvents)
    <3>1. tab \in Containers \cup {Root}
      OBVIOUS
    <3> QED
      BY <1>1, <1>2, <1>4, <2>2, <3>1, ReparentOK
  <2> QED
    BY <1>1, <2>1, <2>2
<1>6. UiTypeOK'
  BY <1>1, <1>3, <1>5 DEF UiTypeOK
<1>7. EmptyTabsAreQuiet'
  BY <1>1, <1>3, <1>4, <1>5, MovesKeepQuiet
<1> QED
  BY <1>6, <1>7

-----------------------------------------------------------------------------
\* Places of web apps

Places ==
    /\ ListedAreSomewhere
    /\ InOnePlace
    /\ WordIsUnderWay
    /\ UpdatesAreOwn
    /\ ContainersAreKnown

\* The UI's pipe to the kernel without its first k messages
Shifted(k) ==
    /\ DOMAIN uiOut' \subseteq Nat \ {0}
    /\ \A i \in DOMAIN uiOut' : i + k \in DOMAIN uiOut /\ uiOut'[i] = uiOut[i + k]
    /\ \A i \in DOMAIN uiOut : i > k => i - k \in DOMAIN uiOut' /\ uiOut'[i - k] = uiOut[i]

LEMMA ShiftFacts ==
    ASSUME UiTypeOK
    PROVE  /\ \A i \in DOMAIN uiOut : i \in Nat /\ i > 0 /\ uiOut[i] \in UiRequests
           /\ uiOut' = uiOut => Shifted(0)
           /\ uiOut # <<>> /\ uiOut' = Tail(uiOut) =>
                 Shifted(1) /\ 1 \in DOMAIN uiOut /\ Head(uiOut) = uiOut[1]
<1>1. uiOut \in Seq(UiRequests)
  BY DEF UiTypeOK
<1>2. \A i \in DOMAIN uiOut : i \in Nat /\ i > 0 /\ uiOut[i] \in UiRequests
  BY <1>1
<1>3. uiOut' = uiOut => Shifted(0)
  BY <1>2 DEF Shifted
<1>4. ASSUME uiOut # <<>>, uiOut' = Tail(uiOut)
      PROVE  Shifted(1) /\ 1 \in DOMAIN uiOut /\ Head(uiOut) = uiOut[1]
  BY <1>1, <1>4, TailFacts DEF Shifted
<1> QED
  BY <1>2, <1>3, <1>4

\* Where no message is, nothing is closed and nothing is announced.
LEMMA KindsDiffer ==
    ASSUME NEW t, NEW a, NEW u, NEW b
    PROVE  /\ Update(t, a).type = "UPDATE" /\ Close(u, b).type = "CLOSE"
           /\ Update(t, a).tab = t /\ Update(t, a).app = a
           /\ Close(u, b).tab = u /\ Close(u, b).app = b
BY DEF Update, Close

\* handleNewUrl gives an unlisted web app a container of the UI's or a load type.
LEMMA NewUrlHands ==
    ASSUME IInv, NEW c, NEW r, NEW o, NewUrl(c, r, o)
    PROVE  \E app \in Apps \ webAppList, b \in {c} \cup {container[a] : a \in webAppList} : \E w :
              /\ webAppList' = webAppList \cup {app}
              /\ container' = [container EXCEPT ![app] = b]
              /\ uiPipe' = Append(uiPipe, [type |-> "NEW_WEBAPP", app |-> app,
                                           container |-> b, wid |-> w])
              /\ dropped' = dropped
<1>1. dropped' = dropped
  BY DEF NewUrl
<1>2. ASSUME NEW app \in Apps \ webAppList, NEW w, Hand(app, c, r, o, w)
      PROVE  \E b \in {c} \cup {container[a] : a \in webAppList} :
                /\ webAppList' = webAppList \cup {app}
                /\ container' = [container EXCEPT ![app] = b]
                /\ uiPipe' = Append(uiPipe, [type |-> "NEW_WEBAPP", app |-> app,
                                             container |-> b, wid |-> w])
  <2>1. ContainerFor(app, c, r) \in {c} \cup {container[a] : a \in webAppList}
    BY DEF ContainerFor
  <2> QED
    BY <1>2, <2>1 DEF Hand
<1>3. CASE NewUrlFromCache(c, r, o)
  <2>1. PICK i \in DOMAIN cache : Hand(cache[i], c, r, o, clientId[cache[i]])
    BY <1>3 DEF NewUrlFromCache
  <2>2. cache[i] \in Apps \ webAppList
    BY CacheElems DEF IInv, ProcsHaveOneRole, Elems
  <2> QED
    BY <1>1, <1>2, <2>1, <2>2
<1>4. CASE NewUrlFromPreCreated(c, r, o)
  <2>1. Hand(cachedWebApp, c, r, o, WindowId(cachedWebApp)) /\ cachedWebApp # NoApp
    BY <1>4 DEF NewUrlFromPreCreated
  <2>2. cachedWebApp \in Apps \ webAppList
    BY <2>1 DEF IInv, TypeOK, ProcsHaveOneRole
  <2> QED
    BY <1>1, <1>2, <2>1, <2>2
<1> QED
  BY <1>3, <1>4 DEF NewUrl

\* A web app is handed out.
LEMMA HandsPlaces ==
    ASSUME UiInv, TypeOK, NEW app \in Apps \ webAppList, NEW w,
           NEW b \in tabs \cup closed \cup OpenTypes,
           webAppList' = webAppList \cup {app},
           container' = [container EXCEPT ![app] = b],
           uiPipe' = Append(uiPipe, [type |-> "NEW_WEBAPP", app |-> app,
                                     container |-> b, wid |-> w]),
           UNCHANGED <<tabs, closed, tabClient, dropped>>,
           NEW k \in {0, 1}, Shifted(k), k = 1 => 1 \in DOMAIN uiOut /\ uiOut[1].type = "NEW_URL"
    PROVE  Places'
<1> DEFINE m == [type |-> "NEW_WEBAPP", app |-> app, container |-> b, wid |-> w]
<1>1. /\ m.type = "NEW_WEBAPP" /\ m.app = app /\ m.container = b
      /\ uiPipe' = Append(uiPipe, m)
  OBVIOUS
<1> HIDE DEF m
<1>2. PICK n : /\ n \in Nat /\ DOMAIN uiPipe = 1..n /\ DOMAIN uiPipe' = 1..(n + 1)
               /\ \A i \in 1..n : uiPipe'[i] = uiPipe[i] /\ uiPipe[i] \in UiMsgs
               /\ uiPipe'[n + 1] = m
  <2>1. uiPipe \in Seq(UiMsgs)
    BY DEF TypeOK
  <2>2. /\ Len(uiPipe) \in Nat /\ DOMAIN uiPipe = 1..Len(uiPipe)
        /\ DOMAIN Append(uiPipe, m) = 1..(Len(uiPipe) + 1)
        /\ \A i \in 1..Len(uiPipe) : Append(uiPipe, m)[i] = uiPipe[i] /\ uiPipe[i] \in UiMsgs
        /\ Append(uiPipe, m)[Len(uiPipe) + 1] = m
    BY <2>1
  <2> QED
    BY <1>1, <2>2
<1>3. \A i \in DOMAIN uiOut : i \in Nat /\ i > 0
  BY ShiftFacts DEF UiInv
<1>4. \A i \in DOMAIN uiOut : uiOut[i].type # "NEW_URL" => i > k
  BY <1>3
<1>5. ~Awaited(app) /\ ~Held(app) /\ ~Closing(app) /\ app \notin dropped
  BY DEF UiInv, ListedAreSomewhere
<1>6. \A a \in Apps : Awaited(a)' <=> Awaited(a) \/ a = app
  BY <1>1, <1>2 DEF Awaited
<1>7. \A a \in Apps : (Held(a)' <=> Held(a)) /\ (Closing(a)' <=> Closing(a))
  <2>1. \A a \in Apps : Closing(a) => Closing(a)'
    BY <1>4 DEF Closing, Shifted
  <2>2. \A a \in Apps : Closing(a)' => Closing(a)
    BY DEF Closing, Shifted
  <2> QED
    BY <2>1, <2>2 DEF Held
<1>8. ListedAreSomewhere'
  BY <1>6, <1>7 DEF UiInv, ListedAreSomewhere
<1>9. InOnePlace'
  <2>1. \A i \in 1..n : uiPipe[i].type = "NEW_WEBAPP" => uiPipe[i].app # app
    BY <1>2, <1>5 DEF Awaited
  <2>2. \A i, j \in DOMAIN uiPipe' :
          /\ uiPipe'[i].type = "NEW_WEBAPP" /\ uiPipe'[j].type = "NEW_WEBAPP"
          /\ uiPipe'[i].app = uiPipe'[j].app
          => i = j
    <3> SUFFICES ASSUME NEW i \in DOMAIN uiPipe', NEW j \in DOMAIN uiPipe',
                        uiPipe'[i].type = "NEW_WEBAPP", uiPipe'[j].type = "NEW_WEBAPP",
                        uiPipe'[i].app = uiPipe'[j].app
                 PROVE  i = j
      OBVIOUS
    <3>1. CASE i \in 1..n /\ j \in 1..n
      BY <1>2, <3>1 DEF UiInv, InOnePlace
    <3>2. CASE i = n + 1 \/ j = n + 1
      BY <1>1, <1>2, <2>1, <3>2
    <3> QED
      BY <1>2, <3>1, <3>2
  <2>3. \A i, j \in DOMAIN uiOut' :
          uiOut'[i].type = "CLOSE" /\ uiOut'[j].type = "CLOSE" /\ uiOut'[i].app = uiOut'[j].app
          => i = j
    <3>1. \A i \in DOMAIN uiOut' : i + k \in DOMAIN uiOut /\ uiOut'[i] = uiOut[i + k]
      BY DEF Shifted
    <3>2. \A i \in DOMAIN uiOut' : i \in Nat
      BY DEF Shifted
    <3> QED
      BY <3>1, <3>2 DEF UiInv, InOnePlace
  <2>4. \A t, u \in tabs' : tabClient'[t] = tabClient'[u] /\ tabClient'[t] # NoClient => t = u
    BY DEF UiInv, InOnePlace
  <2>5. \A a \in Apps : /\ Awaited(a)' => ~Held(a)' /\ ~Closing(a)' /\ a \notin dropped'
                        /\ Held(a)' => ~Closing(a)' /\ a \notin dropped'
                        /\ Closing(a)' => a \notin dropped'
    BY <1>5, <1>6, <1>7 DEF UiInv, InOnePlace
  <2> QED
    BY <2>2, <2>3, <2>4, <2>5 DEF InOnePlace
<1>10. \A a \in Apps : a # app => container'[a] = container[a]
  BY DEF TypeOK
<1>11. \A t \in Containers : tabClient[t] # NoClient => tabClient[t] \in Apps
  BY DEF UiInv, UiTypeOK
<1>12. tabs \subseteq Containers
  BY DEF UiInv, UiTypeOK
<1>13. \A i \in DOMAIN uiOut : uiOut[i].type = "CLOSE" =>
          uiOut[i].app \in Apps /\ uiOut[i].app # app
  <2>1. \A i \in DOMAIN uiOut : uiOut[i].type = "CLOSE" => uiOut[i].app \in Apps
    BY ShiftFacts, RequestFacts DEF UiInv
  <2> QED
    BY <1>5, <2>1 DEF Closing
<1>14. WordIsUnderWay'
  <2>1. ASSUME NEW t \in tabs, tabClient[t] # NoClient
        PROVE  \/ container'[tabClient[t]] = t
               \/ \E i \in DOMAIN uiOut' : uiOut'[i] = Update(t, tabClient[t])
    <3>1. tabClient[t] \in Apps /\ tabClient[t] # app
      BY <1>5, <1>11, <1>12, <2>1 DEF Held
    <3>2. CASE container[tabClient[t]] = t
      BY <1>10, <3>1, <3>2
    <3>3. ASSUME NEW i \in DOMAIN uiOut, uiOut[i] = Update(t, tabClient[t])
          PROVE  \E l \in DOMAIN uiOut' : uiOut'[l] = Update(t, tabClient[t])
      <4>1. i > k
        BY <1>4, <3>3, KindsDiffer
      <4> QED
        BY <3>3, <4>1 DEF Shifted
    <3> QED
      BY <2>1, <3>2, <3>3 DEF UiInv, WordIsUnderWay
  <2>2. ASSUME NEW j \in DOMAIN uiOut', uiOut'[j].type = "CLOSE"
        PROVE  \/ container'[uiOut'[j].app] = uiOut'[j].tab
               \/ \E i \in DOMAIN uiOut' :
                     i < j /\ uiOut'[i] = Update(uiOut'[j].tab, uiOut'[j].app)
    <3>1. PICK l \in DOMAIN uiOut : l = j + k /\ uiOut[l] = uiOut'[j]
      BY DEF Shifted
    <3>2. uiOut[l].type = "CLOSE" /\ uiOut[l].app \in Apps /\ uiOut[l].app # app
      BY <1>13, <2>2, <3>1
    <3>3. CASE container[uiOut[l].app] = uiOut[l].tab
      BY <1>10, <3>1, <3>2, <3>3
    <3>4. ASSUME NEW i \in DOMAIN uiOut, i < l, uiOut[i] = Update(uiOut[l].tab, uiOut[l].app)
          PROVE  \E h \in DOMAIN uiOut' :
                    h < j /\ uiOut'[h] = Update(uiOut'[j].tab, uiOut'[j].app)
      <4>1. i > k /\ i \in Nat /\ j \in Nat
        <5>1. uiOut[i].type = "UPDATE"
          BY <3>4, KindsDiffer
        <5>2. i > k /\ i \in Nat
          BY <1>3, <1>4, <5>1
        <5> QED
          BY <5>2 DEF Shifted
      <4>2. i - k \in DOMAIN uiOut' /\ uiOut'[i - k] = uiOut[i]
        BY <4>1 DEF Shifted
      <4>3. i - k < j
        BY <3>1, <3>4, <4>1
      <4> QED
        BY <3>1, <3>4, <4>2, <4>3
    <3> QED
      BY <3>2, <3>3, <3>4 DEF UiInv, WordIsUnderWay
  <2> QED
    BY <2>1, <2>2 DEF WordIsUnderWay
<1>15. UpdatesAreOwn'
  <2> SUFFICES ASSUME NEW i \in DOMAIN uiOut', uiOut'[i].type = "UPDATE"
               PROVE  \/ uiOut'[i].tab \in tabs /\ tabClient[uiOut'[i].tab] = uiOut'[i].app
                      \/ \E j \in DOMAIN uiOut' :
                            i < j /\ uiOut'[j] = Close(uiOut'[i].tab, uiOut'[i].app)
    BY DEF UpdatesAreOwn
  <2>1. PICK l \in DOMAIN uiOut : l = i + k /\ uiOut[l] = uiOut'[i] /\ i \in Nat
    BY DEF Shifted
  <2>2. ASSUME NEW j \in DOMAIN uiOut, l < j, uiOut[j] = Close(uiOut[l].tab, uiOut[l].app)
        PROVE  \E h \in DOMAIN uiOut' : i < h /\ uiOut'[h] = Close(uiOut[l].tab, uiOut[l].app)
    <3>1. j > k /\ j \in Nat
      BY <1>3, <1>4, <2>2, KindsDiffer
    <3>2. j - k \in DOMAIN uiOut' /\ uiOut'[j - k] = uiOut[j]
      BY <3>1 DEF Shifted
    <3>3. i < j - k
      BY <2>1, <2>2, <3>1
    <3> QED
      BY <2>2, <3>2, <3>3
  <2> QED
    BY <2>1, <2>2 DEF UiInv, UpdatesAreOwn
<1>16. ContainersAreKnown'
  <2>1. \A i \in DOMAIN uiOut' : uiOut'[i].tab \in tabs \cup closed
    BY DEF Shifted, UiInv, ContainersAreKnown
  <2>2. \A a \in webAppList' : container'[a] \in tabs \cup closed \cup OpenTypes
    <3>1. webAppList \subseteq Apps /\ container'[app] = b
      BY DEF TypeOK
    <3> QED
      BY <1>10, <3>1 DEF UiInv, ContainersAreKnown
  <2>3. \A a \in dropped : container'[a] \in closed \cup {1}
    <3>1. dropped \subseteq Apps
      BY DEF UiInv, UiTypeOK
    <3> QED
      BY <1>5, <1>10, <3>1 DEF UiInv, ContainersAreKnown
  <2>4. ASSUME NEW i \in DOMAIN uiPipe', uiPipe'[i].type = "NEW_WEBAPP"
        PROVE  uiPipe'[i].container = container'[uiPipe'[i].app]
    <3>1. CASE i \in 1..n
      <4>1. uiPipe[i].app \in Apps /\ uiPipe[i].app # app
        <5>1. uiPipe[i] \in UiMsgs /\ uiPipe[i].type = "NEW_WEBAPP" /\ i \in DOMAIN uiPipe
          BY <1>2, <2>4, <3>1
        <5>2. uiPipe[i].app \in Apps
          BY <5>1, AnnouncementFacts
        <5> QED
          BY <1>5, <5>1, <5>2 DEF Awaited
      <4> QED
        BY <1>2, <1>10, <2>4, <3>1, <4>1 DEF UiInv, ContainersAreKnown
    <3>2. CASE i = n + 1
      <4>1. container'[app] = b
        BY DEF TypeOK
      <4> QED
        BY <1>1, <1>2, <3>2, <4>1
    <3> QED
      BY <1>2, <3>1, <3>2
  <2>5. tabs \cap closed = {}
    BY DEF UiInv, ContainersAreKnown
  <2> QED
    BY <2>1, <2>2, <2>3, <2>4, <2>5 DEF ContainersAreKnown
<1> QED
  BY <1>8, <1>9, <1>14, <1>15, <1>16 DEF Places

\* The kernel reads which tab holds a web app.
LEMMA UpdatePlaces ==
    ASSUME UiInv, TypeOK, uiOut # <<>>, uiOut' = Tail(uiOut), NEW m, m = Head(uiOut),
           m.type = "UPDATE",
           HandleUpdateContainer(m.tab, m.app) \/ (m.app \notin webAppList /\ UNCHANGED vars),
           UNCHANGED <<tabs, closed, tabClient, dropped>>
    PROVE  Places'
<1> DEFINE c == m.tab
           a == m.app
<1>1. Shifted(1) /\ 1 \in DOMAIN uiOut /\ uiOut[1] = m
  BY ShiftFacts DEF UiInv
<1>2. c \in Containers /\ a \in Apps /\ m = Update(c, a)
  BY <1>1, ShiftFacts, RequestFacts DEF UiInv
<1> HIDE DEF c, a
<1>3. \/ c \in tabs /\ tabClient[c] = a
      \/ \E j \in DOMAIN uiOut : 1 < j /\ uiOut[j] = Close(c, a)
  BY <1>1 DEF UiInv, UpdatesAreOwn, c, a
<1>4. Held(a) \/ Closing(a)
  BY <1>3, KindsDiffer DEF Held, Closing
<1>5. a \in webAppList /\ ~Awaited(a) /\ a \notin dropped /\ ~(Held(a) /\ Closing(a))
  BY <1>2, <1>4 DEF UiInv, ListedAreSomewhere, InOnePlace
<1>6. container' = [container EXCEPT ![a] = c] /\ UNCHANGED <<webAppList, uiPipe>>
  BY <1>5 DEF HandleUpdateContainer, a, c
<1>7. container'[a] = c /\ \A x \in Apps : x # a => container'[x] = container[x]
  BY <1>2, <1>6 DEF TypeOK
<1>8. \A i \in DOMAIN uiOut : i \in Nat /\ i > 0 /\ uiOut[i] \in UiRequests
  BY ShiftFacts DEF UiInv
<1>9. \A x \in Apps : /\ Awaited(x)' <=> Awaited(x)
                      /\ Held(x)' <=> Held(x)
                      /\ Closing(x)' <=> Closing(x)
  <2>1. ASSUME NEW x \in Apps, Closing(x) PROVE Closing(x)'
    <3>1. PICK i \in DOMAIN uiOut : uiOut[i].type = "CLOSE" /\ uiOut[i].app = x
      BY <2>1 DEF Closing
    <3>2. i > 1
      BY <1>1, <1>8, <3>1
    <3> QED
      BY <1>1, <3>1, <3>2 DEF Shifted, Closing
  <2>2. \A x \in Apps : Closing(x)' => Closing(x)
    BY <1>1 DEF Closing, Shifted
  <2> QED
    BY <1>6, <2>1, <2>2 DEF Awaited, Held
<1>10. ListedAreSomewhere'
  BY <1>6, <1>9 DEF UiInv, ListedAreSomewhere
<1>11. InOnePlace'
  <2>1. \A i, j \in DOMAIN uiOut' :
          uiOut'[i].type = "CLOSE" /\ uiOut'[j].type = "CLOSE" /\ uiOut'[i].app = uiOut'[j].app
          => i = j
    <3>1. /\ \A i \in DOMAIN uiOut' : i + 1 \in DOMAIN uiOut /\ uiOut'[i] = uiOut[i + 1]
          /\ \A i \in DOMAIN uiOut' : i \in Nat
      BY <1>1 DEF Shifted
    <3> QED
      BY <3>1 DEF UiInv, InOnePlace
  <2>2. \A x \in Apps : /\ Awaited(x)' => ~Held(x)' /\ ~Closing(x)' /\ x \notin dropped'
                        /\ Held(x)' => ~Closing(x)' /\ x \notin dropped'
                        /\ Closing(x)' => x \notin dropped'
    BY <1>9 DEF UiInv, InOnePlace
  <2> QED
    BY <1>6, <2>1, <2>2 DEF UiInv, InOnePlace
<1>12. WordIsUnderWay'
  <2>1. ASSUME NEW t \in tabs, tabClient[t] # NoClient
        PROVE  \/ container'[tabClient[t]] = t
               \/ \E i \in DOMAIN uiOut' : uiOut'[i] = Update(t, tabClient[t])
    <3> DEFINE x == tabClient[t]
    <3>1. t \in Containers /\ x \in Apps
      BY <2>1 DEF UiInv, UiTypeOK
    <3>2. CASE x = a
      <4>1. Held(a)
        BY <3>2 DEF Held
      <4>2. c \in tabs /\ tabClient[c] = a
        BY <1>3, <1>5, <4>1, KindsDiffer DEF Closing
      <4>3. t = c
        BY <2>1, <3>2, <4>2 DEF UiInv, InOnePlace
      <4> QED
        BY <1>7, <3>2, <4>3
    <3>3. CASE x # a /\ container[x] = t
      BY <1>7, <3>1, <3>3
    <3>4. ASSUME x # a, NEW i \in DOMAIN uiOut, uiOut[i] = Update(t, x)
          PROVE  \E l \in DOMAIN uiOut' : uiOut'[l] = Update(t, x)
      <4>1. uiOut[i].app = x
        BY <3>4, KindsDiffer
      <4>2. i # 1
        BY <1>1, <3>4, <4>1 DEF a
      <4>3. i > 1
        BY <1>8, <4>2
      <4> QED
        BY <1>1, <3>4, <4>3 DEF Shifted
    <3> QED
      BY <2>1, <3>2, <3>3, <3>4 DEF UiInv, WordIsUnderWay
  <2>2. ASSUME NEW j \in DOMAIN uiOut', uiOut'[j].type = "CLOSE"
        PROVE  \/ container'[uiOut'[j].app] = uiOut'[j].tab
               \/ \E i \in DOMAIN uiOut' :
                     i < j /\ uiOut'[i] = Update(uiOut'[j].tab, uiOut'[j].app)
    <3>1. PICK l \in DOMAIN uiOut : l = j + 1 /\ uiOut[l] = uiOut'[j] /\ j \in Nat
      BY <1>1 DEF Shifted
    <3> DEFINE x == uiOut[l].app
               t == uiOut[l].tab
    <3>2. x \in Apps /\ uiOut[l].type = "CLOSE"
      BY <1>8, <2>2, <3>1, RequestFacts
    <3>3. CASE x = a
      <4>1. Closing(a)
        BY <3>2, <3>3 DEF Closing
      <4>2. PICK h \in DOMAIN uiOut : uiOut[h] = Close(c, a)
        BY <1>3, <1>5, <4>1 DEF Held
      <4>3. uiOut[h].type = "CLOSE" /\ uiOut[h].app = a /\ uiOut[h].tab = c
        BY <4>2 DEF Close
      <4>4. h = l
        BY <3>2, <3>3, <4>3 DEF UiInv, InOnePlace
      <4> QED
        BY <1>7, <3>1, <3>3, <4>3, <4>4
    <3>4. CASE x # a /\ container[x] = t
      BY <1>7, <3>1, <3>2, <3>4
    <3>5. ASSUME x # a, NEW i \in DOMAIN uiOut, i < l, uiOut[i] = Update(t, x)
          PROVE  \E h \in DOMAIN uiOut' : h < j /\ uiOut'[h] = Update(t, x)
      <4>1. uiOut[i].app = x
        BY <3>5, KindsDiffer
      <4>2. i # 1
        BY <1>1, <3>5, <4>1 DEF a
      <4>3. i > 1 /\ i \in Nat
        BY <1>8, <4>2
      <4>4. i - 1 \in DOMAIN uiOut' /\ uiOut'[i - 1] = uiOut[i]
        BY <1>1, <4>3 DEF Shifted
      <4>5. i - 1 < j
        BY <3>1, <3>5, <4>3
      <4> QED
        BY <3>5, <4>4, <4>5
    <3>6. \/ container[x] = t
          \/ \E i \in DOMAIN uiOut : i < l /\ uiOut[i] = Update(t, x)
      BY <3>2 DEF UiInv, WordIsUnderWay
    <3>7. uiOut'[j].app = x /\ uiOut'[j].tab = t
      BY <3>1
    <3> HIDE DEF x, t
    <3> QED
      BY <3>3, <3>4, <3>5, <3>6, <3>7
  <2> QED
    BY <2>1, <2>2 DEF WordIsUnderWay
<1>13. UpdatesAreOwn'
  <2> SUFFICES ASSUME NEW i \in DOMAIN uiOut', uiOut'[i].type = "UPDATE"
               PROVE  \/ uiOut'[i].tab \in tabs /\ tabClient[uiOut'[i].tab] = uiOut'[i].app
                      \/ \E j \in DOMAIN uiOut' :
                            i < j /\ uiOut'[j] = Close(uiOut'[i].tab, uiOut'[i].app)
    BY DEF UpdatesAreOwn
  <2>1. PICK l \in DOMAIN uiOut : l = i + 1 /\ uiOut[l] = uiOut'[i] /\ i \in Nat
    BY <1>1 DEF Shifted
  <2>2. ASSUME NEW j \in DOMAIN uiOut, l < j, uiOut[j] = Close(uiOut[l].tab, uiOut[l].app)
        PROVE  \E h \in DOMAIN uiOut' : i < h /\ uiOut'[h] = Close(uiOut[l].tab, uiOut[l].app)
    <3>1. j > 1 /\ j \in Nat
      BY <1>8, <2>1, <2>2
    <3>2. j - 1 \in DOMAIN uiOut' /\ uiOut'[j - 1] = uiOut[j]
      BY <1>1, <3>1 DEF Shifted
    <3>3. i < j - 1
      BY <2>1, <2>2, <3>1
    <3> QED
      BY <2>2, <3>2, <3>3
  <2> QED
    BY <2>1, <2>2 DEF UiInv, UpdatesAreOwn
<1>14. ContainersAreKnown'
  <2>1. \A i \in DOMAIN uiOut' : uiOut'[i].tab \in tabs \cup closed
    BY <1>1 DEF Shifted, UiInv, ContainersAreKnown
  <2>2. \A x \in webAppList : container'[x] \in tabs \cup closed \cup OpenTypes
    <3>1. webAppList \subseteq Apps
      BY DEF TypeOK
    <3>2. c \in tabs \cup closed
      BY <1>1 DEF UiInv, ContainersAreKnown, c
    <3> QED
      BY <1>7, <3>1, <3>2 DEF UiInv, ContainersAreKnown
  <2>3. \A x \in dropped : container'[x] \in closed \cup {1}
    <3>1. dropped \subseteq Apps
      BY DEF UiInv, UiTypeOK
    <3> QED
      BY <1>5, <1>7, <3>1 DEF UiInv, ContainersAreKnown
  <2>4. ASSUME NEW i \in DOMAIN uiPipe, uiPipe[i].type = "NEW_WEBAPP"
        PROVE  uiPipe[i].container = container'[uiPipe[i].app]
    <3>1. uiPipe[i].app \in Apps
      <4>1. uiPipe[i] \in UiMsgs
        BY DEF TypeOK
      <4> QED
        BY <2>4, <4>1, AnnouncementFacts
    <3>2. uiPipe[i].app # a
      BY <1>5, <2>4 DEF Awaited
    <3> QED
      BY <1>7, <2>4, <3>1, <3>2 DEF UiInv, ContainersAreKnown
  <2>5. tabs \cap closed = {}
    BY DEF UiInv, ContainersAreKnown
  <2> QED
    BY <1>6, <2>1, <2>2, <2>3, <2>4, <2>5 DEF ContainersAreKnown
<1> QED
  BY <1>10, <1>11, <1>12, <1>13, <1>14 DEF Places

\* The close that the kernel reads next is about a web app whose container it
\* has: the update that says so has been read before.
LEMMA HeadCloseIsAccepted ==
    ASSUME UiInv, uiOut # <<>>, Head(uiOut).type = "CLOSE"
    PROVE  /\ CheckWebAppMsg(Head(uiOut).tab, Head(uiOut).app)
           /\ Head(uiOut).app \in Apps
<1>1. 1 \in DOMAIN uiOut /\ uiOut[1] = Head(uiOut) /\ uiOut[1] \in UiRequests
  <2>1. uiOut \in Seq(UiRequests)
    BY DEF UiInv, UiTypeOK
  <2> QED
    BY <2>1, TailFacts
<1>2. uiOut[1].app \in Apps /\ uiOut[1].type = "CLOSE"
  BY <1>1, RequestFacts
<1>3. uiOut[1].app \in webAppList
  BY <1>1, <1>2 DEF UiInv, ListedAreSomewhere, Closing
<1>4. \A i \in DOMAIN uiOut : ~(i < 1)
  BY ShiftFacts DEF UiInv
<1>5. container[uiOut[1].app] = uiOut[1].tab
  BY <1>1, <1>2, <1>4 DEF UiInv, WordIsUnderWay
<1> QED
  BY <1>1, <1>2, <1>3, <1>5 DEF CheckWebAppMsg

\* The kernel parks a web app that its tab has given back.
LEMMA ClosePlaces ==
    ASSUME UiInv, TypeOK, uiOut # <<>>, uiOut' = Tail(uiOut), NEW m, m = Head(uiOut),
           m.type = "CLOSE",
           HandleCloseWebApp(m.tab, m.app) \/ (~CheckWebAppMsg(m.tab, m.app) /\ UNCHANGED vars),
           UNCHANGED <<tabs, closed, tabClient, dropped>>
    PROVE  Places'
<1> DEFINE a == m.app
<1>1. Shifted(1) /\ 1 \in DOMAIN uiOut /\ uiOut[1] = m
  BY ShiftFacts DEF UiInv
<1>2. a \in Apps /\ CheckWebAppMsg(m.tab, a)
  BY HeadCloseIsAccepted
<1>3. /\ webAppList' = webAppList \ {a}
      /\ container' = [container EXCEPT ![a] = 0]
      /\ uiPipe' = uiPipe
  BY <1>2 DEF HandleCloseWebApp
<1>4. Closing(a)
  BY <1>1 DEF Closing
<1> HIDE DEF a
<1>5. ~Awaited(a) /\ ~Held(a) /\ a \notin dropped
  BY <1>2, <1>4 DEF UiInv, InOnePlace
<1>6. \A x \in Apps : x # a => container'[x] = container[x]
  BY <1>2, <1>3 DEF TypeOK
<1>7. \A i \in DOMAIN uiOut : i \in Nat /\ i > 0 /\ uiOut[i] \in UiRequests
  BY ShiftFacts DEF UiInv
<1>8. \A i \in DOMAIN uiOut : uiOut[i].type = "CLOSE" /\ uiOut[i].app = a => i = 1
  BY <1>1 DEF UiInv, InOnePlace, a
<1>9. ~Closing(a)'
  <2> SUFFICES ASSUME NEW i \in DOMAIN uiOut', uiOut'[i].type = "CLOSE", uiOut'[i].app = a
               PROVE  FALSE
    BY DEF Closing
  <2>1. i + 1 \in DOMAIN uiOut /\ uiOut'[i] = uiOut[i + 1] /\ i \in Nat \ {0}
    BY <1>1 DEF Shifted
  <2>2. i + 1 = 1
    BY <1>8, <2>1
  <2> QED
    BY <2>1, <2>2
<1>10. \A x \in Apps : /\ Awaited(x)' <=> Awaited(x)
                       /\ Held(x)' <=> Held(x)
                       /\ x # a => (Closing(x)' <=> Closing(x))
  <2>1. ASSUME NEW x \in Apps, Closing(x), x # a PROVE Closing(x)'
    <3>1. PICK i \in DOMAIN uiOut : uiOut[i].type = "CLOSE" /\ uiOut[i].app = x
      BY <2>1 DEF Closing
    <3>2. i > 1
      BY <1>1, <1>7, <2>1, <3>1 DEF a
    <3> QED
      BY <1>1, <3>1, <3>2 DEF Shifted, Closing
  <2>2. \A x \in Apps : Closing(x)' => Closing(x)
    BY <1>1 DEF Closing, Shifted
  <2> QED
    BY <1>3, <2>1, <2>2 DEF Awaited, Held
<1>11. ListedAreSomewhere'
  <2>1. \A x \in Apps : x \in webAppList' <=> x \in webAppList /\ x # a
    BY <1>3
  <2> QED
    BY <1>5, <1>9, <1>10, <2>1 DEF UiInv, ListedAreSomewhere
<1>12. InOnePlace'
  <2>1. \A i, j \in DOMAIN uiOut' :
          uiOut'[i].type = "CLOSE" /\ uiOut'[j].type = "CLOSE" /\ uiOut'[i].app = uiOut'[j].app
          => i = j
    <3>1. /\ \A i \in DOMAIN uiOut' : i + 1 \in DOMAIN uiOut /\ uiOut'[i] = uiOut[i + 1]
          /\ \A i \in DOMAIN uiOut' : i \in Nat
      BY <1>1 DEF Shifted
    <3> QED
      BY <3>1 DEF UiInv, InOnePlace
  <2>2. \A x \in Apps : /\ Awaited(x)' => ~Held(x)' /\ ~Closing(x)' /\ x \notin dropped'
                        /\ Held(x)' => ~Closing(x)' /\ x \notin dropped'
                        /\ Closing(x)' => x \notin dropped'
    BY <1>9, <1>10 DEF UiInv, InOnePlace
  <2> QED
    BY <1>3, <2>1, <2>2 DEF UiInv, InOnePlace
<1>13. WordIsUnderWay'
  <2>1. ASSUME NEW t \in tabs, tabClient[t] # NoClient
        PROVE  \/ container'[tabClient[t]] = t
               \/ \E i \in DOMAIN uiOut' : uiOut'[i] = Update(t, tabClient[t])
    <3> DEFINE x == tabClient[t]
    <3>1. x \in Apps /\ x # a
      BY <1>5, <2>1 DEF UiInv, UiTypeOK, Held
    <3>2. CASE container[x] = t
      BY <1>6, <3>1, <3>2
    <3>3. ASSUME NEW i \in DOMAIN uiOut, uiOut[i] = Update(t, x)
          PROVE  \E l \in DOMAIN uiOut' : uiOut'[l] = Update(t, x)
      <4>1. i # 1
        BY <1>1, <3>3, KindsDiffer
      <4>2. i > 1
        BY <1>7, <4>1
      <4> QED
        BY <1>1, <3>3, <4>2 DEF Shifted
    <3> QED
      BY <2>1, <3>2, <3>3 DEF UiInv, WordIsUnderWay
  <2>2. ASSUME NEW j \in DOMAIN uiOut', uiOut'[j].type = "CLOSE"
        PROVE  \/ container'[uiOut'[j].app] = uiOut'[j].tab
               \/ \E i \in DOMAIN uiOut' :
                     i < j /\ uiOut'[i] = Update(uiOut'[j].tab, uiOut'[j].app)
    <3>1. PICK l \in DOMAIN uiOut : l = j + 1 /\ uiOut[l] = uiOut'[j] /\ j \in Nat \ {0}
      BY <1>1 DEF Shifted
    <3> DEFINE x == uiOut[l].app
               t == uiOut[l].tab
    <3>2. x \in Apps /\ uiOut[l].type = "CLOSE"
      BY <1>7, <2>2, <3>1, RequestFacts
    <3>3. x # a
      BY <1>8, <3>1, <3>2
    <3>4. CASE container[x] = t
      BY <1>6, <3>1, <3>2, <3>3, <3>4
    <3>5. ASSUME NEW i \in DOMAIN uiOut, i < l, uiOut[i] = Update(t, x)
          PROVE  \E h \in DOMAIN uiOut' : h < j /\ uiOut'[h] = Update(t, x)
      <4>1. i # 1
        BY <1>1, <3>5, KindsDiffer
      <4>2. i > 1 /\ i \in Nat
        BY <1>7, <4>1
      <4>3. i - 1 \in DOMAIN uiOut' /\ uiOut'[i - 1] = uiOut[i]
        BY <1>1, <4>2 DEF Shifted
      <4>4. i - 1 < j
        BY <3>1, <3>5, <4>2
      <4> QED
        BY <3>5, <4>3, <4>4
    <3>6. \/ container[x] = t
          \/ \E i \in DOMAIN uiOut : i < l /\ uiOut[i] = Update(t, x)
      BY <3>2 DEF UiInv, WordIsUnderWay
    <3>7. uiOut'[j].app = x /\ uiOut'[j].tab = t
      BY <3>1
    <3> HIDE DEF x, t
    <3> QED
      BY <3>4, <3>5, <3>6, <3>7
  <2> QED
    BY <2>1, <2>2 DEF WordIsUnderWay
<1>14. UpdatesAreOwn'
  <2> SUFFICES ASSUME NEW i \in DOMAIN uiOut', uiOut'[i].type = "UPDATE"
               PROVE  \/ uiOut'[i].tab \in tabs /\ tabClient[uiOut'[i].tab] = uiOut'[i].app
                      \/ \E j \in DOMAIN uiOut' :
                            i < j /\ uiOut'[j] = Close(uiOut'[i].tab, uiOut'[i].app)
    BY DEF UpdatesAreOwn
  <2>1. PICK l \in DOMAIN uiOut : l = i + 1 /\ uiOut[l] = uiOut'[i] /\ i \in Nat
    BY <1>1 DEF Shifted
  <2>2. ASSUME NEW j \in DOMAIN uiOut, l < j, uiOut[j] = Close(uiOut[l].tab, uiOut[l].app)
        PROVE  \E h \in DOMAIN uiOut' : i < h /\ uiOut'[h] = Close(uiOut[l].tab, uiOut[l].app)
    <3>1. j > 1 /\ j \in Nat
      BY <1>7, <2>1, <2>2
    <3>2. j - 1 \in DOMAIN uiOut' /\ uiOut'[j - 1] = uiOut[j]
      BY <1>1, <3>1 DEF Shifted
    <3>3. i < j - 1
      BY <2>1, <2>2, <3>1
    <3> QED
      BY <2>2, <3>2, <3>3
  <2> QED
    BY <2>1, <2>2 DEF UiInv, UpdatesAreOwn
<1>15. ContainersAreKnown'
  <2>1. \A i \in DOMAIN uiOut' : uiOut'[i].tab \in tabs \cup closed
    BY <1>1 DEF Shifted, UiInv, ContainersAreKnown
  <2>2. \A x \in webAppList' : container'[x] \in tabs \cup closed \cup OpenTypes
    <3>1. webAppList \subseteq Apps
      BY DEF TypeOK
    <3> QED
      BY <1>3, <1>6, <3>1 DEF UiInv, ContainersAreKnown
  <2>3. \A x \in dropped : container'[x] \in closed \cup {1}
    <3>1. dropped \subseteq Apps
      BY DEF UiInv, UiTypeOK
    <3> QED
      BY <1>5, <1>6, <3>1 DEF UiInv, ContainersAreKnown
  <2>4. ASSUME NEW i \in DOMAIN uiPipe, uiPipe[i].type = "NEW_WEBAPP"
        PROVE  uiPipe[i].container = container'[uiPipe[i].app]
    <3>1. uiPipe[i].app \in Apps
      <4>1. uiPipe[i] \in UiMsgs
        BY DEF TypeOK
      <4> QED
        BY <2>4, <4>1, AnnouncementFacts
    <3>2. uiPipe[i].app # a
      BY <1>5, <2>4 DEF Awaited
    <3> QED
      BY <1>6, <2>4, <3>1, <3>2 DEF UiInv, ContainersAreKnown
  <2>5. tabs \cap closed = {}
    BY DEF UiInv, ContainersAreKnown
  <2> QED
    BY <1>3, <2>1, <2>2, <2>3, <2>4, <2>5 DEF ContainersAreKnown
<1> QED
  BY <1>11, <1>12, <1>13, <1>14, <1>15 DEF Places

\* The UI reads a message of the kernel.
LEMMA PipeRead ==
    ASSUME UiInv, TypeOK, uiPipe # <<>>, uiPipe' = Tail(uiPipe)
    PROVE  /\ Head(uiPipe) \in UiMsgs /\ Head(uiPipe) = uiPipe[1] /\ 1 \in DOMAIN uiPipe
           /\ \A x \in Apps : Awaited(x)' <=>
                 Awaited(x) /\ ~(Head(uiPipe).type = "NEW_WEBAPP" /\ Head(uiPipe).app = x)
           /\ \A i \in DOMAIN uiPipe' : i \in Nat /\ i + 1 \in DOMAIN uiPipe
                                        /\ uiPipe'[i] = uiPipe[i + 1]
<1>1. /\ Head(uiPipe) \in UiMsgs /\ Head(uiPipe) = uiPipe[1] /\ 1 \in DOMAIN uiPipe
      /\ Len(uiPipe) \in Nat /\ DOMAIN uiPipe = 1..Len(uiPipe)
      /\ DOMAIN uiPipe' = 1..(Len(uiPipe) - 1)
      /\ \A i \in DOMAIN uiPipe' : i + 1 \in DOMAIN uiPipe /\ uiPipe'[i] = uiPipe[i + 1]
  <2>1. uiPipe \in Seq(UiMsgs)
    BY DEF TypeOK
  <2> QED
    BY <2>1, TailFacts
<1>2. ASSUME NEW x \in Apps, Awaited(x), ~(uiPipe[1].type = "NEW_WEBAPP" /\ uiPipe[1].app = x)
      PROVE  Awaited(x)'
  <2>1. PICK i \in DOMAIN uiPipe : uiPipe[i].type = "NEW_WEBAPP" /\ uiPipe[i].app = x
    BY <1>2 DEF Awaited
  <2>2. i # 1
    BY <1>2, <2>1
  <2>3. i - 1 \in DOMAIN uiPipe' /\ uiPipe'[i - 1] = uiPipe[i]
    BY <1>1, <2>2
  <2> QED
    BY <2>1, <2>3 DEF Awaited
<1>3. ASSUME NEW x \in Apps, Awaited(x)'
      PROVE  Awaited(x) /\ ~(uiPipe[1].type = "NEW_WEBAPP" /\ uiPipe[1].app = x)
  <2>1. PICK i \in DOMAIN uiPipe' : uiPipe'[i].type = "NEW_WEBAPP" /\ uiPipe'[i].app = x
    BY <1>3 DEF Awaited
  <2>2. i + 1 \in DOMAIN uiPipe /\ uiPipe[i + 1] = uiPipe'[i] /\ i + 1 # 1
    BY <1>1, <2>1
  <2> QED
    BY <1>1, <2>1, <2>2 DEF Awaited, UiInv, InOnePlace
<1> QED
  BY <1>1, <1>2, <1>3

\* A tab gets the web app that the UI has just read of.
LEMMA EmbedPlaces ==
    ASSUME UiInv, TypeOK, uiPipe # <<>>, uiPipe' = Tail(uiPipe),
           Head(uiPipe).type = "NEW_WEBAPP", NEW app, app = Head(uiPipe).app,
           NEW tab \in Containers, HandleEmbed(tab, app), tab \notin closed, closed' = closed,
           tabs' = tabs \cup {tab}, UNCHANGED <<webAppList, container>>
    PROVE  Places'
<1> DEFINE old == tabClient[tab]
           n == Len(uiOut)
<1>1. /\ uiPipe[1].type = "NEW_WEBAPP" /\ uiPipe[1].app = app
      /\ uiPipe[1] \in UiMsgs /\ 1 \in DOMAIN uiPipe
      /\ \A x \in Apps : Awaited(x)' <=> Awaited(x) /\ x # app
      /\ \A i \in DOMAIN uiPipe' : i \in Nat /\ i + 1 \in DOMAIN uiPipe
                                   /\ uiPipe'[i] = uiPipe[i + 1]
  BY PipeRead
<1>2. app \in Apps /\ Awaited(app)
  BY <1>1, AnnouncementFacts DEF Awaited
<1>3. app # NoClient
  BY <1>2, UiValues
<1>4. ~Held(app) /\ ~Closing(app) /\ app \notin dropped /\ app \in webAppList
  BY <1>2 DEF UiInv, InOnePlace, ListedAreSomewhere
<1>5. /\ uiOut' = uiOut \o Announced(tab, app)
      /\ tabClient' = [tabClient EXCEPT ![tab] = app]
      /\ dropped' = dropped
  BY DEF HandleEmbed
<1>6. /\ tabClient'[tab] = app /\ \A t \in Containers \ {tab} : tabClient'[t] = tabClient[t]
      /\ tabs \subseteq Containers /\ old \in Apps \cup {NoClient}
      /\ tab \notin tabs => old = NoClient
  BY <1>5 DEF UiInv, UiTypeOK, EmptyTabsAreQuiet
<1>7. /\ n \in Nat /\ DOMAIN uiOut = 1..n
      /\ DOMAIN uiOut' = 1..(n + (IF old = NoClient THEN 1 ELSE 2))
      /\ \A i \in 1..n : uiOut'[i] = uiOut[i]
      /\ uiOut'[n + 1] = Update(tab, app)
      /\ old # NoClient => uiOut'[n + 2] = Close(tab, old)
  BY <1>2, <1>5, AnnouncedFacts DEF UiInv
<1> HIDE DEF old, n
<1>8. /\ uiOut'[n + 1].type = "UPDATE" /\ uiOut'[n + 1].tab = tab /\ uiOut'[n + 1].app = app
      /\ old # NoClient => /\ uiOut'[n + 2].type = "CLOSE" /\ uiOut'[n + 2].tab = tab
                           /\ uiOut'[n + 2].app = old
  BY <1>7, KindsDiffer
<1>9. \A x \in Apps : Held(x)' <=> (Held(x) /\ x # old) \/ x = app
  <2>1. ASSUME NEW x \in Apps, Held(x), x # old PROVE Held(x)'
    BY <1>6, <2>1 DEF Held, old
  <2>2. Held(app)'
    BY <1>6 DEF Held
  <2>3. ASSUME NEW x \in Apps, Held(x)', x # app PROVE Held(x) /\ x # old
    <3>1. PICK t \in tabs' : tabClient'[t] = x
      BY <2>3 DEF Held
    <3>2. t \in tabs /\ t # tab /\ tabClient[t] = x /\ x # NoClient
      BY <1>6, <2>3, <3>1, UiValues
    <3>3. x # old
      BY <1>6, <3>2 DEF UiInv, InOnePlace, old
    <3> QED
      BY <3>2, <3>3 DEF Held
  <2> QED
    BY <2>1, <2>2, <2>3
<1>10. \A x \in Apps : Closing(x)' <=> Closing(x) \/ x = old
  <2>1. ASSUME NEW x \in Apps, Closing(x) PROVE Closing(x)'
    BY <1>7, <2>1 DEF Closing
  <2>2. ASSUME NEW x \in Apps, x = old PROVE Closing(x)'
    <3>1. n + 2 \in DOMAIN uiOut' /\ uiOut'[n + 2].type = "CLOSE" /\ uiOut'[n + 2].app = x
      BY <1>7, <1>8, <2>2, UiValues
    <3> QED
      BY <3>1 DEF Closing
  <2>3. ASSUME NEW x \in Apps, Closing(x)', x # old PROVE Closing(x)
    BY <1>7, <1>8, <2>3 DEF Closing
  <2> QED
    BY <2>1, <2>2, <2>3
<1>11. old \in Apps =>
          Held(old) /\ ~Closing(old) /\ ~Awaited(old) /\ old \notin dropped /\ old # app
  <2>1. old \in Apps => Held(old)
    BY <1>6, UiValues DEF Held, old
  <2> QED
    BY <1>4, <2>1 DEF UiInv, InOnePlace
<1>12. ListedAreSomewhere'
  BY <1>1, <1>2, <1>4, <1>5, <1>9, <1>10, <1>11 DEF UiInv, ListedAreSomewhere
<1>13. InOnePlace'
  <2>1. \A x \in Apps : /\ Awaited(x)' => ~Held(x)' /\ ~Closing(x)' /\ x \notin dropped'
                        /\ Held(x)' => ~Closing(x)' /\ x \notin dropped'
                        /\ Closing(x)' => x \notin dropped'
    BY <1>1, <1>4, <1>5, <1>9, <1>10, <1>11 DEF UiInv, InOnePlace
  <2>2. \A t, u \in tabs' : tabClient'[t] = tabClient'[u] /\ tabClient'[t] # NoClient => t = u
    BY <1>4, <1>6 DEF UiInv, InOnePlace, Held
  <2>3. \A i, j \in DOMAIN uiPipe' :
          /\ uiPipe'[i].type = "NEW_WEBAPP" /\ uiPipe'[j].type = "NEW_WEBAPP"
          /\ uiPipe'[i].app = uiPipe'[j].app
          => i = j
    BY <1>1 DEF UiInv, InOnePlace
  <2>4. ASSUME NEW i \in DOMAIN uiOut', NEW j \in DOMAIN uiOut',
               uiOut'[i].type = "CLOSE", uiOut'[j].type = "CLOSE",
               uiOut'[i].app = uiOut'[j].app
        PROVE  i = j
    <3>1. CASE i \in 1..n /\ j \in 1..n
      BY <1>7, <2>4, <3>1 DEF UiInv, InOnePlace
    <3>2. ASSUME NEW h \in 1..n, uiOut'[h].type = "CLOSE"
          PROVE  uiOut'[h].app # old \/ old = NoClient
      BY <1>6, <1>7, <1>11, <3>2 DEF Closing
    <3>3. i # n + 1 /\ j # n + 1
      BY <1>8, <2>4
    <3> QED
      BY <1>7, <1>8, <2>4, <3>1, <3>2, <3>3
  <2> QED
    BY <2>1, <2>2, <2>3, <2>4 DEF InOnePlace
<1>14. WordIsUnderWay'
  <2>1. ASSUME NEW t \in tabs', tabClient'[t] # NoClient
        PROVE  \/ container[tabClient'[t]] = t
               \/ \E i \in DOMAIN uiOut' : uiOut'[i] = Update(t, tabClient'[t])
    <3>1. CASE t = tab
      BY <1>6, <1>7, <3>1
    <3>2. CASE t # tab
      <4>1. t \in tabs /\ tabClient'[t] = tabClient[t]
        BY <1>6, <3>2
      <4>2. DOMAIN uiOut \subseteq DOMAIN uiOut' /\ \A i \in DOMAIN uiOut : uiOut'[i] = uiOut[i]
        BY <1>7
      <4>3. \/ container[tabClient[t]] = t
            \/ \E i \in DOMAIN uiOut : uiOut[i] = Update(t, tabClient[t])
        BY <2>1, <4>1 DEF UiInv, WordIsUnderWay
      <4> QED
        BY <4>1, <4>2, <4>3
    <3> QED
      BY <3>1, <3>2
  <2>2. ASSUME NEW j \in DOMAIN uiOut', uiOut'[j].type = "CLOSE"
        PROVE  \/ container[uiOut'[j].app] = uiOut'[j].tab
               \/ \E i \in DOMAIN uiOut' :
                     i < j /\ uiOut'[i] = Update(uiOut'[j].tab, uiOut'[j].app)
    <3>1. DOMAIN uiOut \subseteq DOMAIN uiOut' /\ \A i \in DOMAIN uiOut : uiOut'[i] = uiOut[i]
      BY <1>7
    <3>2. CASE j \in DOMAIN uiOut
      <4>1. \/ container[uiOut[j].app] = uiOut[j].tab
            \/ \E i \in DOMAIN uiOut : i < j /\ uiOut[i] = Update(uiOut[j].tab, uiOut[j].app)
        BY <2>2, <3>1, <3>2 DEF UiInv, WordIsUnderWay
      <4> QED
        BY <3>1, <3>2, <4>1
    <3>3. CASE j = n + 2 /\ old # NoClient
      <4>1. tab \in tabs /\ tabClient[tab] = old
        BY <1>6, <3>3 DEF old
      <4>2. \/ container[old] = tab
            \/ \E i \in DOMAIN uiOut : uiOut[i] = Update(tab, old)
        BY <3>3, <4>1 DEF UiInv, WordIsUnderWay
      <4>3. \A i \in DOMAIN uiOut : i < j
        BY <1>7, <3>3
      <4> QED
        BY <1>8, <3>1, <3>3, <4>2, <4>3
    <3>4. j # n + 1
      BY <1>8, <2>2
    <3> QED
      BY <1>7, <3>2, <3>3, <3>4
  <2> QED
    BY <1>5, <2>1, <2>2 DEF WordIsUnderWay
<1>15. UpdatesAreOwn'
  <2> SUFFICES ASSUME NEW i \in DOMAIN uiOut', uiOut'[i].type = "UPDATE"
               PROVE  \/ uiOut'[i].tab \in tabs' /\ tabClient'[uiOut'[i].tab] = uiOut'[i].app
                      \/ \E j \in DOMAIN uiOut' :
                            i < j /\ uiOut'[j] = Close(uiOut'[i].tab, uiOut'[i].app)
    BY DEF UpdatesAreOwn
  <2>1. DOMAIN uiOut \subseteq DOMAIN uiOut' /\ \A h \in DOMAIN uiOut : uiOut'[h] = uiOut[h]
    BY <1>7
  <2>2. CASE i = n + 1
    BY <1>6, <1>8, <2>2
  <2>3. CASE i \in DOMAIN uiOut
    <3>1. \/ uiOut[i].tab \in tabs /\ tabClient[uiOut[i].tab] = uiOut[i].app
          \/ \E j \in DOMAIN uiOut : i < j /\ uiOut[j] = Close(uiOut[i].tab, uiOut[i].app)
      BY <2>1, <2>3 DEF UiInv, UpdatesAreOwn
    <3>2. CASE uiOut[i].tab \in tabs /\ tabClient[uiOut[i].tab] = uiOut[i].app
               /\ uiOut[i].tab # tab
      BY <1>6, <2>1, <2>3, <3>2
    <3>3. CASE uiOut[i].tab = tab /\ tabClient[tab] = uiOut[i].app
      <4>1. uiOut[i].app \in Apps
        <5>1. uiOut[i] \in UiRequests
          BY <2>3, ShiftFacts DEF UiInv
        <5> QED
          BY <2>1, <2>3, <5>1, RequestFacts
      <4>2. old = uiOut[i].app /\ old # NoClient
        BY <3>3, <4>1, UiValues DEF old
      <4>3. n + 2 \in DOMAIN uiOut' /\ i < n + 2 /\ uiOut'[n + 2] = Close(tab, old)
        BY <1>7, <2>3, <4>2
      <4> QED
        BY <2>1, <2>3, <3>3, <4>2, <4>3
    <3>4. CASE \E j \in DOMAIN uiOut : i < j /\ uiOut[j] = Close(uiOut[i].tab, uiOut[i].app)
      BY <2>1, <2>3, <3>4
    <3> QED
      BY <3>1, <3>2, <3>3, <3>4
  <2>4. CASE i = n + 2 /\ old # NoClient
    BY <1>8, <2>4
  <2> QED
    BY <1>7, <2>2, <2>3, <2>4
<1>16. ContainersAreKnown'
  <2>1. \A i \in DOMAIN uiOut' : uiOut'[i].tab \in tabs' \cup closed
    <3>1. \A i \in 1..n : uiOut'[i].tab \in tabs \cup closed
      BY <1>7 DEF UiInv, ContainersAreKnown
    <3> QED
      BY <1>7, <1>8, <3>1
  <2>2. \A x \in webAppList : container[x] \in tabs' \cup closed \cup OpenTypes
    BY DEF UiInv, ContainersAreKnown
  <2>3. \A i \in DOMAIN uiPipe' : uiPipe'[i].type = "NEW_WEBAPP" =>
          uiPipe'[i].container = container[uiPipe'[i].app]
    BY <1>1 DEF UiInv, ContainersAreKnown
  <2>4. tabs' \cap closed = {} /\ \A x \in dropped : container[x] \in closed \cup {1}
    BY DEF UiInv, ContainersAreKnown
  <2> QED
    BY <1>5, <2>1, <2>2, <2>3, <2>4 DEF ContainersAreKnown
<1> QED
  BY <1>12, <1>13, <1>14, <1>15, <1>16 DEF Places

\* The UI reads a message that no tab takes, or that is not about a web app to
\* be shown: `gone' are the web apps it drops.
LEMMA IgnoredPlaces ==
    ASSUME UiInv, TypeOK, uiPipe # <<>>, uiPipe' = Tail(uiPipe), NEW gone \in SUBSET Apps,
           \A x \in Apps : x \in gone <=>
              Head(uiPipe).type = "NEW_WEBAPP" /\ Head(uiPipe).app = x,
           \A x \in gone : container[x] \in closed \cup {1},
           dropped' = dropped \cup gone,
           UNCHANGED <<uiOut, tabs, closed, tabClient, webAppList, container>>
    PROVE  Places'
<1>1. /\ uiPipe[1] = Head(uiPipe) /\ 1 \in DOMAIN uiPipe
      /\ \A x \in Apps : Awaited(x)' <=> Awaited(x) /\ x \notin gone
      /\ \A i \in DOMAIN uiPipe' : i \in Nat /\ i + 1 \in DOMAIN uiPipe
                                   /\ uiPipe'[i] = uiPipe[i + 1]
  BY PipeRead
<1>2. \A x \in gone : Awaited(x)
  BY <1>1 DEF Awaited
<1>3. \A x \in Apps : (Held(x)' <=> Held(x)) /\ (Closing(x)' <=> Closing(x))
  BY DEF Held, Closing
<1>4. ListedAreSomewhere'
  BY <1>1, <1>2, <1>3 DEF UiInv, ListedAreSomewhere
<1>5. InOnePlace'
  <2>1. \A x \in Apps : /\ Awaited(x)' => ~Held(x)' /\ ~Closing(x)' /\ x \notin dropped'
                        /\ Held(x)' => ~Closing(x)' /\ x \notin dropped'
                        /\ Closing(x)' => x \notin dropped'
    BY <1>1, <1>2, <1>3 DEF UiInv, InOnePlace
  <2>2. \A i, j \in DOMAIN uiPipe' :
          /\ uiPipe'[i].type = "NEW_WEBAPP" /\ uiPipe'[j].type = "NEW_WEBAPP"
          /\ uiPipe'[i].app = uiPipe'[j].app
          => i = j
    BY <1>1 DEF UiInv, InOnePlace
  <2> QED
    BY <2>1, <2>2 DEF UiInv, InOnePlace
<1>6. WordIsUnderWay' /\ UpdatesAreOwn'
  BY DEF UiInv, WordIsUnderWay, UpdatesAreOwn
<1>7. ContainersAreKnown'
  <2>1. \A i \in DOMAIN uiPipe' : uiPipe'[i].type = "NEW_WEBAPP" =>
          uiPipe'[i].container = container[uiPipe'[i].app]
    BY <1>1 DEF UiInv, ContainersAreKnown
  <2> QED
    BY <2>1 DEF UiInv, ContainersAreKnown
<1> QED
  BY <1>4, <1>5, <1>6, <1>7 DEF Places

\* The event loop of the UI reads from its socket.
LEMMA UiDispatchKeeps ==
    ASSUME UiInv, TypeOK, UiDispatch
    PROVE  UiInv'
<1> DEFINE m == Head(uiPipe)
<1>1. /\ uiPipe # <<>> /\ uiPipe' = Tail(uiPipe) /\ UNCHANGED <<webAppList, container>>
  BY DEF UiDispatch, kernelVars
<1>2. m \in UiMsgs /\ m = uiPipe[1] /\ 1 \in DOMAIN uiPipe
  BY <1>1, PipeRead
<1>3. ASSUME NEW tab \in Containers, HandleEmbed(tab, m.app), m.type = "NEW_WEBAPP",
             tab \notin closed, closed' = closed, tabs' = tabs \cup {tab}, current' \in tabs'
      PROVE  UiInv'
  <2>1. m.app \in Apps
    BY <1>2, <1>3, AnnouncementFacts
  <2>2. UiTypeOK' /\ EmptyTabsAreQuiet'
    BY <1>3, <2>1, HandleEmbedWindows DEF UiInv
  <2>3. Places'
    BY <1>1, <1>3, EmbedPlaces
  <2> QED
    BY <2>2, <2>3 DEF UiInv, Places
<1>4. tabs \subseteq Containers /\ current \in tabs /\ tabs \cap closed = {}
  BY DEF UiInv, UiTypeOK, ContainersAreKnown
<1>5. CASE m.type = "NEW_WEBAPP" /\ Destination(m) # {}
  <2>1. PICK t \in Destination(m) : HandleEmbed(t, m.app)
    BY <1>5 DEF UiDispatch
  <2>2. UNCHANGED <<tabs, closed, current>>
    BY <1>5 DEF UiDispatch
  <2>3. t \in tabs
    BY <1>4, <2>1 DEF Destination
  <2> QED
    BY <1>3, <1>4, <1>5, <2>1, <2>2, <2>3
<1>6. CASE m.type = "NEW_WEBAPP" /\ Destination(m) = {}
  <2>1. NoDestination(m)
    BY <1>6 DEF UiDispatch
  <2>2. CASE HandleEmbed(current, m.app) /\ UNCHANGED <<tabs, closed, current>>
    BY <1>3, <1>4, <1>6, <2>2
  <2>3. ASSUME NEW c \in NextTab, tabs' = tabs \cup {c}, current' \in {current, c},
               HandleEmbed(c, m.app), closed' = closed
        PROVE  UiInv'
    <3>1. c \in Containers /\ c \notin closed
      BY <2>3 DEF NextTab
    <3> QED
      BY <1>3, <1>4, <1>6, <2>3, <3>1
  <2>4. ASSUME m.container \notin 2..4, dropped' = dropped \cup {m.app},
               UNCHANGED <<uiOut, tabs, closed, current, tabClient, embedding, timers,
                           shown, parent, xEvents, superseded>>
        PROVE  UiInv'
    <3>1. m.app \in Apps /\ m.container = container[m.app]
      BY <1>2, <1>6, AnnouncementFacts DEF UiInv, ContainersAreKnown
    <3>2. m.app \in webAppList
      BY <1>2, <1>6, <3>1 DEF UiInv, ListedAreSomewhere, Awaited
    <3>3. container[m.app] \in tabs \cup closed \cup OpenTypes
      BY <3>2 DEF UiInv, ContainersAreKnown
    <3>4. m.container \notin tabs
      BY <1>6 DEF Destination, IsFor
    <3>5. container[m.app] \in closed \cup {1}
      <4>1. PICK b : b = m.container
        OBVIOUS
      <4>2. b \in closed \/ b \in 1..4
        BY <3>1, <3>3, <3>4, <4>1, UiAssumption
      <4>3. b \in 1..4 => b = 1
        BY <2>4, <4>1
      <4> QED
        BY <3>1, <4>1, <4>2, <4>3
    <3>6. PICK a : a = m.app
      OBVIOUS
    <3>7. Places'
      <4>1. {a} \in SUBSET Apps /\ dropped' = dropped \cup {a}
        BY <2>4, <3>1, <3>6
      <4>2. /\ \A x \in Apps : x \in {a} <=>
                  Head(uiPipe).type = "NEW_WEBAPP" /\ Head(uiPipe).app = x
            /\ \A x \in {a} : container[x] \in closed \cup {1}
        BY <1>6, <3>5, <3>6
      <4> QED
        BY <1>1, <2>4, <4>1, <4>2, IgnoredPlaces
    <3>8. UiTypeOK' /\ EmptyTabsAreQuiet'
      BY <2>4, <3>1 DEF UiInv, UiTypeOK, EmptyTabsAreQuiet
    <3> QED
      BY <3>7, <3>8 DEF UiInv, Places
  <2> QED
    BY <2>1, <2>2, <2>3, <2>4 DEF NoDestination
<1>7. CASE m.type # "NEW_WEBAPP"
  <2>1. UNCHANGED uiVars
    BY <1>7 DEF UiDispatch
  <2>2. Places'
    <3>1. /\ {} \in SUBSET Apps /\ dropped' = dropped \cup {}
          /\ \A x \in Apps : x \in {} <=>
                Head(uiPipe).type = "NEW_WEBAPP" /\ Head(uiPipe).app = x
      BY <1>7, <2>1 DEF uiVars
    <3> QED
      BY <1>1, <2>1, <3>1, IgnoredPlaces DEF uiVars
  <2>3. UiTypeOK' /\ EmptyTabsAreQuiet'
    BY <2>1 DEF UiInv, UiTypeOK, EmptyTabsAreQuiet, uiVars
  <2> QED
    BY <2>2, <2>3 DEF UiInv, Places
<1> QED
  BY <1>5, <1>6, <1>7

\* The tabs' web apps and the pipes stay as they are.
LEMMA NothingMovesPlaces ==
    ASSUME UiInv, UNCHANGED <<uiOut, tabs, closed, tabClient, dropped, webAppList, container,
                              uiPipe>>
    PROVE  Places'
<1>1. \A x \in Apps : /\ Awaited(x)' <=> Awaited(x)
                      /\ Held(x)' <=> Held(x)
                      /\ Closing(x)' <=> Closing(x)
  BY DEF Awaited, Held, Closing
<1>2. ListedAreSomewhere'
  BY <1>1 DEF UiInv, ListedAreSomewhere
<1>3. InOnePlace'
  BY <1>1 DEF UiInv, InOnePlace
<1> QED
  BY <1>2, <1>3 DEF UiInv, Places, WordIsUnderWay, UpdatesAreOwn, ContainersAreKnown

\* makeNewTab
LEMMA NewTabKeeps ==
    ASSUME UiInv, NewTab
    PROVE  UiInv'
<1>1. PICK c \in NextTab : tabs' = tabs \cup {c} /\ current' \in {current, c}
  BY DEF NewTab
<1>2. UNCHANGED <<vars, uiOut, closed, tabClient, embedding, timers, shown, parent,
                  xEvents, dropped, superseded>>
  BY DEF NewTab
<1>3. c \in Containers /\ c \notin tabs /\ c \notin closed
  BY <1>1 DEF NextTab
<1>4. tabClient[c] = NoClient
  BY <1>3 DEF UiInv, EmptyTabsAreQuiet
<1>5. UNCHANGED <<webAppList, container, uiPipe>>
  BY <1>2 DEF vars, kernelVars
<1>6. UiTypeOK'
  BY <1>1, <1>2, <1>3 DEF UiInv, UiTypeOK
<1>7. EmptyTabsAreQuiet'
  BY <1>1, <1>2, <1>3 DEF UiInv, EmptyTabsAreQuiet
<1>8. \A x \in Apps : /\ Awaited(x)' <=> Awaited(x)
                      /\ Held(x)' <=> Held(x)
                      /\ Closing(x)' <=> Closing(x)
  BY <1>1, <1>2, <1>4, <1>5, UiValues DEF Awaited, Held, Closing
<1>9. ListedAreSomewhere'
  BY <1>2, <1>5, <1>8 DEF UiInv, ListedAreSomewhere
<1>10. InOnePlace'
  BY <1>1, <1>2, <1>4, <1>5, <1>8 DEF UiInv, InOnePlace
<1>11. WordIsUnderWay' /\ UpdatesAreOwn'
  BY <1>1, <1>2, <1>4, <1>5 DEF UiInv, WordIsUnderWay, UpdatesAreOwn
<1>12. ContainersAreKnown'
  BY <1>1, <1>2, <1>3, <1>5 DEF UiInv, ContainersAreKnown
<1> QED
  BY <1>6, <1>7, <1>9, <1>10, <1>11, <1>12 DEF UiInv

\* A message at the end of the UI's pipe
LEMMA AppendFacts ==
    ASSUME NEW S, NEW s \in Seq(S), NEW m \in S
    PROVE  /\ Append(s, m) \in Seq(S)
           /\ Len(s) \in Nat /\ DOMAIN s = 1..Len(s)
           /\ DOMAIN Append(s, m) = 1..(Len(s) + 1)
           /\ \A i \in 1..Len(s) : Append(s, m)[i] = s[i]
           /\ Append(s, m)[Len(s) + 1] = m
OBVIOUS

\* loadUrl of an empty tab
LEMMA LoadUrlKeeps ==
    ASSUME UiInv, NEW tab \in Containers, NEW o \in Origins, LoadUrl(tab, o)
    PROVE  UiInv'
<1> DEFINE m == [type |-> "NEW_URL", tab |-> tab, origin |-> o]
           n == Len(uiOut)
<1>1. /\ tab \in tabs /\ uiOut' = Append(uiOut, m)
      /\ UNCHANGED <<vars, tabs, closed, current, tabClient, embedding, timers, shown, parent,
                     xEvents, dropped, superseded>>
  BY DEF LoadUrl
<1>2. m \in UiRequests /\ m.type = "NEW_URL" /\ m.tab = tab
  BY DEF UiRequests
<1> HIDE DEF m
<1>3. /\ uiOut' \in Seq(UiRequests)
      /\ n \in Nat /\ DOMAIN uiOut = 1..n /\ DOMAIN uiOut' = 1..(n + 1)
      /\ \A i \in 1..n : uiOut'[i] = uiOut[i]
      /\ uiOut'[n + 1] = m
  <2>1. uiOut \in Seq(UiRequests)
    BY DEF UiInv, UiTypeOK
  <2> QED
    BY <1>1, <1>2, <2>1, AppendFacts
<1>4. UNCHANGED <<webAppList, container, uiPipe>>
  BY <1>1 DEF vars, kernelVars
<1> HIDE DEF n
<1>5. UiTypeOK'
  BY <1>1, <1>3 DEF UiInv, UiTypeOK
<1>6. EmptyTabsAreQuiet'
  BY <1>1 DEF UiInv, EmptyTabsAreQuiet
<1>7. /\ DOMAIN uiOut \subseteq DOMAIN uiOut' /\ \A i \in DOMAIN uiOut : uiOut'[i] = uiOut[i]
      /\ \A i \in DOMAIN uiOut' : uiOut'[i].type # "NEW_URL" => i \in DOMAIN uiOut
  BY <1>2, <1>3
<1>8. \A x \in Apps : /\ Awaited(x)' <=> Awaited(x)
                      /\ Held(x)' <=> Held(x)
                      /\ Closing(x)' <=> Closing(x)
  BY <1>1, <1>4, <1>7 DEF Awaited, Held, Closing
<1>9. ListedAreSomewhere'
  BY <1>1, <1>4, <1>8 DEF UiInv, ListedAreSomewhere
<1>10. InOnePlace'
  BY <1>1, <1>4, <1>7, <1>8 DEF UiInv, InOnePlace
<1>11. WordIsUnderWay'
  <2>1. \A t \in tabs : tabClient[t] # NoClient =>
          \/ container[tabClient[t]] = t
          \/ \E i \in DOMAIN uiOut' : uiOut'[i] = Update(t, tabClient[t])
    BY <1>7 DEF UiInv, WordIsUnderWay
  <2>2. ASSUME NEW j \in DOMAIN uiOut', uiOut'[j].type = "CLOSE"
        PROVE  \/ container[uiOut'[j].app] = uiOut'[j].tab
               \/ \E i \in DOMAIN uiOut' :
                     i < j /\ uiOut'[i] = Update(uiOut'[j].tab, uiOut'[j].app)
    <3>1. j \in DOMAIN uiOut /\ uiOut'[j] = uiOut[j]
      BY <1>7, <2>2
    <3>2. \/ container[uiOut[j].app] = uiOut[j].tab
          \/ \E i \in DOMAIN uiOut : i < j /\ uiOut[i] = Update(uiOut[j].tab, uiOut[j].app)
      BY <2>2, <3>1 DEF UiInv, WordIsUnderWay
    <3> QED
      BY <1>7, <3>1, <3>2
  <2> QED
    BY <1>1, <1>4, <2>1, <2>2 DEF WordIsUnderWay
<1>12. UpdatesAreOwn'
  <2> SUFFICES ASSUME NEW i \in DOMAIN uiOut', uiOut'[i].type = "UPDATE"
               PROVE  \/ uiOut'[i].tab \in tabs /\ tabClient[uiOut'[i].tab] = uiOut'[i].app
                      \/ \E j \in DOMAIN uiOut' :
                            i < j /\ uiOut'[j] = Close(uiOut'[i].tab, uiOut'[i].app)
    BY <1>1 DEF UpdatesAreOwn
  <2>1. i \in DOMAIN uiOut /\ uiOut'[i] = uiOut[i]
    BY <1>7
  <2>2. \/ uiOut[i].tab \in tabs /\ tabClient[uiOut[i].tab] = uiOut[i].app
        \/ \E j \in DOMAIN uiOut : i < j /\ uiOut[j] = Close(uiOut[i].tab, uiOut[i].app)
    BY <2>1 DEF UiInv, UpdatesAreOwn
  <2> QED
    BY <1>7, <2>1, <2>2
<1>13. ContainersAreKnown'
  <2>1. \A i \in DOMAIN uiOut' : uiOut'[i].tab \in tabs \cup closed
    BY <1>1, <1>2, <1>3 DEF UiInv, ContainersAreKnown
  <2> QED
    BY <1>1, <1>4, <2>1 DEF UiInv, ContainersAreKnown
<1> QED
  BY <1>5, <1>6, <1>9, <1>10, <1>11, <1>12, <1>13 DEF UiInv

\* closeTab: the web app is given back, the tab is gone.
LEMMA CloseTabKeeps ==
    ASSUME UiInv, NEW tab \in Containers, CloseTab(tab)
    PROVE  UiInv'
<1> DEFINE old == tabClient[tab]
           n == Len(uiOut)
<1>1. /\ tab \in tabs /\ tabs' = tabs \ {tab} /\ closed' = closed \cup {tab}
      /\ IF current = tab THEN current' \in tabs' ELSE UNCHANGED current
      /\ tabClient' = [tabClient EXCEPT ![tab] = NoClient]
      /\ embedding' = [embedding EXCEPT ![tab] = FALSE]
      /\ timers' = [timers EXCEPT ![tab] = 0]
      /\ shown' = [shown EXCEPT ![tab] = NoClient]
      /\ WindowsOfClosed(tab)
      /\ UNCHANGED <<dropped, superseded, webAppList, container, uiPipe>>
  BY DEF CloseTab, vars, kernelVars
<1>2. uiOut' = IF old = NoClient THEN uiOut ELSE Append(uiOut, Close(tab, old))
  BY DEF CloseTab
<1>3. /\ tabClient'[tab] = NoClient
      /\ \A t \in Containers \ {tab} : tabClient'[t] = tabClient[t]
      /\ tabs \subseteq Containers /\ old \in Apps \cup {NoClient}
      /\ uiOut \in Seq(UiRequests)
  BY <1>1 DEF UiInv, UiTypeOK
<1>4. /\ uiOut' \in Seq(UiRequests)
      /\ n \in Nat /\ DOMAIN uiOut = 1..n
      /\ DOMAIN uiOut' = 1..(n + (IF old = NoClient THEN 0 ELSE 1))
      /\ \A i \in 1..n : uiOut'[i] = uiOut[i]
      /\ old # NoClient => uiOut'[n + 1] = Close(tab, old)
  <2>1. CASE old = NoClient
    BY <1>2, <1>3, <2>1
  <2>2. CASE old # NoClient
    <3>1. PICK c : c = Close(tab, old) /\ c \in UiRequests
      BY <1>3, <2>2, UpdateAndClose
    <3>2. uiOut' = Append(uiOut, c)
      BY <1>2, <2>2, <3>1
    <3> QED
      BY <1>3, <2>2, <3>1, <3>2, AppendFacts
  <2> QED
    BY <2>1, <2>2
<1> HIDE DEF old, n
<1>5. old # NoClient => /\ uiOut'[n + 1].type = "CLOSE" /\ uiOut'[n + 1].tab = tab
                        /\ uiOut'[n + 1].app = old
  BY <1>4, KindsDiffer
<1>0. /\ parent' \in [Apps -> Containers \cup {Root, Gone}]
      /\ xEvents' \in Seq(XEvents)
      /\ \A i \in DOMAIN xEvents' :
            \/ \E j \in DOMAIN xEvents : xEvents'[i] = xEvents[j]
            \/ xEvents'[i].tab \in tabs /\ xEvents'[i].kind = "out"
  <2>1. UiTypeOK /\ xEvents \in Seq(XEvents) /\ Root \in Containers \cup {Root}
    BY DEF UiInv, UiTypeOK
  <2>2. /\ parent' \in [Apps -> Containers \cup {Root, Gone}]
        /\ ToldNobody(tab) \/ \E app \in Apps : ToldOther(tab, app)
    BY <1>1, <2>1, ClosedWindows
  <2>3. CASE ToldNobody(tab)
    BY <2>1, <2>2, <2>3 DEF ToldNobody
  <2>4. ASSUME NEW app \in Apps, ToldOther(tab, app)
        PROVE  /\ xEvents' \in Seq(XEvents)
               /\ \A i \in DOMAIN xEvents' :
                     \/ \E j \in DOMAIN xEvents : xEvents'[i] = xEvents[j]
                     \/ xEvents'[i].tab \in tabs /\ xEvents'[i].kind = "out"
    <3>1. Queued(app, Root, xEvents)
      BY <2>4 DEF ToldOther
    <3> QED
      BY <2>1, <3>1, MovedOK
  <2> QED
    BY <2>2, <2>3, <2>4
<1>6. UiTypeOK'
  <2>1. /\ tabClient' \in [Containers -> Apps \cup {NoClient}]
        /\ embedding' \in [Containers -> BOOLEAN] /\ timers' \in [Containers -> Nat]
        /\ shown' \in [Containers -> Apps \cup {NoClient}]
    BY <1>1 DEF UiInv, UiTypeOK
  <2>2. /\ tabs' \in SUBSET Containers /\ closed' \in SUBSET Containers /\ current' \in tabs'
    BY <1>1 DEF UiInv, UiTypeOK
  <2> QED
    BY <1>1, <1>4, <1>0, <2>1, <2>2 DEF UiInv, UiTypeOK
<1>7. EmptyTabsAreQuiet'
  <2>1. \A t \in Containers :
          /\ t \notin tabs' => tabClient'[t] = NoClient
          /\ tabClient'[t] = NoClient =>
                ~embedding'[t] /\ timers'[t] = 0 /\ shown'[t] = NoClient
    BY <1>1 DEF UiInv, UiTypeOK, EmptyTabsAreQuiet
  <2>2. ASSUME NEW i \in DOMAIN xEvents'
        PROVE  /\ xEvents'[i].tab \in tabs' \cup closed'
               /\ xEvents'[i].kind = "in" /\ xEvents'[i].tab \in tabs' =>
                     tabClient'[xEvents'[i].tab] # NoClient
    <3>1. CASE xEvents'[i].tab \in tabs /\ xEvents'[i].kind = "out"
      BY <1>1, <3>1
    <3>2. ASSUME NEW j \in DOMAIN xEvents, xEvents'[i] = xEvents[j]
          PROVE  /\ xEvents'[i].tab \in tabs' \cup closed'
                 /\ xEvents'[i].kind = "in" /\ xEvents'[i].tab \in tabs' =>
                       tabClient'[xEvents'[i].tab] # NoClient
      <4>1. /\ xEvents[j].tab \in tabs \cup closed
            /\ xEvents[j].kind = "in" /\ xEvents[j].tab \in tabs =>
                  tabClient[xEvents[j].tab] # NoClient
        BY DEF UiInv, EmptyTabsAreQuiet
      <4> QED
        BY <1>1, <1>3, <3>2, <4>1
    <3> QED
      BY <1>0, <3>1, <3>2
  <2> QED
    BY <2>1, <2>2 DEF EmptyTabsAreQuiet
<1>8. \A x \in Apps : Held(x)' <=> Held(x) /\ x # old
  <2>1. ASSUME NEW x \in Apps, Held(x), x # old PROVE Held(x)'
    BY <1>1, <1>3, <2>1 DEF Held, old
  <2>2. ASSUME NEW x \in Apps, Held(x)' PROVE Held(x) /\ x # old
    <3>1. PICK t \in tabs' : tabClient'[t] = x
      BY <2>2 DEF Held
    <3>2. t \in tabs /\ t # tab /\ tabClient[t] = x /\ x # NoClient
      BY <1>1, <1>3, <3>1, UiValues
    <3>3. x # old
      BY <1>1, <3>2 DEF UiInv, InOnePlace, old
    <3> QED
      BY <3>2, <3>3 DEF Held
  <2> QED
    BY <2>1, <2>2
<1>9. \A x \in Apps : /\ Closing(x)' <=> Closing(x) \/ x = old
                      /\ Awaited(x)' <=> Awaited(x)
  <2>1. ASSUME NEW x \in Apps, Closing(x) PROVE Closing(x)'
    BY <1>4, <2>1 DEF Closing
  <2>2. ASSUME NEW x \in Apps, x = old PROVE Closing(x)'
    <3>1. n + 1 \in DOMAIN uiOut' /\ uiOut'[n + 1].type = "CLOSE" /\ uiOut'[n + 1].app = x
      BY <1>4, <1>5, <2>2, UiValues
    <3> QED
      BY <3>1 DEF Closing
  <2>3. ASSUME NEW x \in Apps, Closing(x)', x # old PROVE Closing(x)
    BY <1>4, <1>5, <2>3 DEF Closing
  <2>4. \A x \in Apps : Awaited(x)' <=> Awaited(x)
    BY <1>1 DEF Awaited
  <2> QED
    BY <2>1, <2>2, <2>3, <2>4
<1>10. old \in Apps => Held(old) /\ ~Closing(old) /\ ~Awaited(old) /\ old \notin dropped
  <2>1. old \in Apps => Held(old)
    BY <1>1 DEF Held, old
  <2> QED
    BY <2>1 DEF UiInv, InOnePlace
<1>11. ListedAreSomewhere'
  BY <1>1, <1>8, <1>9, <1>10 DEF UiInv, ListedAreSomewhere
<1>12. InOnePlace'
  <2>1. \A x \in Apps : /\ Awaited(x)' => ~Held(x)' /\ ~Closing(x)' /\ x \notin dropped'
                        /\ Held(x)' => ~Closing(x)' /\ x \notin dropped'
                        /\ Closing(x)' => x \notin dropped'
    BY <1>1, <1>8, <1>9, <1>10 DEF UiInv, InOnePlace
  <2>2. \A t, u \in tabs' : tabClient'[t] = tabClient'[u] /\ tabClient'[t] # NoClient => t = u
    BY <1>1, <1>3 DEF UiInv, InOnePlace
  <2>3. ASSUME NEW i \in DOMAIN uiOut', NEW j \in DOMAIN uiOut',
               uiOut'[i].type = "CLOSE", uiOut'[j].type = "CLOSE",
               uiOut'[i].app = uiOut'[j].app
        PROVE  i = j
    <3>1. CASE i \in 1..n /\ j \in 1..n
      BY <1>4, <2>3, <3>1 DEF UiInv, InOnePlace
    <3>2. ASSUME NEW h \in 1..n, uiOut'[h].type = "CLOSE"
          PROVE  uiOut'[h].app # old \/ old = NoClient
      BY <1>3, <1>4, <1>10, <3>2 DEF Closing
    <3> QED
      BY <1>4, <1>5, <2>3, <3>1, <3>2
  <2> QED
    BY <1>1, <2>1, <2>2, <2>3 DEF UiInv, InOnePlace
<1>13. DOMAIN uiOut \subseteq DOMAIN uiOut' /\ \A i \in DOMAIN uiOut : uiOut'[i] = uiOut[i]
  BY <1>4
<1>14. WordIsUnderWay'
  <2>1. ASSUME NEW t \in tabs', tabClient'[t] # NoClient
        PROVE  \/ container[tabClient'[t]] = t
               \/ \E i \in DOMAIN uiOut' : uiOut'[i] = Update(t, tabClient'[t])
    <3>1. t \in tabs /\ tabClient'[t] = tabClient[t]
      BY <1>1, <1>3
    <3>2. \/ container[tabClient[t]] = t
          \/ \E i \in DOMAIN uiOut : uiOut[i] = Update(t, tabClient[t])
      BY <2>1, <3>1 DEF UiInv, WordIsUnderWay
    <3> QED
      BY <1>13, <3>1, <3>2
  <2>2. ASSUME NEW j \in DOMAIN uiOut', uiOut'[j].type = "CLOSE"
        PROVE  \/ container[uiOut'[j].app] = uiOut'[j].tab
               \/ \E i \in DOMAIN uiOut' :
                     i < j /\ uiOut'[i] = Update(uiOut'[j].tab, uiOut'[j].app)
    <3>1. CASE j \in DOMAIN uiOut
      <4>1. \/ container[uiOut[j].app] = uiOut[j].tab
            \/ \E i \in DOMAIN uiOut : i < j /\ uiOut[i] = Update(uiOut[j].tab, uiOut[j].app)
        BY <1>13, <2>2, <3>1 DEF UiInv, WordIsUnderWay
      <4> QED
        BY <1>13, <3>1, <4>1
    <3>2. CASE j = n + 1 /\ old # NoClient
      <4>1. \/ container[old] = tab
            \/ \E i \in DOMAIN uiOut : uiOut[i] = Update(tab, old)
        BY <1>1, <3>2 DEF UiInv, WordIsUnderWay, old
      <4>2. \A i \in DOMAIN uiOut : i < j
        BY <1>4, <3>2
      <4> QED
        BY <1>5, <1>13, <3>2, <4>1, <4>2
    <3> QED
      BY <1>4, <3>1, <3>2
  <2> QED
    BY <1>1, <2>1, <2>2 DEF WordIsUnderWay
<1>15. UpdatesAreOwn'
  <2> SUFFICES ASSUME NEW i \in DOMAIN uiOut', uiOut'[i].type = "UPDATE"
               PROVE  \/ uiOut'[i].tab \in tabs' /\ tabClient'[uiOut'[i].tab] = uiOut'[i].app
                      \/ \E j \in DOMAIN uiOut' :
                            i < j /\ uiOut'[j] = Close(uiOut'[i].tab, uiOut'[i].app)
    BY DEF UpdatesAreOwn
  <2>1. i \in DOMAIN uiOut
    BY <1>4, <1>5
  <2>2. \/ uiOut[i].tab \in tabs /\ tabClient[uiOut[i].tab] = uiOut[i].app
        \/ \E j \in DOMAIN uiOut : i < j /\ uiOut[j] = Close(uiOut[i].tab, uiOut[i].app)
    BY <1>13, <2>1 DEF UiInv, UpdatesAreOwn
  <2>3. CASE uiOut[i].tab \in tabs /\ tabClient[uiOut[i].tab] = uiOut[i].app
             /\ uiOut[i].tab # tab
    BY <1>1, <1>3, <1>13, <2>1, <2>3
  <2>4. CASE uiOut[i].tab = tab /\ tabClient[tab] = uiOut[i].app
    <3>1. uiOut[i].app \in Apps
      <4>1. uiOut[i] \in UiRequests
        BY <2>1, ShiftFacts DEF UiInv
      <4> QED
        BY <1>13, <2>1, <4>1, RequestFacts
    <3>2. old = uiOut[i].app /\ old # NoClient
      BY <2>4, <3>1, UiValues DEF old
    <3>3. n + 1 \in DOMAIN uiOut' /\ i < n + 1 /\ uiOut'[n + 1] = Close(tab, old)
      BY <1>4, <2>1, <3>2
    <3> QED
      BY <1>13, <2>1, <2>4, <3>2, <3>3
  <2>5. CASE \E j \in DOMAIN uiOut : i < j /\ uiOut[j] = Close(uiOut[i].tab, uiOut[i].app)
    BY <1>13, <2>1, <2>5
  <2> QED
    BY <2>2, <2>3, <2>4, <2>5
<1>16. ContainersAreKnown'
  <2>1. tabs' \cup closed' = tabs \cup closed /\ tabs' \cap closed' = {}
    BY <1>1 DEF UiInv, ContainersAreKnown
  <2>2. \A i \in DOMAIN uiOut' : uiOut'[i].tab \in tabs \cup closed
    <3>1. \A i \in 1..n : uiOut'[i].tab \in tabs \cup closed
      BY <1>4 DEF UiInv, ContainersAreKnown
    <3> QED
      BY <1>1, <1>4, <1>5, <3>1
  <2>3. \A x \in dropped : container[x] \in closed' \cup {1}
    BY <1>1 DEF UiInv, ContainersAreKnown
  <2>4. \A x \in webAppList : container[x] \in tabs \cup closed \cup OpenTypes
    BY DEF UiInv, ContainersAreKnown
  <2> QED
    BY <1>1, <2>1, <2>2, <2>3, <2>4 DEF UiInv, ContainersAreKnown
<1> QED
  BY <1>6, <1>7, <1>11, <1>12, <1>14, <1>15, <1>16 DEF UiInv

\* The kernel reads a message of the UI: the windows are not its business.
LEMMA UnreadWindows ==
    ASSUME UiInv, Unread, uiOut' \in Seq(UiRequests), dropped' = dropped
    PROVE  UiTypeOK' /\ EmptyTabsAreQuiet'
<1>1. UNCHANGED <<tabs, closed, current, tabClient, embedding, timers, shown, parent, xEvents,
                  superseded>>
  BY DEF Unread
<1>2. UiTypeOK'
  BY <1>1 DEF UiInv, UiTypeOK
<1>3. EmptyTabsAreQuiet'
  BY <1>1 DEF UiInv, EmptyTabsAreQuiet
<1> QED
  BY <1>2, <1>3

\* handleNewUrl for a tab or for a web app
LEMMA NewUrlPlaces ==
    ASSUME IInv, UiInv, NEW c \in tabs \cup closed \cup OpenTypes, NEW r, NEW o,
           NewUrl(c, r, o), Unread, NEW k \in {0, 1}, Shifted(k),
           k = 1 => 1 \in DOMAIN uiOut /\ uiOut[1].type = "NEW_URL"
    PROVE  Places'
<1>0. PICK app \in Apps \ webAppList, b \in {c} \cup {container[a] : a \in webAppList} : \E w :
          /\ webAppList' = webAppList \cup {app}
          /\ container' = [container EXCEPT ![app] = b]
          /\ uiPipe' = Append(uiPipe, [type |-> "NEW_WEBAPP", app |-> app,
                                       container |-> b, wid |-> w])
          /\ dropped' = dropped
  BY NewUrlHands
<1>1. PICK w :
          /\ webAppList' = webAppList \cup {app}
          /\ container' = [container EXCEPT ![app] = b]
          /\ uiPipe' = Append(uiPipe, [type |-> "NEW_WEBAPP", app |-> app,
                                       container |-> b, wid |-> w])
          /\ dropped' = dropped
  BY <1>0
<1>2. b \in tabs \cup closed \cup OpenTypes
  BY DEF UiInv, ContainersAreKnown
<1>3. TypeOK
  BY DEF IInv
<1>4. UNCHANGED <<tabs, closed, tabClient, dropped>>
  BY <1>1 DEF Unread
<1> QED
  BY <1>1, <1>2, <1>3, <1>4, HandsPlaces

\* The kernel reads a message of the UI.
LEMMA KernelReadsUiKeeps ==
    ASSUME IInv, UiInv, KernelReadsUi
    PROVE  UiInv'
<1>1. uiOut # <<>> /\ uiOut' = Tail(uiOut) /\ Unread /\ TypeOK
  BY DEF KernelReadsUi, IInv
<1>2. PICK m : m = Head(uiOut)
  OBVIOUS
<1>3. Shifted(1) /\ 1 \in DOMAIN uiOut /\ uiOut[1] = m
  BY <1>1, <1>2, ShiftFacts DEF UiInv
<1>4. uiOut' \in Seq(UiRequests)
  <2>1. uiOut \in Seq(UiRequests)
    BY DEF UiInv, UiTypeOK
  <2> QED
    BY <1>1, <2>1, TailFacts
<1>5. /\ dropped' = dropped
      /\ UNCHANGED <<tabs, closed, tabClient>>
  BY <1>1 DEF KernelReadsUi, NewUrl, Unread
<1>6. Places'
  <2>1. CASE m.type = "NEW_URL" /\ NewUrl(m.tab, UI_ID, m.origin)
    <3>1. m.tab \in tabs \cup closed \cup OpenTypes
      BY <1>3 DEF UiInv, ContainersAreKnown
    <3> QED
      BY <1>1, <1>3, <2>1, <3>1, NewUrlPlaces
  <2>2. CASE /\ m.type = "UPDATE"
             /\ HandleUpdateContainer(m.tab, m.app) \/ (m.app \notin webAppList /\ UNCHANGED vars)
    BY <1>1, <1>2, <1>5, <2>2, UpdatePlaces
  <2>3. CASE /\ m.type = "CLOSE"
             /\ HandleCloseWebApp(m.tab, m.app) \/ (~CheckWebAppMsg(m.tab, m.app) /\ UNCHANGED vars)
    BY <1>1, <1>2, <1>5, <2>3, ClosePlaces
  <2> QED
    BY <1>2, <2>1, <2>2, <2>3 DEF KernelReadsUi
<1>7. UiTypeOK' /\ EmptyTabsAreQuiet'
  BY <1>1, <1>4, <1>5, UnreadWindows
<1> QED
  BY <1>6, <1>7 DEF UiInv, Places

\* A web app asks for a new URL.
LEMMA WebAppNewUrlKeeps ==
    ASSUME IInv, UiInv, NEW app \in Apps, NEW loadType \in OpenTypes, NEW o \in Origins,
           WebAppNewUrl(app, loadType, o)
    PROVE  UiInv'
<1>1. NewUrl(loadType, app, o) /\ Unread /\ uiOut' = uiOut
  BY DEF WebAppNewUrl
<1>2. Shifted(0) /\ uiOut' \in Seq(UiRequests) /\ dropped' = dropped
  BY <1>1, ShiftFacts DEF UiInv, UiTypeOK, NewUrl
<1>3. Places'
  BY <1>1, <1>2, NewUrlPlaces
<1>4. UiTypeOK' /\ EmptyTabsAreQuiet'
  BY <1>1, <1>2, UnreadWindows
<1> QED
  BY <1>3, <1>4 DEF UiInv, Places

-----------------------------------------------------------------------------
\* Windows on their way to a tab

\* OneWindowComes and ShowsItsOwn of one tab
WindowsAt(t) ==
    /\ \A i, j \in Coming(t) : i = j
    /\ Coming(t) # {} => shown[t] = NoClient
    /\ timers[t] > 0 => timers[t] = 1 /\ shown[t] = NoClient /\ Coming(t) = {}
    /\ ~embedding[t] => \A i \in Coming(t) : xEvents[i].app = tabClient[t]
    /\ ~embedding[t] /\ shown[t] # NoClient => shown[t] = tabClient[t]

\* No window was sent to tab t, and k events were read.
NoneSentTo(t, k) ==
    \A i \in Coming(t)' : i + k \in DOMAIN xEvents /\ xEvents'[i] = xEvents[i + k]

LEMMA WindowsInvIsPerTab == WindowsInv <=> \A t \in tabs : WindowsAt(t)
BY DEF WindowsInv, OneWindowComes, ShowsItsOwn, WindowsAt

\* A window that is coming was coming before, one place further back.
LEMMA ComingWasComing ==
    ASSUME NEW t, NEW k \in {0, 1}, NoneSentTo(t, k)
    PROVE  \A i \in Coming(t)' :
              i + k \in Coming(t) /\ xEvents'[i] = xEvents[i + k]
BY DEF NoneSentTo, Coming

\* Events are numbered from one.
LEMMA ComingNumbers ==
    ASSUME UiTypeOK
    PROVE  \A t : Coming(t) \subseteq Nat \ {0}
<1>1. DOMAIN xEvents \subseteq Nat \ {0}
  BY DEF UiTypeOK
<1> QED
  BY <1>1 DEF Coming

\* A tab that nothing is sent to, and whose own state is as it was, is as it was.
LEMMA TabIsAsItWas ==
    ASSUME UiTypeOK, UiTypeOK', NEW t \in Containers, NEW k \in {0, 1}, NoneSentTo(t, k),
           WindowsAt(t), shown'[t] = shown[t], timers'[t] = timers[t],
           \/ embedding'[t]
           \/ embedding'[t] = embedding[t] /\ tabClient'[t] = tabClient[t]
    PROVE  WindowsAt(t)'
<1>1. \A i \in Coming(t)' : i + k \in Coming(t) /\ xEvents'[i] = xEvents[i + k]
  BY ComingWasComing
<1>2. Coming(t)' \subseteq Nat
  <2>1. DOMAIN xEvents' \subseteq Nat
    BY DEF UiTypeOK
  <2> QED
    BY <2>1 DEF Coming
<1>3. \A i, j \in Coming(t)' : i = j
  <2> SUFFICES ASSUME NEW i \in Coming(t)', NEW j \in Coming(t)' PROVE i = j
    OBVIOUS
  <2>1. i + k = j + k
    BY <1>1 DEF WindowsAt
  <2> QED
    BY <1>2, <2>1
<1>4. Coming(t)' # {} => Coming(t) # {}
  BY <1>1
<1>5. ASSUME ~embedding'[t] PROVE \A i \in Coming(t)' : xEvents'[i].app = tabClient'[t]
  BY <1>1, <1>5 DEF WindowsAt
<1> QED
  BY <1>3, <1>4, <1>5 DEF WindowsAt

\* The event queue after a window was moved: to the root, or into tab `to`.
LEMMA MoveSends ==
    ASSUME UiTypeOK, NEW app \in Apps, NEW to \in Containers \cup {Root},
           NEW unread \in Seq(XEvents), NEW k \in {0, 1},
           \A i \in DOMAIN unread : i + k \in DOMAIN xEvents /\ unread[i] = xEvents[i + k],
           Queued(app, to, unread)
    PROVE  /\ \A t : t # to => NoneSentTo(t, k)
           /\ to = Root => \A t : NoneSentTo(t, k)
           /\ (\A i \in DOMAIN unread : unread[i].tab = to => unread[i].kind # "in") =>
                 /\ \A i, j \in Coming(to)' : i = j
                 /\ \A i \in Coming(to)' : to # Root => xEvents'[i].app = app
<1> DEFINE left == [tab |-> parent[app], app |-> app, kind |-> "out"]
           come == [tab |-> to, app |-> app, kind |-> "in"]
           moved == Moved(app, to)
<1>1. parent[app] \in tabs \ {to} => left \in XEvents
  BY DEF UiTypeOK, XEvents
<1>2. to # Root => come \in XEvents
  BY DEF XEvents
<1>3. left.kind = "out" /\ come.tab = to /\ come.app = app
  OBVIOUS
<1>4. moved \in Seq(XEvents)
      /\ \A j \in 1..Len(moved) :
            \/ moved[j] = left
            \/ to # Root /\ moved[j] = come /\ j = Len(moved)
  <2> HIDE DEF left, come
  <2>1. moved = (IF parent[app] \in tabs \ {to} THEN <<left>> ELSE <<>>)
                \o (IF to = Root THEN <<>> ELSE <<come>>)
    BY DEF Moved, left, come
  <2> HIDE DEF moved
  <2>2. CASE parent[app] \in tabs \ {to} /\ to # Root
    <3>1. moved = <<left>> \o <<come>>
      BY <2>1, <2>2
    <3>2. left \in XEvents /\ come \in XEvents
      BY <1>1, <1>2, <2>2
    <3>3. Len(moved) = 2 /\ moved[1] = left /\ moved[2] = come /\ moved \in Seq(XEvents)
      BY <3>1, <3>2
    <3> QED
      BY <2>2, <3>3
  <2>3. CASE parent[app] \in tabs \ {to} /\ to = Root
    <3>1. moved = <<left>> \o <<>>
      BY <2>1, <2>3
    <3> QED
      BY <1>1, <2>3, <3>1
  <2>4. CASE parent[app] \notin tabs \ {to} /\ to # Root
    <3>1. moved = <<>> \o <<come>>
      BY <2>1, <2>4
    <3>2. come \in XEvents
      BY <1>2, <2>4
    <3>3. Len(moved) = 1 /\ moved[1] = come /\ moved \in Seq(XEvents)
      BY <3>1, <3>2
    <3> QED
      BY <2>4, <3>3
  <2>5. CASE parent[app] \notin tabs \ {to} /\ to = Root
    <3>1. moved = <<>> \o <<>>
      BY <2>1, <2>5
    <3> QED
      BY <3>1
  <2> QED
    BY <2>2, <2>3, <2>4, <2>5
<1>5. xEvents' = unread \o moved
  BY DEF Queued
<1> HIDE DEF left, come, moved
<1> DEFINE n == Len(unread)
<1>6. /\ DOMAIN xEvents' = 1..(n + Len(moved))
      /\ \A i \in 1..n : xEvents'[i] = unread[i]
      /\ \A i \in 1..Len(moved) : xEvents'[n + i] = moved[i]
      /\ n \in Nat /\ DOMAIN unread = 1..n /\ Len(moved) \in Nat
  BY <1>4, <1>5, ConcatFacts
<1> HIDE DEF n
<1>7. ASSUME NEW i \in DOMAIN xEvents', i \notin 1..n
      PROVE  xEvents'[i] = left \/ (to # Root /\ xEvents'[i] = come /\ i = n + Len(moved))
  <2>1. PICK j \in 1..Len(moved) : i = n + j
    <3>1. i - n \in 1..Len(moved) /\ i = n + (i - n)
      BY <1>6, <1>7
    <3> QED
      BY <3>1
  <2>2. xEvents'[i] = moved[j]
    BY <1>6, <2>1
  <2> QED
    BY <1>4, <2>1, <2>2
<1>8. ASSUME NEW t, to = Root \/ t # to PROVE NoneSentTo(t, k)
  <2> SUFFICES ASSUME NEW i \in Coming(t)'
               PROVE  i + k \in DOMAIN xEvents /\ xEvents'[i] = xEvents[i + k]
    BY DEF NoneSentTo
  <2>1. i \in DOMAIN xEvents' /\ xEvents'[i].tab = t /\ xEvents'[i].kind = "in"
    BY DEF Coming
  <2>2. i \in 1..n
    BY <1>3, <1>7, <1>8, <2>1
  <2> QED
    BY <1>6, <2>2
<1>9. ASSUME \A i \in DOMAIN unread : unread[i].tab = to => unread[i].kind # "in",
             NEW i \in Coming(to)'
      PROVE  i = n + Len(moved) /\ xEvents'[i].app = app
  <2>1. i \in DOMAIN xEvents' /\ xEvents'[i].tab = to /\ xEvents'[i].kind = "in"
    BY DEF Coming
  <2>2. i \notin 1..n
    BY <1>6, <1>9, <2>1
  <2> QED
    BY <1>3, <1>7, <2>1, <2>2
<1> QED
  BY <1>8, <1>9

\* Nothing is moved: what is left of the event queue was in it.
LEMMA NothingIsSent ==
    ASSUME NEW unread, NEW k \in {0, 1},
           \A i \in DOMAIN unread : i + k \in DOMAIN xEvents /\ unread[i] = xEvents[i + k],
           NoMove(unread)
    PROVE  \A t : NoneSentTo(t, k)
BY DEF NoMove, NoneSentTo, Coming

\* The window of app was moved into tab, where none was coming, or was destroyed
\* before.
LEMMA TabGetsWindow ==
    ASSUME UiTypeOK, NEW app \in Apps, NEW tab \in Containers,
           NEW unread \in Seq(XEvents), NEW k \in {0, 1},
           \A i \in DOMAIN unread : i + k \in DOMAIN xEvents /\ unread[i] = xEvents[i + k],
           Reparent(app, tab, unread), Coming(tab) = {},
           timers'[tab] = 0, shown'[tab] = NoClient,
           embedding'[tab] \/ tabClient'[tab] = app
    PROVE  WindowsAt(tab)' /\ \A t : t # tab => NoneSentTo(t, k)
<1>1. tab # Root
  BY UiValues
<1>2. \A i \in DOMAIN unread : unread[i].tab = tab => unread[i].kind # "in"
  BY DEF Coming
<1>3. CASE parent[app] = Gone
  <2>1. \A t : NoneSentTo(t, k)
    BY <1>3, NothingIsSent DEF Reparent
  <2>2. Coming(tab)' = {}
    BY <2>1, ComingWasComing
  <2> QED
    BY <2>1, <2>2 DEF WindowsAt
<1>4. CASE parent[app] # Gone
  <2>1. Queued(app, tab, unread)
    BY <1>4 DEF Reparent, Queued
  <2>2. /\ \A t : t # tab => NoneSentTo(t, k)
        /\ \A i, j \in Coming(tab)' : i = j
        /\ \A i \in Coming(tab)' : xEvents'[i].app = app
    BY <1>1, <1>2, <2>1, MoveSends
  <2> QED
    BY <2>2 DEF WindowsAt
<1> QED
  BY <1>3, <1>4

\* Nothing is moved, or a window is given back to the root.
LEMMA NoneSent ==
    ASSUME UiTypeOK, NEW unread \in Seq(XEvents), NEW k \in {0, 1},
           \A i \in DOMAIN unread : i + k \in DOMAIN xEvents /\ unread[i] = xEvents[i + k],
           NoMove(unread) \/ \E app \in Apps : Reparent(app, Root, unread)
    PROVE  \A t : NoneSentTo(t, k)
<1>1. CASE NoMove(unread)
  BY <1>1, NothingIsSent
<1>2. ASSUME NEW app \in Apps, Reparent(app, Root, unread) PROVE \A t : NoneSentTo(t, k)
  <2>1. Root \in Containers \cup {Root}
    OBVIOUS
  <2>2. CASE parent[app] = Gone
    BY <1>2, <2>2, NothingIsSent DEF Reparent
  <2>3. CASE parent[app] # Gone
    <3>1. Queued(app, Root, unread)
      BY <1>2, <2>3 DEF Reparent, Queued
    <3> QED
      BY <2>1, <3>1, MoveSends
  <2> QED
    BY <2>2, <2>3
<1> QED
  BY <1>1, <1>2

\* What has been read of the event queue: nothing, or the first event.
LEMMA UnreadEvents ==
    ASSUME UiTypeOK
    PROVE  /\ xEvents \in Seq(XEvents)
           /\ \A i \in DOMAIN xEvents :
                 i + 0 \in DOMAIN xEvents /\ xEvents[i] = xEvents[i + 0]
           /\ xEvents # <<>> =>
                 /\ Tail(xEvents) \in Seq(XEvents)
                 /\ \A i \in DOMAIN Tail(xEvents) :
                       i + 1 \in DOMAIN xEvents /\ Tail(xEvents)[i] = xEvents[i + 1]
<1>1. xEvents \in Seq(XEvents)
  BY DEF UiTypeOK
<1>2. \A i \in DOMAIN xEvents : i + 0 \in DOMAIN xEvents /\ xEvents[i] = xEvents[i + 0]
  BY <1>1
<1>3. xEvents # <<>> =>
         /\ Tail(xEvents) \in Seq(XEvents)
         /\ \A i \in DOMAIN Tail(xEvents) :
               i + 1 \in DOMAIN xEvents /\ Tail(xEvents)[i] = xEvents[i + 1]
  BY <1>1, TailFacts
<1> QED
  BY <1>1, <1>2, <1>3

\* A tab without a web app that was not closed has no window and awaits none.
LEMMA EmptyTabAwaitsNone ==
    ASSUME UiTypeOK, EmptyTabsAreQuiet, NEW tab \in Containers, tab \notin closed,
           tabClient[tab] = NoClient
    PROVE  /\ Coming(tab) = {} /\ timers[tab] = 0 /\ shown[tab] = NoClient
           /\ WindowsAt(tab)
<1>1. timers[tab] = 0 /\ shown[tab] = NoClient
  BY DEF EmptyTabsAreQuiet
<1>2. Coming(tab) = {}
  BY DEF EmptyTabsAreQuiet, Coming
<1> QED
  BY <1>1, <1>2 DEF WindowsAt

\* handleEmbed of the tab
LEMMA HandleEmbedWindow ==
    ASSUME UiTypeOK, UiTypeOK', EmptyTabsAreQuiet, NEW tab \in Containers, NEW app \in Apps,
           HandleEmbed(tab, app), tab \notin closed, tab \in tabs => WindowsAt(tab),
           tab \notin tabs => tabClient[tab] = NoClient,
           NEW t \in Containers, t = tab \/ WindowsAt(t)
    PROVE  WindowsAt(t)'
<1>1. /\ embedding' = [embedding EXCEPT ![tab] = TRUE]
      /\ tabClient' = [tabClient EXCEPT ![tab] = app]
      /\ shown' = shown /\ timers' = timers
  BY DEF HandleEmbed
<1>2. /\ embedding'[tab]
      /\ t # tab => embedding'[t] = embedding[t] /\ tabClient'[t] = tabClient[t]
  BY <1>1 DEF UiTypeOK
<1>3. CASE tabClient[tab] = NoClient
  <2>1. Reparent(app, tab, xEvents)
    BY <1>3 DEF HandleEmbed
  <2>2. Coming(tab) = {} /\ timers'[tab] = 0 /\ shown'[tab] = NoClient
    BY <1>1, <1>3, EmptyTabAwaitsNone
  <2>3. WindowsAt(tab)' /\ \A u : u # tab => NoneSentTo(u, 0)
    BY <1>2, <2>1, <2>2, UnreadEvents, TabGetsWindow
  <2>4. t # tab => WindowsAt(t)'
    BY <1>1, <1>2, <2>3, TabIsAsItWas
  <2> QED
    BY <2>3, <2>4
<1>4. CASE tabClient[tab] # NoClient
  <2>1. NoMove(xEvents) \/ \E a \in Apps : Reparent(a, Root, xEvents)
    BY <1>4 DEF HandleEmbed, UiTypeOK
  <2>2. NoneSentTo(t, 0)
    BY <2>1, UnreadEvents, NoneSent
  <2>3. WindowsAt(t)
    BY <1>4
  <2> QED
    BY <1>1, <1>2, <2>2, <2>3, TabIsAsItWas
<1> QED
  BY <1>3, <1>4

\* BrowserApplication::dispatch
LEMMA UiDispatchShows ==
    ASSUME UiInv, UiTypeOK', TypeOK, WindowsInv, UiDispatch
    PROVE  WindowsInv'
<1>1. UiTypeOK /\ EmptyTabsAreQuiet /\ tabs \cap closed = {} /\ tabs \subseteq Containers
  BY DEF UiInv, UiTypeOK, ContainersAreKnown
<1>2. \A t \in tabs : WindowsAt(t)
  BY WindowsInvIsPerTab
<1> DEFINE m == Head(uiPipe)
<1>3. ASSUME NEW tab \in Containers, tab \notin closed, m.app \in Apps, HandleEmbed(tab, m.app),
             tabs' \in {tabs, tabs \cup {tab}}, tab \notin tabs => tabClient[tab] = NoClient
      PROVE  \A t \in tabs' : WindowsAt(t)'
  <2> SUFFICES ASSUME NEW t \in tabs' PROVE WindowsAt(t)'
    OBVIOUS
  <2>1. t \in Containers /\ (t = tab \/ WindowsAt(t))
    BY <1>1, <1>2, <1>3
  <2> QED
    BY <1>1, <1>2, <1>3, <2>1, HandleEmbedWindow
<1>4. m.type = "NEW_WEBAPP" => m.app \in Apps
  <2>1. m \in UiMsgs
    BY DEF UiDispatch, TypeOK
  <2> QED
    BY <2>1, AnnouncementFacts
<1>5. current \in tabs
  BY <1>1 DEF UiTypeOK
<1>6. CASE m.type = "NEW_WEBAPP" /\ Destination(m) # {}
  <2>1. PICK t \in Destination(m) : HandleEmbed(t, m.app) /\ tabs' = tabs
    BY <1>6 DEF UiDispatch
  <2>2. t \in tabs
    BY <1>5, <2>1 DEF Destination
  <2>3. \A u \in tabs' : WindowsAt(u)'
    BY <1>1, <1>3, <1>4, <1>6, <2>1, <2>2
  <2> QED
    BY <2>3, WindowsInvIsPerTab DEF WindowsInv, OneWindowComes, ShowsItsOwn, WindowsAt
<1>7. CASE m.type = "NEW_WEBAPP" /\ Destination(m) = {} /\ tabClient[current] = NoClient
  <2>1. HandleEmbed(current, m.app) /\ tabs' = tabs
    BY <1>7 DEF UiDispatch, NoDestination
  <2>2. \A u \in tabs' : WindowsAt(u)'
    BY <1>1, <1>3, <1>4, <1>5, <1>7, <2>1
  <2> QED
    BY <2>2 DEF WindowsInv, OneWindowComes, ShowsItsOwn, WindowsAt
<1>8. CASE m.type = "NEW_WEBAPP" /\ Destination(m) = {} /\ tabClient[current] # NoClient
           /\ m.container \in 2..4
  <2>1. PICK c \in NextTab : tabs' = tabs \cup {c} /\ HandleEmbed(c, m.app)
    BY <1>8 DEF UiDispatch, NoDestination
  <2>2. c \in Containers /\ c \notin closed /\ c \notin tabs
    BY DEF NextTab
  <2>3. tabClient[c] = NoClient
    BY <1>1, <2>2 DEF EmptyTabsAreQuiet
  <2>4. \A u \in tabs' : WindowsAt(u)'
    BY <1>3, <1>4, <1>8, <2>1, <2>2, <2>3
  <2> QED
    BY <2>4 DEF WindowsInv, OneWindowComes, ShowsItsOwn, WindowsAt
<1>9. CASE \/ m.type # "NEW_WEBAPP"
           \/ /\ m.type = "NEW_WEBAPP" /\ Destination(m) = {}
              /\ tabClient[current] # NoClient /\ m.container \notin 2..4
  <2>1. UNCHANGED <<tabs, tabClient, embedding, timers, shown, xEvents>>
    BY <1>9 DEF UiDispatch, NoDestination, uiVars
  <2> QED
    BY <2>1 DEF WindowsInv, OneWindowComes, ShowsItsOwn, Coming
<1> QED
  BY <1>6, <1>7, <1>8, <1>9

\* The UI reads an event: a window that comes is the one the tab awaits, and one
\* that goes leaves the tab without any.
LEMMA XEventShows ==
    ASSUME UiInv, UiTypeOK', WindowsInv, XEvent
    PROVE  WindowsInv'
<1>1. UiTypeOK /\ EmptyTabsAreQuiet /\ tabs \subseteq Containers
  BY DEF UiInv, UiTypeOK
<1>2. \A t \in tabs : WindowsAt(t)
  BY WindowsInvIsPerTab
<1>0. PICK e : e = Head(xEvents)
  OBVIOUS
<1> DEFINE unread == Tail(xEvents)
<1>3. /\ xEvents # <<>> /\ e = xEvents[1] /\ 1 \in DOMAIN xEvents
      /\ e.app \in Apps /\ e.tab \in Containers
  <2>1. xEvents # <<>> /\ xEvents \in Seq(XEvents)
    BY <1>1 DEF XEvent, UiTypeOK
  <2>2. e \in XEvents /\ e = xEvents[1] /\ 1 \in DOMAIN xEvents
    BY <1>0, <2>1, TailFacts
  <2> QED
    BY <2>1, <2>2 DEF XEvents
<1>4. /\ unread \in Seq(XEvents)
      /\ \A i \in DOMAIN unread : i + 1 \in DOMAIN xEvents /\ unread[i] = xEvents[i + 1]
  BY <1>1, <1>3, UnreadEvents
<1>5. tabs' = tabs /\ tabClient' = tabClient
  BY DEF XEvent
<1>6. Coming(e.tab) \subseteq Nat \ {0} /\ Coming(e.tab)' \subseteq Nat \ {0}
  <2>1. DOMAIN xEvents' \subseteq Nat \ {0} /\ DOMAIN xEvents \subseteq Nat \ {0}
    BY <1>1 DEF UiTypeOK
  <2> QED
    BY <2>1 DEF Coming
<1> HIDE DEF unread
<1>7. SUFFICES ASSUME NEW t \in tabs PROVE WindowsAt(t)'
  BY <1>5 DEF WindowsInv, OneWindowComes, ShowsItsOwn, WindowsAt
<1>8. t \in Containers /\ WindowsAt(t)
  BY <1>1, <1>2
<1>9. ASSUME NoMove(unread) \/ \E app \in Apps : Reparent(app, Root, unread)
      PROVE  NoneSentTo(t, 1)
  BY <1>1, <1>4, <1>9, NoneSent
<1>10. ASSUME NoneSentTo(t, 1), shown'[t] = shown[t], timers'[t] = timers[t],
              embedding'[t] = embedding[t]
       PROVE  WindowsAt(t)'
  BY <1>1, <1>5, <1>8, <1>10, TabIsAsItWas
<1>11. CASE NoMove(unread) /\ UNCHANGED <<shown, embedding, timers>>
  BY <1>9, <1>10, <1>11
<1>12. CASE e.tab \in tabs /\ e.kind = "in" /\ ClientComes(e.tab, e.app) /\ UNCHANGED timers
  <2>1. 1 \in Coming(e.tab)
    BY <1>3, <1>12 DEF Coming
  <2>2. WindowsAt(e.tab)
    BY <1>2, <1>12
  <2>3. Coming(e.tab) = {1} /\ shown[e.tab] = NoClient /\ ~(timers[e.tab] > 0)
    BY <2>1, <2>2 DEF WindowsAt
  <2>4. ~embedding[e.tab] => e.app = tabClient[e.tab]
    BY <1>3, <2>1, <2>2 DEF WindowsAt
  <2>5. shown' = [shown EXCEPT ![e.tab] = e.app] /\ timers' = timers
    BY <1>12, <2>3 DEF ClientComes
  <2>6. CASE t # e.tab
    <3>1. NoneSentTo(t, 1)
      BY <1>3, <1>9, <1>12, <2>3 DEF ClientComes, unread
    <3>2. shown'[t] = shown[t] /\ timers'[t] = timers[t] /\ embedding'[t] = embedding[t]
      BY <1>1, <1>8, <1>12, <2>3, <2>5, <2>6 DEF ClientComes, UiTypeOK
    <3> QED
      BY <1>10, <3>1, <3>2
  <2>7. CASE t = e.tab
    <3>1. NoneSentTo(t, 1)
      BY <1>3, <1>9, <1>12, <2>3 DEF ClientComes, unread
    <3>2. Coming(t)' = {}
      <4>1. ASSUME NEW i \in Coming(t)' PROVE FALSE
        <5>1. i + 1 \in Coming(t)
          <6>1. \A h \in Coming(t)' : h + 1 \in Coming(t) /\ xEvents'[h] = xEvents[h + 1]
            BY <3>1, ComingWasComing
          <6> QED
            BY <4>1, <6>1
        <5>2. i \in Nat \ {0}
          BY <1>6, <2>7, <4>1
        <5> QED
          BY <2>3, <2>7, <5>1, <5>2
      <4> QED
        BY <4>1
    <3>3. shown'[t] = e.app
      BY <1>1, <1>8, <2>5, <2>7 DEF UiTypeOK
    <3>4. ~(timers'[t] > 0)
      BY <2>3, <2>5, <2>7
    <3>5. ~embedding'[t] => e.app = tabClient[t]
      <4>1. CASE tabClient[t] # e.app
        <5>1. embedding' = embedding
          BY <1>12, <2>3, <2>7, <4>1 DEF ClientComes
        <5> QED
          BY <2>4, <2>7, <5>1
      <4> QED
        BY <4>1
    <3> QED
      BY <1>5, <3>2, <3>3, <3>4, <3>5 DEF WindowsAt
  <2> QED
    BY <2>6, <2>7
<1>13. CASE /\ e.tab \in tabs /\ e.kind = "out" /\ shown[e.tab] = e.app
            /\ ClientGoes(e.tab) /\ UNCHANGED embedding
  <2>1. WindowsAt(e.tab) /\ shown[e.tab] # NoClient
    BY <1>2, <1>3, <1>13, UiValues
  <2>2. timers[e.tab] \in Nat
    BY <1>1, <1>3 DEF UiTypeOK
  <2>3. Coming(e.tab) = {} /\ timers[e.tab] = 0
    BY <2>1, <2>2 DEF WindowsAt
  <2>4. tabClient[e.tab] \in Apps
    BY <1>1, <1>3, <2>1 DEF EmptyTabsAreQuiet, UiTypeOK
  <2>5. shown' = [shown EXCEPT ![e.tab] = NoClient] /\ shown'[e.tab] = NoClient
    BY <1>1, <1>3, <1>13 DEF ClientGoes, UiTypeOK
  <2>6. CASE embedding[e.tab]
    <3>1. Reparent(tabClient[e.tab], e.tab, unread) /\ timers' = timers
      BY <1>13, <2>6 DEF ClientGoes, unread
    <3>2. timers'[e.tab] = 0 /\ embedding'[e.tab]
      BY <1>13, <2>3, <2>6, <3>1
    <3>3. WindowsAt(e.tab)' /\ \A u : u # e.tab => NoneSentTo(u, 1)
      <4>1. PICK app \in Apps, tab \in Containers : app = tabClient[e.tab] /\ tab = e.tab
        BY <1>3, <2>4
      <4>2. Reparent(app, tab, unread) /\ 1 \in {0, 1}
        BY <3>1, <4>1
      <4>3. Coming(tab) = {} /\ timers'[tab] = 0 /\ shown'[tab] = NoClient /\ embedding'[tab]
        BY <2>3, <2>5, <3>2, <4>1
      <4>4. WindowsAt(tab)' /\ \A u : u # tab => NoneSentTo(u, 1)
        BY <1>1, <1>4, <4>2, <4>3, TabGetsWindow
      <4> QED
        BY <4>1, <4>4
    <3>4. CASE t # e.tab
      <4>1. shown'[t] = shown[t] /\ timers'[t] = timers[t] /\ embedding'[t] = embedding[t]
        BY <1>1, <1>8, <1>13, <2>5, <3>1, <3>4 DEF UiTypeOK
      <4> QED
        BY <1>10, <3>3, <3>4, <4>1
    <3> QED
      BY <3>3, <3>4
  <2>7. CASE ~embedding[e.tab]
    <3>1. timers' = [timers EXCEPT ![e.tab] = @ + 1] /\ NoMove(unread)
      BY <1>13, <2>7 DEF ClientGoes, unread
    <3>2. NoneSentTo(t, 1)
      BY <1>9, <3>1
    <3>3. CASE t # e.tab
      <4>1. shown'[t] = shown[t] /\ timers'[t] = timers[t] /\ embedding'[t] = embedding[t]
        BY <1>1, <1>8, <1>13, <2>5, <3>1, <3>3 DEF UiTypeOK
      <4> QED
        BY <1>10, <3>2, <4>1
    <3>4. CASE t = e.tab
      <4>1. Coming(t)' = {}
        BY <2>3, <3>2, <3>4, ComingWasComing
      <4>2. timers'[t] = 1
        BY <1>1, <1>3, <2>3, <3>1, <3>4 DEF UiTypeOK
      <4> QED
        BY <2>5, <3>4, <4>1, <4>2 DEF WindowsAt
    <3> QED
      BY <3>3, <3>4
  <2> QED
    BY <2>6, <2>7
<1> QED
  BY <1>0, <1>11, <1>12, <1>13 DEF XEvent, unread

\* The timer of slotClientClosed fires.
LEMMA ReEmbedShows ==
    ASSUME UiInv, UiTypeOK', WindowsInv, NEW tab \in Containers, ReEmbed(tab)
    PROVE  WindowsInv'
<1>1. UiTypeOK /\ EmptyTabsAreQuiet /\ tabs \subseteq Containers
  BY DEF UiInv, UiTypeOK
<1>2. \A t \in tabs : WindowsAt(t)
  BY WindowsInvIsPerTab
<1>3. /\ tab \in tabs /\ timers[tab] > 0 /\ timers' = [timers EXCEPT ![tab] = @ - 1]
      /\ UNCHANGED <<tabs, tabClient, embedding, shown>>
  BY DEF ReEmbed
<1>4. timers[tab] = 1 /\ shown[tab] = NoClient /\ Coming(tab) = {}
  BY <1>2, <1>3 DEF WindowsAt
<1>5. timers'[tab] = 0 /\ \A t \in Containers : t # tab => timers'[t] = timers[t]
  BY <1>1, <1>3, <1>4 DEF UiTypeOK
<1>6. tabClient[tab] \in Apps
  BY <1>1, <1>4 DEF EmptyTabsAreQuiet, UiTypeOK
<1>7. SUFFICES ASSUME NEW t \in tabs PROVE WindowsAt(t)'
  BY <1>3 DEF WindowsInv, OneWindowComes, ShowsItsOwn, WindowsAt
<1>8. t \in Containers /\ WindowsAt(t)
  BY <1>1, <1>2
<1>9. t # tab /\ NoneSentTo(t, 0) => WindowsAt(t)'
  BY <1>1, <1>3, <1>5, <1>8, TabIsAsItWas
<1>10. CASE embedding[tab]
  <2>1. NoneSentTo(t, 0)
    BY <1>1, <1>10, UnreadEvents, NoneSent DEF ReEmbed
  <2>2. t = tab => WindowsAt(t)'
    <3>1. t = tab => Coming(t)' = {}
      BY <1>4, <2>1, ComingWasComing
    <3> QED
      BY <1>3, <1>4, <1>5, <1>10, <3>1 DEF WindowsAt
  <2> QED
    BY <1>9, <2>1, <2>2
<1>11. CASE ~embedding[tab]
  <2>1. Reparent(tabClient[tab], tab, xEvents)
    BY <1>11 DEF ReEmbed
  <2>2. WindowsAt(tab)' /\ \A u : u # tab => NoneSentTo(u, 0)
    BY <1>1, <1>3, <1>4, <1>5, <1>6, <2>1, UnreadEvents, TabGetsWindow
  <2> QED
    BY <1>9, <2>2
<1> QED
  BY <1>10, <1>11

\* The user opens a tab, selects one, closes one or loads a page.
LEMMA UserShows ==
    ASSUME UiInv, UiTypeOK', WindowsInv, UserStep
    PROVE  WindowsInv'
<1>1. UiTypeOK /\ EmptyTabsAreQuiet /\ tabs \subseteq Containers
  BY DEF UiInv, UiTypeOK
<1>2. \A t \in tabs : WindowsAt(t)
  BY WindowsInvIsPerTab
<1>3. ASSUME NewTab \/ SelectTab \/ \E t \in Containers, o \in Origins : LoadUrl(t, o)
      PROVE  xEvents' = xEvents
  BY <1>3 DEF NewTab, SelectTab, LoadUrl
<1>4. ASSUME NEW t \in Containers, xEvents' = xEvents,
             WindowsAt(t), shown'[t] = shown[t], timers'[t] = timers[t],
             embedding'[t] = embedding[t], tabClient'[t] = tabClient[t]
      PROVE  WindowsAt(t)'
  BY <1>4 DEF WindowsAt, Coming
<1>5. CASE NewTab
  <2>1. PICK c \in NextTab : tabs' = tabs \cup {c}
    BY <1>5 DEF NewTab
  <2>2. UNCHANGED <<tabClient, embedding, timers, shown>>
    BY <1>5 DEF NewTab
  <2>3. c \in Containers /\ c \notin closed /\ c \notin tabs
    BY DEF NextTab
  <2>4. tabClient[c] = NoClient
    BY <1>1, <2>3 DEF EmptyTabsAreQuiet
  <2>5. WindowsAt(c)
    BY <1>1, <2>3, <2>4, EmptyTabAwaitsNone
  <2>6. \A t \in tabs' : WindowsAt(t)'
    BY <1>1, <1>2, <1>3, <1>4, <1>5, <2>1, <2>2, <2>3, <2>5
  <2> QED
    BY <2>6 DEF WindowsInv, OneWindowComes, ShowsItsOwn, WindowsAt
<1>6. ASSUME NEW c \in Containers, CloseTab(c) PROVE WindowsInv'
  <2>1. /\ tabs' = tabs \ {c}
        /\ tabClient' = [tabClient EXCEPT ![c] = NoClient]
        /\ embedding' = [embedding EXCEPT ![c] = FALSE]
        /\ timers' = [timers EXCEPT ![c] = 0]
        /\ shown' = [shown EXCEPT ![c] = NoClient]
        /\ WindowsOfClosed(c)
    BY <1>6 DEF CloseTab
  <2>3. \A t : NoneSentTo(t, 0)
    <3>1. ToldNobody(c) \/ \E app \in Apps : ToldOther(c, app)
      BY <1>1, <2>1, ClosedWindows
    <3>2. PICK k \in {0, 1} : k = 0
      OBVIOUS
    <3>3. /\ xEvents \in Seq(XEvents) /\ Root \in Containers \cup {Root}
          /\ \A i \in DOMAIN xEvents :
                i + k \in DOMAIN xEvents /\ xEvents[i] = xEvents[i + k]
      BY <1>1, <3>2, UnreadEvents
    <3>4. CASE ToldNobody(c)
      BY <3>2, <3>3, <3>4 DEF ToldNobody, NoneSentTo, Coming
    <3>5. ASSUME NEW app \in Apps, ToldOther(c, app) PROVE \A t : NoneSentTo(t, k)
      <4>1. Queued(app, Root, xEvents)
        BY <3>5 DEF ToldOther
      <4> QED
        BY <1>1, <3>3, <4>1, MoveSends
    <3> QED
      BY <3>1, <3>2, <3>4, <3>5
  <2>2. ASSUME NEW t \in tabs' PROVE WindowsAt(t)'
    <3>1. t \in Containers /\ t # c /\ WindowsAt(t)
      BY <1>1, <1>2, <2>1
    <3>2. /\ shown'[t] = shown[t] /\ timers'[t] = timers[t]
          /\ embedding'[t] = embedding[t] /\ tabClient'[t] = tabClient[t]
      BY <1>1, <2>1, <3>1 DEF UiTypeOK
    <3> QED
      BY <1>1, <2>3, <3>1, <3>2, TabIsAsItWas
  <2> QED
    BY <2>2 DEF WindowsInv, OneWindowComes, ShowsItsOwn, WindowsAt
<1>7. CASE SelectTab \/ \E t \in Containers, o \in Origins : LoadUrl(t, o)
  <2>1. UNCHANGED <<tabs, tabClient, embedding, timers, shown>>
    BY <1>7 DEF SelectTab, LoadUrl
  <2> QED
    BY <1>3, <1>7, <2>1 DEF WindowsInv, OneWindowComes, ShowsItsOwn, Coming
<1> QED
  BY <1>5, <1>6, <1>7 DEF UserStep

\* WindowsInv is kept by every step.
LEMMA WindowsStep ==
    IInv /\ UiInv /\ UiInv' /\ WindowsInv /\ [EmbeddingNext]_allVars => WindowsInv'
<1> SUFFICES ASSUME IInv, UiInv, UiInv', WindowsInv, [EmbeddingNext]_allVars PROVE WindowsInv'
  OBVIOUS
<1>1. TypeOK /\ UiTypeOK'
  BY DEF IInv, UiInv
<1>2. ASSUME UNCHANGED <<tabs, tabClient, embedding, timers, shown, xEvents>> PROVE WindowsInv'
  BY <1>2 DEF WindowsInv, OneWindowComes, ShowsItsOwn, Coming
<1>3. CASE KernelReadsUi
  BY <1>2, <1>3 DEF KernelReadsUi, Unread
<1>4. CASE \E a \in Apps, t \in OpenTypes, o \in Origins : WebAppNewUrl(a, t, o)
  BY <1>2, <1>4 DEF WebAppNewUrl, Unread
<1>5. CASE UiStep
  BY <1>1, <1>5, UiDispatchShows, XEventShows, ReEmbedShows DEF UiStep
<1>6. CASE UserStep
  BY <1>1, <1>6, UserShows
<1>7. CASE UNCHANGED allVars
  BY <1>2, <1>7 DEF allVars, uiVars
<1> QED
  BY <1>3, <1>4, <1>5, <1>6, <1>7 DEF EmbeddingNext

-----------------------------------------------------------------------------
\* The invariant

LEMMA InitUiInv == EmbeddingInit => IInv /\ UiInv
<1> SUFFICES ASSUME EmbeddingInit PROVE IInv /\ UiInv
  OBVIOUS
<1>1. IInv
  BY InitIInv DEF EmbeddingInit
<1>2. /\ uiOut = <<>> /\ xEvents = <<>> /\ closed = {} /\ dropped = {}
      /\ \A c \in Containers : /\ tabClient[c] = NoClient /\ shown[c] = NoClient
                               /\ ~embedding[c] /\ timers[c] = 0
      /\ tabs \subseteq Containers
  BY DEF EmbeddingInit, UiInit
<1>3. webAppList = {} /\ uiPipe = <<>>
  BY DEF EmbeddingInit, Init
<1>4. UiTypeOK
  BY DEF EmbeddingInit, UiInit, UiTypeOK
<1>5. \A a \in Apps : ~Awaited(a) /\ ~Held(a) /\ ~Closing(a)
  BY <1>2, <1>3, UiValues DEF Awaited, Held, Closing
<1>6. ListedAreSomewhere
  BY <1>2, <1>3, <1>5 DEF ListedAreSomewhere
<1>7. InOnePlace
  BY <1>2, <1>3, <1>5 DEF InOnePlace
<1>8. WordIsUnderWay /\ UpdatesAreOwn
  BY <1>2 DEF WordIsUnderWay, UpdatesAreOwn
<1>9. ContainersAreKnown /\ EmptyTabsAreQuiet
  BY <1>2, <1>3 DEF ContainersAreKnown, EmptyTabsAreQuiet
<1> QED
  BY <1>1, <1>4, <1>6, <1>7, <1>8, <1>9 DEF UiInv

LEMMA EmbeddingStep == IInv /\ UiInv /\ [EmbeddingNext]_allVars => IInv' /\ UiInv'
<1> SUFFICES ASSUME IInv, UiInv, [EmbeddingNext]_allVars PROVE IInv' /\ UiInv'
  OBVIOUS
<1>1. IInv'
  <2>1. [Next]_vars
    BY StepsAreKernelSteps DEF UiInv
  <2> QED
    BY <2>1, NextStep
<1>2. TypeOK
  BY DEF IInv
<1>3. ASSUME UNCHANGED <<uiOut, tabs, closed, tabClient, dropped>>, UNCHANGED vars,
             UiTypeOK', EmptyTabsAreQuiet'
      PROVE  UiInv'
  <2>1. UNCHANGED <<webAppList, container, uiPipe>>
    BY <1>3 DEF vars, kernelVars
  <2>2. Places'
    BY <1>3, <2>1, NothingMovesPlaces
  <2> QED
    BY <1>3, <2>2 DEF UiInv, Places
<1>4. ASSUME XEvent PROVE UiInv'
  <2>1. UNCHANGED <<uiOut, tabs, closed, tabClient, dropped>> /\ UNCHANGED vars
    BY <1>4 DEF XEvent
  <2>2. UiTypeOK' /\ EmptyTabsAreQuiet'
    BY <1>4, XEventWindows DEF UiInv
  <2> QED
    BY <1>3, <2>1, <2>2
<1>5. ASSUME NEW t \in Containers, ReEmbed(t)
      PROVE  UiInv'
  <2>1. UNCHANGED <<uiOut, tabs, closed, tabClient, dropped>> /\ UNCHANGED vars
    BY <1>5 DEF ReEmbed
  <2>2. UiTypeOK' /\ EmptyTabsAreQuiet'
    BY <1>5, ReEmbedWindows DEF UiInv
  <2> QED
    BY <1>3, <2>1, <2>2
<1>6. ASSUME SelectTab \/ UNCHANGED allVars PROVE UiInv'
  <2>1. UNCHANGED <<vars, uiOut, tabs, closed, tabClient, embedding, timers, shown, parent,
                    xEvents, dropped, superseded>> /\ current' \in tabs
    BY <1>6 DEF SelectTab, allVars, uiVars, UiInv, UiTypeOK
  <2>2. UiTypeOK' /\ EmptyTabsAreQuiet'
    BY <2>1 DEF UiInv, UiTypeOK, EmptyTabsAreQuiet
  <2> QED
    BY <1>3, <2>1, <2>2
<1>7. ASSUME UserStep PROVE UiInv'
  BY <1>6, <1>7, NewTabKeeps, LoadUrlKeeps, CloseTabKeeps DEF UserStep
<1>8. ASSUME UiStep PROVE UiInv'
  BY <1>2, <1>4, <1>5, <1>8, UiDispatchKeeps DEF UiStep
<1>9. ASSUME KernelReadsUi PROVE UiInv'
  BY <1>9, KernelReadsUiKeeps
<1>10. ASSUME \E a \in Apps, t \in OpenTypes, o \in Origins : WebAppNewUrl(a, t, o)
      PROVE  UiInv'
  BY <1>10, WebAppNewUrlKeeps
<1> QED
  BY <1>1, <1>6, <1>7, <1>8, <1>9, <1>10 DEF EmbeddingNext

-----------------------------------------------------------------------------
\* Theorems

\* The invariant of the kernel and that of the UI hold together.
THEOREM EmbeddingInvariance == EmbeddingSpec => [](IInv /\ UiInv)
<1>1. EmbeddingInit => IInv /\ UiInv
  BY InitUiInv
<1>2. IInv /\ UiInv /\ [EmbeddingNext]_allVars => (IInv /\ UiInv)'
  BY EmbeddingStep
<1> QED
  BY <1>1, <1>2, PTL DEF EmbeddingSpec

\* With the UI that the code has, the kernel does nothing that WebAppMgr, where
\* the UI sends what it likes, does not allow; all that is proved there holds.
THEOREM KernelImplementsWebAppMgr == EmbeddingSpec => Spec
<1>1. EmbeddingInit => Init
  BY DEF EmbeddingInit
<1>2. IInv /\ UiInv /\ [EmbeddingNext]_allVars => [Next]_vars
  BY StepsAreKernelSteps DEF UiInv
<1> QED
  BY <1>1, <1>2, EmbeddingInvariance, PTL DEF EmbeddingSpec, Spec

\* Tabs, pipes and the event queue hold what they should.
THEOREM UiTypeCorrectness == EmbeddingSpec => []UiTypeOK
<1>1. IInv /\ UiInv => UiTypeOK
  BY DEF UiInv
<1> QED
  BY <1>1, EmbeddingInvariance, PTL

\* No two tabs hold one web app, and a tab never holds one that the kernel has
\* taken away (BrowserApplication::dispatch and WebView::handleEmbed against
\* handleCloseWebApp).
THEOREM TabsAndListAgree == EmbeddingSpec => []TabsHoldListedApps
<1>1. IInv /\ UiInv => TabsHoldListedApps
  <2> SUFFICES ASSUME UiInv PROVE TabsHoldListedApps
    OBVIOUS
  <2>1. ASSUME NEW t \in tabs, tabClient[t] # NoClient
        PROVE  tabClient[t] \in webAppList
    <3>1. tabClient[t] \in Apps
      BY <2>1 DEF UiInv, UiTypeOK
    <3>2. Held(tabClient[t])
      BY DEF Held
    <3> QED
      BY <3>1, <3>2 DEF UiInv, ListedAreSomewhere
  <2> QED
    BY <2>1 DEF UiInv, InOnePlace, TabsHoldListedApps
<1> QED
  BY <1>1, EmbeddingInvariance, PTL

\* Every MSG_CLOSE_WEBAPP of a tab passes checkWebAppMsg, however many tabs are
\* closed while announcements and updates are under way.
THEOREM ClosesPass == EmbeddingSpec => []ClosesAreAccepted
<1>1. IInv /\ UiInv => ClosesAreAccepted
  BY HeadCloseIsAccepted DEF ClosesAreAccepted
<1> QED
  BY <1>1, EmbeddingInvariance, PTL

\* When both pipes are empty, what the kernel lists and the containers it has are
\* what the tabs hold, apart from web apps the UI dropped.
THEOREM KernelAndTabsMeet == EmbeddingSpec => []KernelAndTabsAgree
<1>1. IInv /\ UiInv => KernelAndTabsAgree
  <2> SUFFICES ASSUME IInv, UiInv, uiOut = <<>>, uiPipe = <<>>
               PROVE  /\ \A a \in webAppList \ dropped :
                            container[a] \in tabs /\ tabClient[container[a]] = a
                      /\ \A t \in tabs : tabClient[t] # NoClient => container[tabClient[t]] = t
                      /\ \A a \in dropped : container[a] \in closed \cup {1}
    BY DEF KernelAndTabsAgree
  <2>1. DOMAIN uiOut = {} /\ DOMAIN uiPipe = {}
    OBVIOUS
  <2>2. \A t \in tabs : tabClient[t] # NoClient => container[tabClient[t]] = t
    BY <2>1 DEF UiInv, WordIsUnderWay
  <2>3. ASSUME NEW a \in webAppList, a \notin dropped
        PROVE  container[a] \in tabs /\ tabClient[container[a]] = a
    <3>1. a \in Apps
      BY DEF IInv, TypeOK
    <3>2. Held(a)
      BY <2>1, <2>3, <3>1 DEF UiInv, ListedAreSomewhere, Awaited, Closing
    <3>3. PICK t \in tabs : tabClient[t] = a
      BY <3>2 DEF Held
    <3> QED
      BY <2>2, <3>1, <3>3, UiValues
  <2>4. \A a \in dropped : container[a] \in closed \cup {1}
    BY DEF UiInv, ContainersAreKnown
  <2> QED
    BY <2>2, <2>3, <2>4
<1> QED
  BY <1>1, EmbeddingInvariance, PTL

\* A tab that is not embedding shows the web app it holds, or none, whatever the
\* order in which announcements, events of the X server and timers come
\* (WebView::handleEmbed, slotClientIsEmbeded, slotClientClosed, reEmbedClient).
THEOREM TabsShowTheirOwn == EmbeddingSpec => []ShowsItsOwn
<1>1. EmbeddingInit => WindowsInv
  <2> SUFFICES ASSUME EmbeddingInit PROVE WindowsInv
    OBVIOUS
  <2>1. /\ xEvents = <<>> /\ tabs \subseteq Containers
        /\ \A c \in Containers : shown[c] = NoClient /\ timers[c] = 0
    BY DEF EmbeddingInit, UiInit
  <2> QED
    BY <2>1 DEF WindowsInv, OneWindowComes, ShowsItsOwn, Coming
<1>2. (IInv /\ UiInv) /\ (IInv /\ UiInv)' /\ WindowsInv /\ [EmbeddingNext]_allVars
      => WindowsInv'
  BY WindowsStep
<1>3. WindowsInv => ShowsItsOwn
  BY DEF WindowsInv
<1> QED
  BY <1>1, <1>2, <1>3, EmbeddingInvariance, PTL DEF EmbeddingSpec

-----------------------------------------------------------------------------
\* No tab is stuck

\* GoesOnInv of one tab
FollowedAt(t) ==
    /\ shown[t] # NoClient => parent[shown[t]] = t \/ Leaving(t, shown[t], 0)
    /\ \A i \in Coming(t) : parent[xEvents[i].app] = t \/ Leaving(t, xEvents[i].app, i)
EmbedsOn(t) ==
    embedding[t] /\ t \notin superseded =>
        \/ Coming(t) # {}
        \/ shown[t] # NoClient /\ Leaving(t, shown[t], 0)
        \/ WindowLost(t)
AwaitsSomething(t) ==
    tabClient[t] # NoClient /\ ~embedding[t] =>
        shown[t] # NoClient \/ Coming(t) # {} \/ timers[t] > 0 \/ WindowLost(t)
GoesOnAt(t) == FollowedAt(t) /\ EmbedsOn(t) /\ AwaitsSomething(t)

LEMMA GoesOnIsPerTab == GoesOnInv <=> \A t \in tabs : GoesOnAt(t)
BY DEF GoesOnInv, WindowsAreFollowed, EmbeddingGoesOn, EmptyTabsAwaitSomething, GoesOnAt,
       FollowedAt, EmbedsOn, AwaitsSomething

\* The event queue has lost its first k events and may have got more.
QueueGrows(k) ==
    /\ DOMAIN xEvents \subseteq Nat \ {0} /\ DOMAIN xEvents' \subseteq Nat \ {0}
    /\ \A i \in DOMAIN xEvents : i > k => i - k \in DOMAIN xEvents' /\ xEvents'[i - k] = xEvents[i]

\* The last that the UI hears of app and tab t is that it left.
LeftLast(t, app) ==
    \E n \in DOMAIN xEvents' :
        /\ xEvents'[n] = [tab |-> t, app |-> app, kind |-> "out"]
        /\ \A j \in Coming(t)' : j < n

\* The queue says of tab t what the X server did, and k events were read.
MovedOn(t, k) ==
    /\ QueueGrows(k)
    /\ GoneStays
    /\ \A app \in Apps : parent[app] = t => parent'[app] = t \/ LeftLast(t, app)
    /\ \A i \in Coming(t)' :
          \/ i + k \in DOMAIN xEvents /\ xEvents'[i] = xEvents[i + k]
          \/ parent'[xEvents'[i].app] = t

\* What is unread of the event queue, after nothing or the first event was read
UnreadIs(unread, k) ==
    /\ unread \in Seq(XEvents)
    /\ \A i \in DOMAIN unread : i + k \in DOMAIN xEvents /\ unread[i] = xEvents[i + k]
    /\ \A i \in DOMAIN xEvents : i > k => i - k \in DOMAIN unread

\* The windows of tab t are where they were, but for that of app.
OthersStay(t, app) == \A a \in Apps \ {app} : parent[a] = t => parent'[a] = t

\* The event queue is what is unread and the events of one move.
LEMMA MoveIsQueued ==
    ASSUME UiTypeOK, NEW app \in Apps, NEW to \in Containers \cup {Root},
           NEW unread, NEW k \in {0, 1}, UnreadIs(unread, k), GoneStays,
           Queued(app, to, unread), parent'[app] = to
    PROVE  /\ \A t \in tabs \cup {to} : OthersStay(t, app) => MovedOn(t, k)
           /\ to # Root => Coming(to)' # {}
<1>0. /\ unread \in Seq(XEvents)
      /\ \A i \in DOMAIN unread : i + k \in DOMAIN xEvents /\ unread[i] = xEvents[i + k]
      /\ \A i \in DOMAIN xEvents : i > k => i - k \in DOMAIN unread
  BY DEF UnreadIs
<1> USE <1>0
<1> DEFINE left == [tab |-> parent[app], app |-> app, kind |-> "out"]
           come == [tab |-> to, app |-> app, kind |-> "in"]
           moved == Moved(app, to)
<1>1. /\ parent[app] \in tabs \ {to} => left \in XEvents
      /\ to # Root => come \in XEvents
  BY DEF UiTypeOK, XEvents
<1>2. /\ left.kind = "out" /\ come.tab = to /\ come.app = app /\ come.kind = "in"
  OBVIOUS
<1>3. /\ moved \in Seq(XEvents)
      /\ parent[app] \in tabs \ {to} => 1 \in 1..Len(moved) /\ moved[1] = left
      /\ to # Root => Len(moved) \in 1..Len(moved) /\ moved[Len(moved)] = come
      /\ \A j \in 1..Len(moved) : moved[j] = left \/ (to # Root /\ moved[j] = come)
  <2> HIDE DEF left, come
  <2>1. moved = (IF parent[app] \in tabs \ {to} THEN <<left>> ELSE <<>>)
                \o (IF to = Root THEN <<>> ELSE <<come>>)
    BY DEF Moved, left, come
  <2> HIDE DEF moved
  <2>2. CASE parent[app] \in tabs \ {to} /\ to # Root
    <3>1. moved = <<left>> \o <<come>>
      BY <2>1, <2>2
    <3>2. left \in XEvents /\ come \in XEvents
      BY <1>1, <2>2
    <3>3. Len(moved) = 2 /\ moved[1] = left /\ moved[2] = come /\ moved \in Seq(XEvents)
      BY <3>1, <3>2
    <3> QED
      BY <2>2, <3>3
  <2>3. CASE parent[app] \in tabs \ {to} /\ to = Root
    <3>1. moved = <<left>> \o <<>>
      BY <2>1, <2>3
    <3> QED
      BY <1>1, <2>3, <3>1
  <2>4. CASE parent[app] \notin tabs \ {to} /\ to # Root
    <3>1. moved = <<>> \o <<come>>
      BY <2>1, <2>4
    <3>2. come \in XEvents
      BY <1>1, <2>4
    <3>3. Len(moved) = 1 /\ moved[1] = come /\ moved \in Seq(XEvents)
      BY <3>1, <3>2
    <3> QED
      BY <2>4, <3>3
  <2>5. CASE parent[app] \notin tabs \ {to} /\ to = Root
    <3>1. moved = <<>> \o <<>>
      BY <2>1, <2>5
    <3> QED
      BY <2>5, <3>1
  <2> QED
    BY <2>2, <2>3, <2>4, <2>5
<1>4. xEvents' = unread \o moved
  BY DEF Queued
<1>6. DOMAIN xEvents \subseteq Nat \ {0}
  BY DEF UiTypeOK
<1> HIDE DEF moved
<1> DEFINE n == Len(unread)
<1>7. /\ DOMAIN xEvents' = 1..(n + Len(moved))
      /\ \A i \in 1..n : xEvents'[i] = unread[i]
      /\ \A i \in 1..Len(moved) : xEvents'[n + i] = moved[i]
      /\ n \in Nat /\ DOMAIN unread = 1..n /\ Len(moved) \in Nat
  BY <1>3, <1>4, ConcatFacts
<1> HIDE DEF n
<1>8. QueueGrows(k)
  <2>1. ASSUME NEW i \in DOMAIN xEvents, i > k
        PROVE  i - k \in DOMAIN xEvents' /\ xEvents'[i - k] = xEvents[i]
    <3>1. i - k \in 1..n /\ i \in Nat /\ k \in Nat
      BY <1>6, <1>7, <2>1
    <3>2. unread[i - k] = xEvents[i]
      <4>1. (i - k) + k = i
        BY <3>1
      <4>2. unread[i - k] = xEvents[(i - k) + k]
        BY <1>7, <3>1
      <4> QED
        BY <4>1, <4>2
    <3> QED
      BY <1>7, <3>1, <3>2
  <2>2. DOMAIN xEvents' \subseteq Nat \ {0}
    BY <1>7
  <2> QED
    BY <1>6, <2>1, <2>2 DEF QueueGrows
<1>9. ASSUME NEW t, NEW i \in Coming(t)'
      PROVE  \/ i \in 1..n /\ i + k \in DOMAIN xEvents /\ xEvents'[i] = xEvents[i + k]
             \/ t = to /\ to # Root /\ xEvents'[i].app = app
  <2>1. i \in DOMAIN xEvents' /\ xEvents'[i].tab = t /\ xEvents'[i].kind = "in"
    BY <1>9 DEF Coming
  <2>2. CASE i \in 1..n
    BY <1>7, <2>2
  <2>3. CASE i \notin 1..n
    <3>1. i - n \in 1..Len(moved) /\ i = n + (i - n)
      BY <1>7, <2>1, <2>3
    <3>2. xEvents'[i] = moved[i - n]
      BY <1>7, <3>1
    <3> HIDE DEF left, come
    <3>3. xEvents'[i] = left \/ (to # Root /\ xEvents'[i] = come)
      BY <1>3, <3>1, <3>2
    <3> QED
      BY <1>2, <2>1, <3>3
  <2> QED
    BY <2>2, <2>3
<1>10. ASSUME NEW t \in tabs \cup {to}, OthersStay(t, app) PROVE MovedOn(t, k)
  <2>1. ASSUME NEW x \in Apps, parent[x] = t, parent'[x] # t PROVE LeftLast(t, x)
    <3>1. x = app /\ t # to /\ parent[app] \in tabs \ {to}
      BY <1>10, <2>1 DEF OthersStay
    <3>2. n + 1 \in DOMAIN xEvents' /\ xEvents'[n + 1] = left
      BY <1>3, <1>7, <3>1
    <3>3. left = [tab |-> t, app |-> x, kind |-> "out"]
      BY <2>1, <3>1
    <3>4. \A j \in Coming(t)' : j \in 1..n
      BY <1>9, <3>1
    <3>5. \A j \in Coming(t)' : j < n + 1
      BY <1>7, <3>4
    <3> QED
      BY <3>2, <3>3, <3>5 DEF LeftLast
  <2>2. ASSUME NEW i \in Coming(t)'
        PROVE  \/ i + k \in DOMAIN xEvents /\ xEvents'[i] = xEvents[i + k]
               \/ parent'[xEvents'[i].app] = t
    BY <1>9, <2>2
  <2> QED
    BY <1>8, <2>1, <2>2 DEF MovedOn
<1>11. ASSUME to # Root PROVE Coming(to)' # {}
  <2>1. Len(moved) \in 1..Len(moved) /\ moved[Len(moved)] = come
    BY <1>3, <1>11
  <2>2. n + Len(moved) \in DOMAIN xEvents' /\ xEvents'[n + Len(moved)] = come
    BY <1>7, <2>1
  <2>3. n + Len(moved) \in Coming(to)'
    BY <1>2, <2>2 DEF Coming
  <2> QED
    BY <2>3
<1> QED
  BY <1>10, <1>11

LEMMA WhatIsUnread ==
    ASSUME UiTypeOK
    PROVE  /\ UnreadIs(xEvents, 0)
           /\ xEvents # <<>> => UnreadIs(Tail(xEvents), 1)
<1>1. xEvents \in Seq(XEvents) /\ DOMAIN xEvents = 1..Len(xEvents) /\ Len(xEvents) \in Nat
  BY DEF UiTypeOK
<1>2. UnreadIs(xEvents, 0)
  <2>1. \A i \in DOMAIN xEvents : i + 0 = i /\ i - 0 = i
    BY <1>1
  <2> QED
    BY <1>1, <2>1 DEF UnreadIs
<1>3. ASSUME xEvents # <<>> PROVE UnreadIs(Tail(xEvents), 1)
  <2>1. /\ Tail(xEvents) \in Seq(XEvents)
        /\ DOMAIN Tail(xEvents) = 1..(Len(xEvents) - 1)
        /\ \A i \in DOMAIN Tail(xEvents) :
              i + 1 \in DOMAIN xEvents /\ Tail(xEvents)[i] = xEvents[i + 1]
    BY <1>1, <1>3, TailFacts
  <2>2. \A i \in DOMAIN xEvents : i > 1 => i - 1 \in 1..(Len(xEvents) - 1)
    BY <1>1
  <2> QED
    BY <2>1, <2>2 DEF UnreadIs
<1> QED
  BY <1>2, <1>3

\* No window is moved, or away from other tabs only.
LEMMA NoMoveMovesOn ==
    ASSUME UiTypeOK, NEW unread, NEW k \in {0, 1}, UnreadIs(unread, k), xEvents' = unread,
           NEW t, \A app \in Apps : parent[app] = t => parent'[app] = t, GoneStays
    PROVE  MovedOn(t, k)
<1>1. DOMAIN xEvents \subseteq Nat \ {0}
  BY DEF UiTypeOK
<1>2. DOMAIN xEvents' \subseteq Nat \ {0}
  BY DEF UnreadIs
<1>3. ASSUME NEW i \in DOMAIN xEvents, i > k
      PROVE  i - k \in DOMAIN xEvents' /\ xEvents'[i - k] = xEvents[i]
  <2>1. i - k \in DOMAIN unread /\ (i - k) + k = i
    BY <1>1, <1>3 DEF UnreadIs
  <2>2. unread[i - k] = xEvents[(i - k) + k]
    BY <2>1 DEF UnreadIs
  <2> QED
    BY <2>1, <2>2
<1>4. \A i \in Coming(t)' : i + k \in DOMAIN xEvents /\ xEvents'[i] = xEvents[i + k]
  BY DEF UnreadIs, Coming
<1> QED
  BY <1>1, <1>2, <1>3, <1>4 DEF MovedOn, QueueGrows

LEMMA NoMoveIsTold ==
    ASSUME UiTypeOK, NEW unread, NEW k \in {0, 1}, UnreadIs(unread, k), NoMove(unread)
    PROVE  \A t : MovedOn(t, k)
BY NoMoveMovesOn DEF NoMove, GoneStays

\* A window that exists is moved, one that was destroyed is not.
LEMMA MoveIsTold ==
    ASSUME UiTypeOK, NEW app \in Apps, NEW to \in Containers \cup {Root},
           NEW unread, NEW k \in {0, 1}, UnreadIs(unread, k), Reparent(app, to, unread)
    PROVE  /\ parent'[app] \in {to, Gone}
           /\ \A t \in tabs \cup {to} : MovedOn(t, k)
           /\ to # Root => Coming(to)' # {} \/ parent'[app] = Gone
<1>1. CASE parent[app] = Gone
  <2>1. NoMove(unread)
    BY <1>1 DEF Reparent
  <2>2. parent'[app] = Gone
    BY <1>1, <2>1 DEF NoMove
  <2> QED
    BY <2>1, <2>2, NoMoveIsTold
<1>2. CASE parent[app] # Gone
  <2>1. Queued(app, to, unread) /\ parent' = [parent EXCEPT ![app] = to]
    BY <1>2 DEF Reparent, Queued
  <2>2. parent'[app] = to /\ \A a \in Apps : a # app => parent'[a] = parent[a]
    BY <2>1 DEF UiTypeOK
  <2>3. GoneStays /\ \A t : OthersStay(t, app)
    BY <1>2, <2>2 DEF GoneStays, OthersStay
  <2> QED
    BY <2>1, <2>2, <2>3, MoveIsQueued
<1> QED
  BY <1>1, <1>2

LEMMA EventFacts ==
    ASSUME UiTypeOK, NEW i \in DOMAIN xEvents
    PROVE  xEvents[i].app \in Apps /\ xEvents[i].tab \in Containers
<1>1. xEvents[i] \in XEvents
  BY DEF UiTypeOK
<1> QED
  BY <1>1 DEF XEvents

\* Leaving and FollowedAt, after the step
LeavingNext(t, app, i) ==
    \E n \in DOMAIN xEvents' : n > i /\ xEvents'[n] = [tab |-> t, app |-> app, kind |-> "out"]
FollowedNext(t) ==
    /\ shown'[t] # NoClient => parent'[shown'[t]] = t \/ LeavingNext(t, shown'[t], 0)
    /\ \A i \in Coming(t)' :
          parent'[xEvents'[i].app] = t \/ LeavingNext(t, xEvents'[i].app, i)

LEMMA NextIsPrimed == ASSUME NEW t PROVE FollowedNext(t) <=> FollowedAt(t)'
BY DEF FollowedNext, LeavingNext, FollowedAt, Leaving

\* Word that follows event i follows it when k events before it were read.
LEMMA LeavingMoves ==
    ASSUME NEW k \in {0, 1}, QueueGrows(k), NEW t, NEW app, NEW i \in Nat, i >= k,
           Leaving(t, app, i)
    PROVE  LeavingNext(t, app, i - k)
<1>1. PICK j \in DOMAIN xEvents : j > i /\ xEvents[j] = [tab |-> t, app |-> app, kind |-> "out"]
  BY DEF Leaving
<1>2. j \in Nat /\ j > k /\ j - k > i - k
  BY <1>1 DEF QueueGrows
<1>3. j - k \in DOMAIN xEvents' /\ xEvents'[j - k] = xEvents[j]
  BY <1>2 DEF QueueGrows
<1>4. PICK d : d = i - k
  OBVIOUS
<1>5. LeavingNext(t, app, d)
  BY <1>1, <1>2, <1>3, <1>4 DEF LeavingNext
<1> QED
  BY <1>4, <1>5

LEMMA LastLeaves ==
    ASSUME NEW k, QueueGrows(k), NEW t, NEW app, LeftLast(t, app)
    PROVE  LeavingNext(t, app, 0) /\ \A i \in Coming(t)' : LeavingNext(t, app, i)
<1>1. PICK n \in DOMAIN xEvents' :
         /\ xEvents'[n] = [tab |-> t, app |-> app, kind |-> "out"]
         /\ \A j \in Coming(t)' : j < n
  BY DEF LeftLast
<1>2. n \in Nat /\ n > 0 /\ \A j \in Coming(t)' : j \in Nat /\ n > j
  BY <1>1 DEF QueueGrows, Coming
<1> QED
  BY <1>1, <1>2 DEF LeavingNext

\* What tab t shows and awaits stays followed, when it shows what it did, or none,
\* or what the event that was read brought.
LEMMA FollowedStill ==
    ASSUME UiTypeOK, NEW t, NEW k \in {0, 1}, MovedOn(t, k), FollowedAt(t),
           \/ shown'[t] = NoClient
           \/ /\ shown'[t] = shown[t] /\ shown[t] \in Apps
              /\ k = 1 => xEvents[1] # [tab |-> t, app |-> shown[t], kind |-> "out"]
           \/ k = 1 /\ 1 \in Coming(t) /\ shown'[t] = xEvents[1].app
    PROVE  FollowedAt(t)'
<1>1. QueueGrows(k)
  BY DEF MovedOn
<1>2. ASSUME NEW app \in Apps, parent[app] = t
      PROVE  \/ parent'[app] = t
             \/ LeavingNext(t, app, 0) /\ \A i \in Coming(t)' : LeavingNext(t, app, i)
  BY <1>1, <1>2, LastLeaves DEF MovedOn
<1>3. ASSUME NEW i \in Coming(t)'
      PROVE  parent'[xEvents'[i].app] = t \/ LeavingNext(t, xEvents'[i].app, i)
  <2>1. i \in Nat \ {0} /\ xEvents'[i].tab = t /\ xEvents'[i].kind = "in"
    BY <1>1, <1>3 DEF QueueGrows, Coming
  <2>2. CASE i + k \in DOMAIN xEvents /\ xEvents'[i] = xEvents[i + k]
    <3>1. PICK j, app : j = i + k /\ app = xEvents[j].app
      OBVIOUS
    <3>2. j \in Coming(t) /\ j \in Nat /\ j >= k /\ j - k = i /\ app = xEvents'[i].app
      BY <2>1, <2>2, <3>1 DEF Coming
    <3>3. parent[app] = t \/ Leaving(t, app, j)
      BY <3>1, <3>2 DEF FollowedAt
    <3>4. app \in Apps
      BY <3>1, <3>2, EventFacts DEF Coming
    <3>5. Leaving(t, app, j) => LeavingNext(t, app, j - k)
      BY <1>1, <3>2, LeavingMoves
    <3>6. parent[app] = t => parent'[app] = t \/ LeavingNext(t, app, i)
      BY <1>2, <1>3, <3>4
    <3> QED
      BY <3>2, <3>3, <3>5, <3>6
  <2> QED
    BY <1>3, <2>2 DEF MovedOn
<1>4. ASSUME shown'[t] # NoClient
      PROVE  parent'[shown'[t]] = t \/ LeavingNext(t, shown'[t], 0)
  <2>1. PICK app : app = shown'[t]
    OBVIOUS
  <2>2. app \in Apps /\ (parent[app] = t \/ Leaving(t, app, k))
    <3>1. CASE k = 1 /\ 1 \in Coming(t) /\ app = xEvents[1].app
      <4>1. 1 \in DOMAIN xEvents
        BY <3>1 DEF Coming
      <4>2. app \in Apps
        BY <3>1, <4>1, EventFacts
      <4> QED
        BY <3>1, <4>2 DEF FollowedAt
    <3>2. CASE /\ app = shown[t] /\ app \in Apps
               /\ k = 1 => xEvents[1] # [tab |-> t, app |-> app, kind |-> "out"]
      <4>1. shown[t] # NoClient
        BY <1>4, <2>1, <3>2
      <4>2. parent[app] = t \/ Leaving(t, app, 0)
        BY <3>2, <4>1 DEF FollowedAt
      <4>3. ASSUME Leaving(t, app, 0) PROVE Leaving(t, app, k)
        <5>1. PICK j \in DOMAIN xEvents :
                 j > 0 /\ xEvents[j] = [tab |-> t, app |-> app, kind |-> "out"]
          BY <4>3 DEF Leaving
        <5>2. j \in Nat /\ j > k
          BY <1>1, <3>2, <5>1 DEF QueueGrows
        <5> QED
          BY <5>1, <5>2 DEF Leaving
      <4> QED
        BY <3>2, <4>2, <4>3
    <3> QED
      BY <1>4, <2>1, <3>1, <3>2
  <2>3. Leaving(t, app, k) => LeavingNext(t, app, k - k)
    BY <1>1, LeavingMoves
  <2>4. k - k = 0
    OBVIOUS
  <2> QED
    BY <1>2, <2>1, <2>2, <2>3, <2>4
<1>5. FollowedNext(t)
  BY <1>3, <1>4 DEF FollowedNext
<1> QED
  BY <1>5, NextIsPrimed

\* A tab goes on when nothing happens to it but in the queue.
LEMMA TabGoesOn ==
    ASSUME UiTypeOK, NEW t \in Containers, NEW k \in {0, 1}, MovedOn(t, k), GoesOnAt(t),
           shown'[t] = shown[t], embedding'[t] = embedding[t],
           embedding[t] \/ timers'[t] = timers[t], tabClient'[t] = tabClient[t],
           superseded \subseteq superseded',
           k = 1 => ~(xEvents[1].tab = t /\ (xEvents[1].kind = "in" \/ xEvents[1].app = shown[t]))
    PROVE  GoesOnAt(t)'
<1>1. QueueGrows(k)
  BY DEF MovedOn
<1>2. FollowedAt(t)'
  <2>1. k = 1 => xEvents[1] # [tab |-> t, app |-> shown[t], kind |-> "out"]
    OBVIOUS
  <2>2. shown[t] \in Apps \cup {NoClient}
    BY DEF UiTypeOK
  <2> QED
    BY <2>1, <2>2, FollowedStill DEF GoesOnAt
<1>3. Coming(t) # {} => Coming(t)' # {}
  <2> SUFFICES ASSUME NEW i \in Coming(t) PROVE Coming(t)' # {}
    OBVIOUS
  <2>1. i \in DOMAIN xEvents /\ i > k
    <3>1. i \in Nat \ {0} /\ xEvents[i].tab = t /\ xEvents[i].kind = "in" /\ i \in DOMAIN xEvents
      BY <1>1 DEF QueueGrows, Coming
    <3>2. k = 1 => i # 1
      BY <3>1
    <3> QED
      BY <3>1, <3>2
  <2>2. i - k \in Coming(t)'
    BY <1>1, <2>1 DEF QueueGrows, Coming
  <2> QED
    BY <2>2
<1>4. shown[t] # NoClient /\ Leaving(t, shown[t], 0) => Leaving(t, shown[t], 0)'
  <2> SUFFICES ASSUME Leaving(t, shown[t], 0) PROVE Leaving(t, shown[t], 0)'
    OBVIOUS
  <2>1. PICK j \in DOMAIN xEvents :
           xEvents[j] = [tab |-> t, app |-> shown[t], kind |-> "out"]
    BY DEF Leaving
  <2>2. k = 1 => j # 1
    BY <2>1
  <2>3. j \in Nat \ {0} /\ j > k
    BY <1>1, <2>2 DEF QueueGrows
  <2>4. j - k \in DOMAIN xEvents' /\ xEvents'[j - k] = xEvents[j] /\ j - k > 0
    BY <1>1, <2>3 DEF QueueGrows
  <2> QED
    BY <2>1, <2>4 DEF Leaving
<1>5. WindowLost(t) => WindowLost(t)'
  BY DEF UiTypeOK, WindowLost, MovedOn, GoneStays
<1>6. EmbedsOn(t)'
  BY <1>3, <1>4, <1>5 DEF GoesOnAt, EmbedsOn, Leaving
<1>7. AwaitsSomething(t)'
  BY <1>3, <1>5 DEF GoesOnAt, AwaitsSomething
<1> QED
  BY <1>2, <1>6, <1>7 DEF GoesOnAt

\* handleEmbed: an empty tab gets the window if that exists, one that shows a window
\* gives it away, and one that waits for a window goes on waiting for it.
LEMMA HandleEmbedGoesOn ==
    ASSUME UiTypeOK, EmptyTabsAreQuiet, NEW tab \in Containers, NEW app \in Apps,
           HandleEmbed(tab, app), NEW t \in tabs \cup {tab}, t \in Containers, GoesOnAt(t)
    PROVE  GoesOnAt(t)'
<1>1. /\ embedding' = [embedding EXCEPT ![tab] = TRUE]
      /\ tabClient' = [tabClient EXCEPT ![tab] = app]
      /\ shown' = shown /\ timers' = timers /\ superseded \subseteq superseded'
  BY DEF HandleEmbed
<1>2. /\ embedding'[tab]
      /\ t # tab => embedding'[t] = embedding[t] /\ tabClient'[t] = tabClient[t]
  BY <1>1 DEF UiTypeOK
<1>3. UnreadIs(xEvents, 0)
  BY WhatIsUnread
<1>4. NoMove(xEvents) => MovedOn(t, 0)
  BY <1>3, NoMoveIsTold
<1>5. ASSUME MovedOn(t, 0), t # tab PROVE GoesOnAt(t)'
  <2>1. PICK k \in {0, 1} : k = 0
    OBVIOUS
  <2>2. MovedOn(t, k) /\ ~(k = 1) /\ shown'[t] = shown[t] /\ timers'[t] = timers[t]
    BY <1>1, <1>5, <2>1
  <2> QED
    BY <1>1, <1>2, <1>5, <2>2, TabGoesOn
<1>6. ASSUME MovedOn(t, 0) PROVE FollowedAt(t)'
  <2>1. PICK k \in {0, 1} : k = 0
    OBVIOUS
  <2>2. shown'[t] = shown[t] /\ (shown[t] \in Apps \/ shown'[t] = NoClient)
    BY <1>1 DEF UiTypeOK
  <2>3. MovedOn(t, k) /\ ~(k = 1) /\ FollowedAt(t)
    BY <1>6, <2>1 DEF GoesOnAt
  <2> QED
    BY <2>2, <2>3, FollowedStill
<1>7. ASSUME FollowedAt(t)', t = tab,
             \/ t \in superseded' \/ Coming(t)' # {} \/ parent'[app] = Gone
             \/ shown[t] # NoClient /\ parent'[shown[t]] # t
      PROVE  GoesOnAt(t)'
  <2>1. tabClient'[t] = app /\ app # NoClient
    BY <1>1, <1>7, UiValues DEF UiTypeOK
  <2>3. EmbedsOn(t)'
    BY <1>1, <1>7, <2>1 DEF EmbedsOn, FollowedAt, WindowLost
  <2>2. AwaitsSomething(t)'
    BY <1>2, <1>7 DEF AwaitsSomething
  <2> QED
    BY <1>7, <2>2, <2>3 DEF GoesOnAt
<1>8. CASE tabClient[tab] = NoClient
  <2>1. Reparent(app, tab, xEvents) /\ tab # Root
    BY <1>8, UiValues DEF HandleEmbed
  <2>2. MovedOn(t, 0) /\ (Coming(tab)' # {} \/ parent'[app] = Gone)
    BY <1>3, <2>1, MoveIsTold
  <2> QED
    BY <1>5, <1>6, <1>7, <2>2
<1>9. CASE tabClient[tab] # NoClient /\ shown[tab] # NoClient
  <2>1. PICK a \in Apps : a = shown[tab]
    BY <1>9 DEF UiTypeOK
  <2>2. Reparent(a, Root, xEvents)
    BY <1>9, <2>1 DEF HandleEmbed
  <2>3. tab \in tabs
    BY <1>9 DEF EmptyTabsAreQuiet
  <2>4. MovedOn(t, 0) /\ parent'[a] \in {Root, Gone}
    BY <1>3, <2>2, <2>3, MoveIsTold
  <2>5. Root # tab /\ Gone # tab
    BY UiValues
  <2> QED
    BY <1>5, <1>6, <1>7, <1>9, <2>1, <2>4, <2>5
<1>10. CASE tabClient[tab] # NoClient /\ shown[tab] = NoClient
  <2>1. NoMove(xEvents)
    BY <1>10 DEF HandleEmbed
  <2>2. Coming(tab) # {} \/ tab \in superseded'
    BY <1>10 DEF HandleEmbed
  <2>3. Coming(t)' = Coming(t)
    BY <2>1 DEF NoMove, Coming
  <2>4. t = tab => t \in superseded' \/ Coming(t)' # {}
    BY <2>2, <2>3
  <2> QED
    BY <1>4, <1>5, <1>6, <1>7, <2>1, <2>4
<1> QED
  BY <1>8, <1>9, <1>10

\* A tab without a web app that was not closed has nothing to go on with.
LEMMA EmptyTabGoesOn ==
    ASSUME UiTypeOK, EmptyTabsAreQuiet, NEW tab \in Containers, tab \notin closed,
           tabClient[tab] = NoClient
    PROVE  GoesOnAt(tab)
<1>1. Coming(tab) = {} /\ shown[tab] = NoClient
  BY EmptyTabAwaitsNone
<1>2. ~embedding[tab]
  BY DEF EmptyTabsAreQuiet
<1> QED
  BY <1>1, <1>2 DEF GoesOnAt, FollowedAt, EmbedsOn, AwaitsSomething

LEMMA GoesOnIsPerTabNext == GoesOnInv' <=> \A t \in tabs' : GoesOnAt(t)'
BY DEF GoesOnInv, WindowsAreFollowed, EmbeddingGoesOn, EmptyTabsAwaitSomething, GoesOnAt,
       FollowedAt, EmbedsOn, AwaitsSomething

\* Nothing that GoesOnInv speaks of changes.
LEMMA NothingGoesOn ==
    ASSUME GoesOnInv, UNCHANGED <<tabs, tabClient, embedding, timers, shown, parent, xEvents,
                                  superseded>>
    PROVE  GoesOnInv'
BY DEF GoesOnInv, WindowsAreFollowed, EmbeddingGoesOn, EmptyTabsAwaitSomething, Coming,
       Leaving, WindowLost

\* BrowserApplication::dispatch
LEMMA UiDispatchGoesOn ==
    ASSUME UiInv, TypeOK, GoesOnInv, UiDispatch
    PROVE  GoesOnInv'
<1>1. UiTypeOK /\ EmptyTabsAreQuiet /\ tabs \cap closed = {} /\ tabs \subseteq Containers
  BY DEF UiInv, UiTypeOK, ContainersAreKnown
<1>2. \A t \in tabs : GoesOnAt(t)
  BY GoesOnIsPerTab
<1> DEFINE m == Head(uiPipe)
<1>3. ASSUME NEW tab \in Containers, m.app \in Apps, HandleEmbed(tab, m.app),
             tabs' \in {tabs, tabs \cup {tab}}, GoesOnAt(tab)
      PROVE  GoesOnInv'
  <2> SUFFICES ASSUME NEW t \in tabs' PROVE GoesOnAt(t)'
    BY GoesOnIsPerTabNext
  <2>1. t \in tabs \cup {tab} /\ t \in Containers /\ GoesOnAt(t)
    BY <1>1, <1>2, <1>3
  <2> QED
    BY <1>1, <1>3, <2>1, HandleEmbedGoesOn
<1>4. m.type = "NEW_WEBAPP" => m.app \in Apps
  <2>1. m \in UiMsgs
    BY DEF UiDispatch, TypeOK
  <2> QED
    BY <2>1, AnnouncementFacts
<1>5. current \in tabs
  BY <1>1 DEF UiTypeOK
<1>6. CASE m.type = "NEW_WEBAPP" /\ Destination(m) # {}
  <2>1. PICK t \in Destination(m) : HandleEmbed(t, m.app) /\ tabs' = tabs
    BY <1>6 DEF UiDispatch
  <2>2. t \in tabs
    BY <1>5, <2>1 DEF Destination
  <2> QED
    BY <1>1, <1>2, <1>3, <1>4, <1>6, <2>1, <2>2
<1>7. CASE m.type = "NEW_WEBAPP" /\ Destination(m) = {} /\ tabClient[current] = NoClient
  <2>1. HandleEmbed(current, m.app) /\ tabs' = tabs
    BY <1>7 DEF UiDispatch, NoDestination
  <2> QED
    BY <1>1, <1>2, <1>3, <1>4, <1>5, <1>7, <2>1
<1>8. CASE m.type = "NEW_WEBAPP" /\ Destination(m) = {} /\ tabClient[current] # NoClient
           /\ m.container \in 2..4
  <2>1. PICK c \in NextTab : tabs' = tabs \cup {c} /\ HandleEmbed(c, m.app)
    BY <1>8 DEF UiDispatch, NoDestination
  <2>2. c \in Containers /\ c \notin closed /\ c \notin tabs
    BY DEF NextTab
  <2>3. tabClient[c] = NoClient
    BY <1>1, <2>2 DEF EmptyTabsAreQuiet
  <2>4. GoesOnAt(c)
    BY <1>1, <2>2, <2>3, EmptyTabGoesOn
  <2> QED
    BY <1>3, <1>4, <1>8, <2>1, <2>2, <2>4
<1>9. CASE \/ m.type # "NEW_WEBAPP"
           \/ /\ m.type = "NEW_WEBAPP" /\ Destination(m) = {}
              /\ tabClient[current] # NoClient /\ m.container \notin 2..4
  <2>1. UNCHANGED <<tabs, tabClient, embedding, timers, shown, parent, xEvents, superseded>>
    BY <1>9 DEF UiDispatch, NoDestination, uiVars
  <2> QED
    BY <2>1, NothingGoesOn
<1> QED
  BY <1>6, <1>7, <1>8, <1>9

\* The UI reads an event.
LEMMA XEventGoesOn ==
    ASSUME UiInv, WindowsInv, GoesOnInv, XEvent
    PROVE  GoesOnInv'
<1>1. UiTypeOK /\ EmptyTabsAreQuiet /\ tabs \subseteq Containers
  BY DEF UiInv, UiTypeOK
<1>2. \A t \in tabs : WindowsAt(t)
  BY WindowsInvIsPerTab
<1>3. /\ xEvents # <<>> /\ tabs' = tabs /\ tabClient' = tabClient /\ superseded' = superseded
      /\ superseded \subseteq superseded'
  BY DEF XEvent
<1>0. PICK k \in {0, 1} : k = 1
  OBVIOUS
<1>4. PICK e, unread : e = Head(xEvents) /\ unread = Tail(xEvents) /\ k = 1
  BY <1>0
<1>5. UnreadIs(unread, k)
  BY <1>1, <1>3, <1>4, WhatIsUnread
<1>6. e = xEvents[1] /\ 1 \in DOMAIN xEvents /\ e.app \in Apps /\ e.tab \in Containers
  <2>1. xEvents \in Seq(XEvents)
    BY <1>1 DEF UiTypeOK
  <2>2. e = xEvents[1] /\ 1 \in DOMAIN xEvents
    BY <1>3, <1>4, <2>1, TailFacts
  <2> QED
    BY <1>1, <2>2, EventFacts
<1>7. SUFFICES ASSUME NEW t \in tabs PROVE GoesOnAt(t)'
  BY <1>3, GoesOnIsPerTabNext
<1>8. t \in Containers /\ GoesOnAt(t) /\ FollowedAt(t)
  BY <1>1, GoesOnIsPerTab DEF GoesOnAt
<1>9. ASSUME NoMove(unread) PROVE MovedOn(t, k)
  BY <1>1, <1>5, <1>9, NoMoveIsTold
<1>10. ASSUME NEW app \in Apps, Reparent(app, Root, unread)
       PROVE  MovedOn(t, k) /\ parent'[app] \in {Root, Gone}
  BY <1>1, <1>5, <1>10, MoveIsTold
<1>11. ASSUME MovedOn(t, k), shown'[t] = shown[t], embedding'[t] = embedding[t],
              timers'[t] = timers[t], e.tab # t \/ (e.kind = "out" /\ e.app # shown[t])
       PROVE  GoesOnAt(t)'
  <2>1. tabClient'[t] = tabClient[t] /\ (embedding[t] \/ timers'[t] = timers[t])
    BY <1>3, <1>11
  <2>2. ~(xEvents[1].tab = t /\ (xEvents[1].kind = "in" \/ xEvents[1].app = shown[t]))
    BY <1>6, <1>11
  <2> QED
    BY <1>1, <1>3, <1>8, <1>11, <2>1, <2>2, TabGoesOn
<1>12. CASE e.tab \notin tabs /\ NoMove(unread) /\ UNCHANGED <<shown, embedding, timers>>
  BY <1>9, <1>11, <1>12
<1>13. CASE /\ e.tab \in tabs /\ e.kind = "out" /\ shown[e.tab] # e.app
            /\ NoMove(unread) /\ UNCHANGED <<shown, embedding, timers>>
  BY <1>9, <1>11, <1>13
<1>14. CASE e.tab \in tabs /\ e.kind = "in" /\ ClientComes(e.tab, e.app) /\ UNCHANGED timers
  <2>1. 1 \in Coming(e.tab)
    BY <1>6, <1>14 DEF Coming
  <2>2. shown[e.tab] = NoClient
    BY <1>2, <1>14, <2>1 DEF WindowsAt
  <2>3. /\ shown' = [shown EXCEPT ![e.tab] = e.app]
        /\ \/ Reparent(e.app, Root, unread) /\ embedding' = embedding
           \/ NoMove(unread) /\ embedding' = [embedding EXCEPT ![e.tab] = FALSE]
    BY <1>4, <1>14, <2>2 DEF ClientComes
  <2>4. MovedOn(t, k)
    BY <1>6, <1>9, <1>10, <2>3
  <2>5. CASE t # e.tab
    <3>1. shown'[t] = shown[t] /\ timers'[t] = timers[t] /\ embedding'[t] = embedding[t]
      BY <1>1, <1>8, <1>14, <2>3, <2>5 DEF UiTypeOK
    <3> QED
      BY <1>11, <2>4, <2>5, <3>1
  <2>6. CASE t = e.tab
    <3>1. shown'[t] = e.app /\ e.app # NoClient
      BY <1>1, <1>6, <1>8, <2>3, <2>6, UiValues DEF UiTypeOK
    <3>2. FollowedAt(t)'
      <4>1. k = 1 /\ 1 \in Coming(t) /\ shown'[t] = xEvents[1].app
        BY <1>4, <1>6, <2>1, <2>6, <3>1
      <4> QED
        BY <1>1, <1>8, <2>4, <4>1, FollowedStill
    <3>3. ~embedding'[t] \/ parent'[e.app] # t
      <4>1. CASE Reparent(e.app, Root, unread)
        BY <1>6, <1>8, <1>10, <4>1, UiValues
      <4>2. CASE embedding' = [embedding EXCEPT ![e.tab] = FALSE]
        BY <1>1, <1>8, <2>6, <4>2 DEF UiTypeOK
      <4> QED
        BY <2>3, <4>1, <4>2
    <3>4. EmbedsOn(t)'
      BY <3>1, <3>2, <3>3 DEF EmbedsOn, FollowedAt
    <3>5. AwaitsSomething(t)'
      BY <3>1 DEF AwaitsSomething
    <3> QED
      BY <3>2, <3>4, <3>5 DEF GoesOnAt
  <2> QED
    BY <2>5, <2>6
<1>15. CASE /\ e.tab \in tabs /\ e.kind = "out" /\ shown[e.tab] = e.app
            /\ ClientGoes(e.tab) /\ UNCHANGED embedding
  <2>1. PICK tab \in tabs : tab = e.tab
    BY <1>15
  <2>2. tab \in Containers /\ shown[tab] # NoClient
    BY <1>6, <1>15, <2>1, UiValues
  <2>3. tabClient[tab] \in Apps
    BY <1>1, <2>2 DEF EmptyTabsAreQuiet, UiTypeOK
  <2>4. shown' = [shown EXCEPT ![tab] = NoClient] /\ shown'[tab] = NoClient
    BY <1>1, <1>15, <2>1, <2>2 DEF ClientGoes, UiTypeOK
  <2>5. t # tab => shown'[t] = shown[t] /\ embedding'[t] = embedding[t]
    BY <1>1, <1>8, <1>15, <2>4 DEF UiTypeOK
  <2>6. ASSUME MovedOn(t, k), t = tab PROVE FollowedAt(t)'
    BY <1>1, <1>8, <2>4, <2>6, FollowedStill
  <2>7. CASE embedding[tab]
    <3>1. PICK app \in Apps : app = tabClient[tab]
      BY <2>3
    <3>2. Reparent(app, tab, unread) /\ timers' = timers /\ embedding'[tab]
      BY <1>4, <1>15, <2>1, <2>7, <3>1 DEF ClientGoes
    <3>3. MovedOn(t, k) /\ (Coming(tab)' # {} \/ WindowLost(tab)')
      <4>1. MovedOn(t, k) /\ (Coming(tab)' # {} \/ parent'[app] = Gone)
        BY <1>1, <1>5, <2>2, <3>2, UiValues, MoveIsTold
      <4>2. tabClient'[tab] = app /\ app # NoClient
        BY <1>3, <3>1, UiValues
      <4> QED
        BY <4>1, <4>2 DEF WindowLost
    <3>4. CASE t # tab
      BY <1>11, <2>1, <2>5, <3>2, <3>3, <3>4
    <3>5. CASE t = tab
      BY <2>6, <3>2, <3>3, <3>5 DEF GoesOnAt, EmbedsOn, AwaitsSomething
    <3> QED
      BY <3>4, <3>5
  <2>8. CASE ~embedding[tab]
    <3>1. timers' = [timers EXCEPT ![tab] = @ + 1] /\ NoMove(unread) /\ ~embedding'[tab]
      BY <1>4, <1>15, <2>1, <2>8 DEF ClientGoes
    <3>2. MovedOn(t, k)
      BY <1>9, <3>1
    <3>3. CASE t # tab
      <4>1. timers'[t] = timers[t]
        BY <1>1, <1>8, <3>1, <3>3 DEF UiTypeOK
      <4> QED
        BY <1>11, <2>1, <2>5, <3>2, <3>3, <4>1
    <3>4. CASE t = tab
      <4>1. timers'[t] > 0
        BY <1>1, <1>8, <3>1, <3>4 DEF UiTypeOK
      <4> QED
        BY <2>6, <3>1, <3>2, <3>4, <4>1 DEF GoesOnAt, EmbedsOn, AwaitsSomething
    <3> QED
      BY <3>3, <3>4
  <2> QED
    BY <2>7, <2>8
<1>16. \/ e.tab \notin tabs /\ NoMove(unread) /\ UNCHANGED <<shown, embedding, timers>>
       \/ e.tab \in tabs /\ e.kind = "in" /\ ClientComes(e.tab, e.app) /\ UNCHANGED timers
       \/ /\ e.tab \in tabs /\ e.kind = "out" /\ shown[e.tab] = e.app
          /\ ClientGoes(e.tab) /\ UNCHANGED embedding
       \/ /\ e.tab \in tabs /\ e.kind = "out" /\ shown[e.tab] # e.app
          /\ NoMove(unread) /\ UNCHANGED <<shown, embedding, timers>>
  BY <1>4 DEF XEvent
<1> QED
  BY <1>12, <1>13, <1>14, <1>15, <1>16

\* The timer of slotClientClosed fires.
LEMMA ReEmbedGoesOn ==
    ASSUME UiInv, GoesOnInv, NEW tab \in Containers, ReEmbed(tab)
    PROVE  GoesOnInv'
<1>1. UiTypeOK /\ EmptyTabsAreQuiet /\ tabs \subseteq Containers
  BY DEF UiInv, UiTypeOK
<1>2. /\ tab \in tabs /\ timers[tab] > 0 /\ timers' = [timers EXCEPT ![tab] = @ - 1]
      /\ UNCHANGED <<tabs, tabClient, embedding, shown, superseded>>
  BY DEF ReEmbed
<1>3. tabClient[tab] \in Apps
  BY <1>1, <1>2 DEF EmptyTabsAreQuiet, UiTypeOK
<1>4. PICK k \in {0, 1} : k = 0
  OBVIOUS
<1>5. UnreadIs(xEvents, k)
  BY <1>1, <1>4, WhatIsUnread
<1>6. SUFFICES ASSUME NEW t \in tabs PROVE GoesOnAt(t)'
  BY <1>2, GoesOnIsPerTabNext
<1>7. t \in Containers /\ GoesOnAt(t) /\ FollowedAt(t)
  BY <1>1, GoesOnIsPerTab DEF GoesOnAt
<1>8. t # tab => timers'[t] = timers[t]
  BY <1>1, <1>2, <1>7 DEF UiTypeOK
<1>9. ASSUME MovedOn(t, k), t # tab \/ embedding[t] PROVE GoesOnAt(t)'
  <2>1. /\ shown'[t] = shown[t] /\ embedding'[t] = embedding[t] /\ tabClient'[t] = tabClient[t]
        /\ superseded \subseteq superseded' /\ ~(k = 1)
        /\ embedding[t] \/ timers'[t] = timers[t]
    BY <1>2, <1>4, <1>8, <1>9
  <2> QED
    BY <1>1, <1>7, <1>9, <2>1, TabGoesOn
<1>10. CASE embedding[tab]
  <2>1. NoMove(xEvents)
    BY <1>10 DEF ReEmbed
  <2>2. MovedOn(t, k)
    BY <1>1, <1>5, <2>1, NoMoveIsTold
  <2> QED
    BY <1>9, <1>10, <2>2
<1>11. CASE ~embedding[tab]
  <2>1. PICK app \in Apps : app = tabClient[tab]
    BY <1>3
  <2>2. Reparent(app, tab, xEvents)
    BY <1>11, <2>1 DEF ReEmbed
  <2>3. MovedOn(t, k) /\ (Coming(tab)' # {} \/ WindowLost(tab)')
    <3>1. MovedOn(t, k) /\ (Coming(tab)' # {} \/ parent'[app] = Gone)
      BY <1>1, <1>5, <2>2, UiValues, MoveIsTold
    <3>2. tabClient'[tab] = app /\ app # NoClient
      BY <1>2, <2>1, UiValues
    <3> QED
      BY <3>1, <3>2 DEF WindowLost
  <2>4. CASE t = tab
    <3>1. shown'[t] = shown[t] /\ (shown[t] \in Apps \/ shown'[t] = NoClient) /\ ~(k = 1)
      BY <1>1, <1>2, <1>4, <1>7 DEF UiTypeOK
    <3>2. FollowedAt(t)'
      BY <1>1, <1>7, <2>3, <3>1, FollowedStill
    <3> QED
      BY <1>2, <1>11, <2>3, <2>4, <3>2 DEF GoesOnAt, EmbedsOn, AwaitsSomething
  <2> QED
    BY <1>9, <2>3, <2>4
<1> QED
  BY <1>10, <1>11

\* The user opens a tab, selects one, closes one or loads a page.
LEMMA UserGoesOn ==
    ASSUME UiInv, GoesOnInv, UserStep
    PROVE  GoesOnInv'
<1>1. UiTypeOK /\ EmptyTabsAreQuiet /\ tabs \subseteq Containers
  BY DEF UiInv, UiTypeOK
<1>2. \A t \in tabs : GoesOnAt(t)
  BY GoesOnIsPerTab
<1>3. superseded' = superseded
  BY DEF UserStep, NewTab, SelectTab, CloseTab, LoadUrl
<1>8. PICK k \in {0, 1} : k = 0
  OBVIOUS
<1>9. UnreadIs(xEvents, k)
  BY <1>1, <1>8, WhatIsUnread
<1>4. ASSUME NEW t \in Containers, GoesOnAt(t), shown'[t] = shown[t], timers'[t] = timers[t],
             embedding'[t] = embedding[t], tabClient'[t] = tabClient[t], MovedOn(t, k)
      PROVE  GoesOnAt(t)'
  <2>1. ~(k = 1) /\ superseded \subseteq superseded'
    BY <1>3, <1>8
  <2> QED
    BY <1>1, <1>4, <2>1, TabGoesOn
<1>5. CASE NewTab
  <2>1. PICK c \in NextTab : tabs' = tabs \cup {c}
    BY <1>5 DEF NewTab
  <2>2. UNCHANGED <<tabClient, embedding, timers, shown>> /\ NoMove(xEvents)
    BY <1>5 DEF NewTab, NoMove
  <2>3. c \in Containers /\ c \notin closed /\ c \notin tabs
    BY DEF NextTab
  <2>4. tabClient[c] = NoClient
    BY <1>1, <2>3 DEF EmptyTabsAreQuiet
  <2>5. GoesOnAt(c)
    BY <1>1, <2>3, <2>4, EmptyTabGoesOn
  <2>7. \A t : MovedOn(t, k)
    BY <1>1, <1>9, <2>2, NoMoveIsTold
  <2>6. \A t \in tabs' : GoesOnAt(t)'
    BY <1>1, <1>2, <1>4, <2>1, <2>2, <2>3, <2>5, <2>7
  <2> QED
    BY <2>6, GoesOnIsPerTabNext
<1>6. ASSUME NEW c \in Containers, CloseTab(c) PROVE GoesOnInv'
  <2>1. /\ tabs' = tabs \ {c}
        /\ tabClient' = [tabClient EXCEPT ![c] = NoClient]
        /\ embedding' = [embedding EXCEPT ![c] = FALSE]
        /\ timers' = [timers EXCEPT ![c] = 0]
        /\ shown' = [shown EXCEPT ![c] = NoClient]
        /\ WindowsOfClosed(c)
    BY <1>6 DEF CloseTab
  <2>3. GoneStays /\ (ToldNobody(c) \/ \E app \in Apps : ToldOther(c, app))
    BY <1>1, <2>1, ClosedWindows
  <2>2. ASSUME NEW t \in tabs' PROVE GoesOnAt(t)'
    <3>1. t \in Containers /\ t # c /\ GoesOnAt(t)
      BY <1>1, <1>2, <2>1
    <3>2. /\ shown'[t] = shown[t] /\ timers'[t] = timers[t]
          /\ embedding'[t] = embedding[t] /\ tabClient'[t] = tabClient[t]
      BY <1>1, <2>1, <3>1 DEF UiTypeOK
    <3>3. CASE ToldNobody(c)
      <4>1. xEvents' = xEvents /\ \A a \in Apps : parent[a] = t => parent'[a] = t
        BY <2>1, <3>1, <3>3 DEF ToldNobody
      <4>2. MovedOn(t, k)
        BY <1>1, <1>9, <2>3, <4>1, NoMoveMovesOn
      <4> QED
        BY <1>4, <3>1, <3>2, <4>2
    <3>4. ASSUME NEW app \in Apps, ToldOther(c, app) PROVE GoesOnAt(t)'
      <4>1. /\ Queued(app, Root, xEvents) /\ parent'[app] = Root
            /\ OthersStay(t, app)
        BY <2>1, <3>1, <3>4 DEF ToldOther, OthersStay
      <4>2. Root \in Containers \cup {Root} /\ t \in tabs \cup {Root}
        BY <2>1
      <4>3. MovedOn(t, k)
        BY <1>1, <1>9, <2>3, <4>1, <4>2, MoveIsQueued
      <4> QED
        BY <1>4, <3>1, <3>2, <4>3
    <3> QED
      BY <2>3, <3>3, <3>4
  <2> QED
    BY <2>2, GoesOnIsPerTabNext
<1>7. CASE SelectTab \/ \E t \in Containers, o \in Origins : LoadUrl(t, o)
  <2>1. UNCHANGED <<tabs, tabClient, embedding, timers, shown, parent, xEvents, superseded>>
    BY <1>7 DEF SelectTab, LoadUrl
  <2> QED
    BY <2>1, NothingGoesOn
<1> QED
  BY <1>5, <1>6, <1>7 DEF UserStep

LEMMA GoesOnStep ==
    IInv /\ UiInv /\ WindowsInv /\ GoesOnInv /\ [EmbeddingNext]_allVars => GoesOnInv'
<1> SUFFICES ASSUME IInv, UiInv, WindowsInv, GoesOnInv, [EmbeddingNext]_allVars
             PROVE  GoesOnInv'
  OBVIOUS
<1>1. TypeOK
  BY DEF IInv
<1>2. CASE KernelReadsUi
  BY <1>2, NothingGoesOn DEF KernelReadsUi, Unread
<1>3. CASE \E a \in Apps, t \in OpenTypes, o \in Origins : WebAppNewUrl(a, t, o)
  BY <1>3, NothingGoesOn DEF WebAppNewUrl, Unread
<1>4. CASE UiStep
  BY <1>1, <1>4, UiDispatchGoesOn, XEventGoesOn, ReEmbedGoesOn DEF UiStep
<1>5. CASE UserStep
  BY <1>5, UserGoesOn
<1>6. CASE UNCHANGED allVars
  BY <1>6, NothingGoesOn DEF allVars, uiVars
<1> QED
  BY <1>2, <1>3, <1>4, <1>5, <1>6 DEF EmbeddingNext

\* When the UI has read its events and no timer runs, nothing is left that could
\* still happen, and every tab shows the web app it holds: WebView waits neither
\* for a window that nobody sends nor for a timer that nobody started.  Excepted
\* are the tabs whose web app's window was destroyed with a tab that was closed
\* before it had accepted it (webview.cpp:86), and those that were given a web app
\* in place of one whose window they neither showed nor awaited (webview.cpp:118).
THEOREM NoTabIsStuck == EmbeddingSpec => []NothingIsStuck
<1>1. EmbeddingInit => WindowsInv /\ GoesOnInv
  <2> SUFFICES ASSUME EmbeddingInit PROVE WindowsInv /\ GoesOnInv
    OBVIOUS
  <2>1. /\ xEvents = <<>> /\ tabs \subseteq Containers
        /\ \A c \in Containers : /\ shown[c] = NoClient /\ timers[c] = 0
                                 /\ tabClient[c] = NoClient /\ ~embedding[c]
    BY DEF EmbeddingInit, UiInit
  <2>2. WindowsInv
    BY <2>1 DEF WindowsInv, OneWindowComes, ShowsItsOwn, Coming
  <2>3. GoesOnInv
    BY <2>1 DEF GoesOnInv, WindowsAreFollowed, EmbeddingGoesOn, EmptyTabsAwaitSomething, Coming
  <2> QED
    BY <2>2, <2>3
<1>2. (IInv /\ UiInv) /\ (IInv /\ UiInv)' /\ WindowsInv /\ GoesOnInv /\ [EmbeddingNext]_allVars
      => (WindowsInv /\ GoesOnInv)'
  BY WindowsStep, GoesOnStep
<1>3. (IInv /\ UiInv) /\ WindowsInv /\ GoesOnInv => NothingIsStuck
  <2> SUFFICES ASSUME UiInv, WindowsInv, GoesOnInv, xEvents = <<>>,
                      \A t \in tabs : timers[t] = 0, NEW t \in tabs \ superseded,
                      ~WindowLost(t)
               PROVE  ~embedding[t] /\ shown[t] = tabClient[t]
    BY DEF NothingIsStuck
  <2>1. Coming(t) = {} /\ \A app : ~Leaving(t, app, 0)
    BY DEF Coming, Leaving
  <2>2. ~embedding[t]
    BY <2>1 DEF GoesOnInv, EmbeddingGoesOn
  <2>3. t \in Containers /\ timers[t] = 0
    BY DEF UiInv, UiTypeOK
  <2>4. CASE tabClient[t] = NoClient
    BY <2>3, <2>4 DEF UiInv, EmptyTabsAreQuiet
  <2>5. CASE tabClient[t] # NoClient
    BY <2>1, <2>2, <2>3, <2>5 DEF GoesOnInv, EmptyTabsAwaitSomething, WindowsInv, ShowsItsOwn
  <2> QED
    BY <2>2, <2>4, <2>5
<1> QED
  BY <1>1, <1>2, <1>3, EmbeddingInvariance, PTL DEF EmbeddingSpec
=============================================================================
