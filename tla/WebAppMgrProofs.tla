-------------------------- MODULE WebAppMgrProofs --------------------------
(***************************************************************************)
(* Proofs about WebAppMgr, for every number of web apps, every cache size  *)
(* and either value of IS_CRAWLER: the roles of processes, what the UI is  *)
(* told, and that whoever was told to quit is still there to be waited for.*)
(***************************************************************************)
EXTENDS WebAppMgr, FiniteSetTheorems, TLAPS

-----------------------------------------------------------------------------
\* Lemmas about the sequence that is the cache

\* Erasing an entry of a list gives a list that is one shorter.
LEMMA RemoveIndexIsSeq ==
    ASSUME NEW S, NEW s \in Seq(S), NEW i \in 1..Len(s)
    PROVE  /\ RemoveIndex(s, i) \in Seq(S)
           /\ Len(RemoveIndex(s, i)) = Len(s) - 1
           /\ DOMAIN RemoveIndex(s, i) = 1..(Len(s) - 1)
<1>1. Len(s) - 1 \in Nat
  OBVIOUS
<1>2. \A j \in 1..(Len(s) - 1) : (IF j < i THEN s[j] ELSE s[j + 1]) \in S
  OBVIOUS
<1>3. RemoveIndex(s, i) \in [1..(Len(s) - 1) -> S]
  BY <1>2 DEF RemoveIndex
<1> QED
  BY <1>1, <1>3

\* Erasing an entry of a list without duplicates removes that element only,
\* and leaves a list without duplicates.
LEMMA RemoveIndexElems ==
    ASSUME NEW S, NEW s \in Seq(S), NEW i \in 1..Len(s),
           \A j, k \in DOMAIN s : s[j] = s[k] => j = k
    PROVE  /\ Elems(RemoveIndex(s, i)) = Elems(s) \ {s[i]}
           /\ \A j, k \in DOMAIN RemoveIndex(s, i) :
                 RemoveIndex(s, i)[j] = RemoveIndex(s, i)[k] => j = k
<1> DEFINE r == RemoveIndex(s, i)
<1>1. DOMAIN r = 1..(Len(s) - 1) /\ DOMAIN s = 1..Len(s) /\ Len(s) \in Nat
  BY RemoveIndexIsSeq
<1>2. \A j \in DOMAIN r : r[j] = IF j < i THEN s[j] ELSE s[j + 1]
  BY <1>1 DEF RemoveIndex
<1>3. \A j \in DOMAIN r : r[j] \in Elems(s) \ {s[i]}
  BY <1>1, <1>2 DEF Elems
<1>4. ASSUME NEW x \in Elems(s) \ {s[i]}
      PROVE  x \in Elems(r)
  <2>1. PICK j \in DOMAIN s : x = s[j] /\ j # i
    BY DEF Elems
  <2>2. CASE j < i
    BY <1>1, <1>2, <2>1, <2>2 DEF Elems
  <2>3. CASE j > i
    <3>1. j - 1 \in DOMAIN r /\ r[j - 1] = s[j]
      BY <1>1, <1>2, <2>1, <2>3
    <3> QED
      BY <2>1, <3>1 DEF Elems
  <2> QED
    BY <1>1, <2>1, <2>2, <2>3
<1>5. ASSUME NEW j \in DOMAIN r, NEW k \in DOMAIN r, r[j] = r[k]
      PROVE  j = k
  BY <1>1, <1>2, <1>5
<1>6. Elems(r) = Elems(s) \ {s[i]}
  BY <1>3, <1>4 DEF Elems
<1> HIDE DEF r
<1>7. \A j, k \in DOMAIN r : r[j] = r[k] => j = k
  BY <1>5
<1> QED
  BY <1>6, <1>7 DEF r

\* What Append adds to a list.
LEMMA AppendElems ==
    ASSUME NEW S, NEW s \in Seq(S), NEW x \in S
    PROVE  /\ Append(s, x) \in Seq(S)
           /\ Elems(Append(s, x)) = Elems(s) \cup {x}
           /\ Len(Append(s, x)) = Len(s) + 1
           /\ (\A j, k \in DOMAIN s : s[j] = s[k] => j = k) /\ x \notin Elems(s)
                => \A j, k \in DOMAIN Append(s, x) :
                       Append(s, x)[j] = Append(s, x)[k] => j = k
<1> DEFINE t == Append(s, x)
<1>1. /\ t \in Seq(S)
      /\ Len(t) = Len(s) + 1
      /\ DOMAIN t = 1..(Len(s) + 1)
      /\ DOMAIN s = 1..Len(s)
      /\ Len(s) \in Nat
      /\ \A j \in 1..Len(s) : t[j] = s[j]
      /\ t[Len(s) + 1] = x
  OBVIOUS
<1> HIDE DEF t
<1>2. Elems(t) = Elems(s) \cup {x}
  <2>1. ASSUME NEW y \in Elems(t) PROVE y \in Elems(s) \cup {x}
    BY <1>1, <2>1 DEF Elems
  <2>2. ASSUME NEW y \in Elems(s) PROVE y \in Elems(t)
    BY <1>1, <2>2 DEF Elems
  <2>3. x \in Elems(t)
    BY <1>1 DEF Elems
  <2> QED
    BY <2>1, <2>2, <2>3
<1>3. ASSUME \A j, k \in DOMAIN s : s[j] = s[k] => j = k, x \notin Elems(s),
             NEW j \in DOMAIN t, NEW k \in DOMAIN t, t[j] = t[k]
      PROVE  j = k
  BY <1>1, <1>3 DEF Elems
<1> QED
  BY <1>1, <1>2, <1>3 DEF t

\* What Tail leaves of a list without duplicates.
LEMMA TailElems ==
    ASSUME NEW S, NEW s \in Seq(S), s # <<>>,
           \A j, k \in DOMAIN s : s[j] = s[k] => j = k
    PROVE  /\ Tail(s) \in Seq(S)
           /\ Head(s) \in S
           /\ Head(s) \in Elems(s)
           /\ Elems(Tail(s)) = Elems(s) \ {Head(s)}
           /\ Len(Tail(s)) = Len(s) - 1
           /\ \A j, k \in DOMAIN Tail(s) : Tail(s)[j] = Tail(s)[k] => j = k
<1> DEFINE t == Tail(s)
<1>1. /\ t \in Seq(S)
      /\ Len(t) = Len(s) - 1
      /\ DOMAIN t = 1..(Len(s) - 1)
      /\ DOMAIN s = 1..Len(s)
      /\ Len(s) \in Nat \ {0}
      /\ \A j \in 1..(Len(s) - 1) : t[j] = s[j + 1]
      /\ Head(s) = s[1]
      /\ Head(s) \in S
  OBVIOUS
<1> HIDE DEF t
<1>2. Head(s) \in Elems(s)
  BY <1>1 DEF Elems
<1>3. Elems(t) = Elems(s) \ {Head(s)}
  <2>1. ASSUME NEW y \in Elems(t) PROVE y \in Elems(s) \ {Head(s)}
    <3>1. PICK j \in DOMAIN t : y = t[j]
      BY DEF Elems
    <3>2. j + 1 \in DOMAIN s /\ y = s[j + 1] /\ 1 \in DOMAIN s /\ j + 1 # 1
      BY <1>1, <3>1
    <3> QED
      BY <1>1, <3>2 DEF Elems
  <2>2. ASSUME NEW y \in Elems(s) \ {Head(s)} PROVE y \in Elems(t)
    <3>1. PICK j \in DOMAIN s : y = s[j] /\ j # 1
      BY <1>1 DEF Elems
    <3>2. j - 1 \in DOMAIN t /\ t[j - 1] = y
      BY <1>1, <3>1
    <3> QED
      BY <3>2 DEF Elems
  <2> QED
    BY <2>1, <2>2
<1>4. \A j, k \in DOMAIN t : t[j] = t[k] => j = k
  <2> SUFFICES ASSUME NEW j \in DOMAIN t, NEW k \in DOMAIN t, t[j] = t[k]
               PROVE  j = k
    OBVIOUS
  <2>1. /\ j \in Nat /\ j + 1 \in DOMAIN s /\ t[j] = s[j + 1]
        /\ k \in Nat /\ k + 1 \in DOMAIN s /\ t[k] = s[k + 1]
    BY <1>1
  <2>2. j + 1 = k + 1
    BY <2>1
  <2> QED
    BY <2>1, <2>2
<1> QED
  BY <1>1, <1>2, <1>3, <1>4 DEF t

-----------------------------------------------------------------------------
\* The initial state

\* What the constants' assumption says of the sets of values.
LEMMA Domains ==
    /\ WEBAPP_FIRST_ID \in Apps
    /\ Apps \subseteq Nat
    /\ NoApp \notin Apps
    /\ UI_ID \notin Apps
    /\ Containers \subseteq Nat
    /\ UIBoxes \cup OpenTypes \subseteq Boxes
    /\ 0 \in Boxes
BY ConstantsAssumption
   DEF WEBAPP_FIRST_ID, Apps, NoApp, UI_ID, Boxes, UIBoxes

\* The cache is a list of web apps.
LEMMA CacheElems ==
    ASSUME TypeOK
    PROVE  /\ Elems(cache) \subseteq Apps
           /\ DOMAIN cache = 1..Len(cache)
           /\ Len(cache) \in Nat
BY DEF TypeOK, Elems

\* The state the constructor of WebAppMgr leaves satisfies the invariant.
LEMMA InitIInv == Init => IInv
<1> SUFFICES ASSUME Init PROVE IInv
  OBVIOUS
<1> USE Domains DEF Init
<1>1. TypeOK
  <2>1. nextApp \in WEBAPP_FIRST_ID..(WEBAPP_FIRST_ID + MaxApps)
    BY ConstantsAssumption DEF WEBAPP_FIRST_ID
  <2>2. /\ container \in [Apps -> Boxes]
        /\ client \in [Apps -> {"zero", "junk", "wid"}]
        /\ label \in [Apps -> Origins \cup {NoOrigin}]
        /\ clientId \in [Apps -> {"junk", "wid"}]
        /\ proc \in [Apps -> ProcStates]
        /\ initMsg \in [Apps -> InitMsgStates]
    BY DEF ProcStates, InitMsgStates
  <2>3. killAge \in [Apps -> 0..Linger]
    BY ConstantsAssumption
  <2>4. cache \in Seq(Apps) /\ uiPipe \in Seq(UiMsgs)
    OBVIOUS
  <2> QED
    BY <2>1, <2>2, <2>3, <2>4 DEF TypeOK, KernelStates
<1>2. ProcsHaveOneRole
  BY DEF ProcsHaveOneRole, PreCreated, Elems, WEBAPP_FIRST_ID, NoApp
<1>3. CacheBounded
  BY ConstantsAssumption DEF CacheBounded
<1>4. GenuineWindowIds
  BY DEF GenuineWindowIds
<1>5. NoOrphanProcess
  BY DEF NoOrphanProcess
<1>6. UnbornApps
  BY DEF UnbornApps, WEBAPP_FIRST_ID
<1>7. KnownClients /\ PreCreatedReady
  BY DEF KnownClients, PreCreatedReady, Elems, WEBAPP_FIRST_ID, NoApp
<1> QED
  BY <1>1, <1>2, <1>3, <1>4, <1>5, <1>6, <1>7 DEF IInv

-----------------------------------------------------------------------------
\* MSG_NEW_URL

\* What the end of handleNewUrl does to the five variables it writes.
LEMMA HandOK ==
    ASSUME TypeOK, GenuineWindowIds,
           NEW app \in Apps, NEW c \in Boxes, NEW r, NEW o \in Origins,
           Hand(app, c, r, o, "wid")
    PROVE  /\ webAppList' = webAppList \cup {app}
           /\ webAppList' \in SUBSET Apps
           /\ container' \in [Apps -> Boxes]
           /\ label' \in [Apps -> Origins \cup {NoOrigin}]
           /\ label' = [label EXCEPT ![app] = o]
           /\ client' \in [Apps -> {"zero", "junk", "wid"}]
           /\ client' = [client EXCEPT ![app] = "wid"]
           /\ uiPipe' \in Seq(UiMsgs)
           /\ GenuineWindowIds'
<1>1. ContainerFor(app, c, r) \in Boxes
  BY DEF ContainerFor, TypeOK
<1> DEFINE m == [type |-> "NEW_WEBAPP", app |-> app,
                 container |-> ContainerFor(app, c, r), wid |-> "wid"]
<1>2. m \in UiMsgs
  BY <1>1 DEF UiMsgs
<1>3. uiPipe' = Append(uiPipe, m)
  BY DEF Hand
<1>4. /\ uiPipe' \in Seq(UiMsgs)
      /\ DOMAIN uiPipe' = 1..(Len(uiPipe) + 1)
      /\ \A i \in 1..Len(uiPipe) : uiPipe'[i] = uiPipe[i]
      /\ uiPipe'[Len(uiPipe) + 1] = m
      /\ DOMAIN uiPipe = 1..Len(uiPipe)
      /\ Len(uiPipe) \in Nat
  <2> HIDE DEF m
  <2> QED BY <1>2, <1>3 DEF TypeOK
<1>5. ASSUME NEW i \in DOMAIN uiPipe', uiPipe'[i].type = "NEW_WEBAPP"
      PROVE  uiPipe'[i].wid = "wid"
  <2>1. CASE i = Len(uiPipe) + 1
    BY <1>4, <2>1
  <2>2. CASE i # Len(uiPipe) + 1
    <3>1. i \in DOMAIN uiPipe /\ uiPipe'[i] = uiPipe[i]
      BY <1>4, <2>2
    <3> QED
      BY <1>5, <3>1 DEF GenuineWindowIds
  <2> QED
    BY <2>1, <2>2
<1>6. /\ webAppList' = webAppList \cup {app}
      /\ client' = [client EXCEPT ![app] = "wid"]
      /\ label' = [label EXCEPT ![app] = o]
      /\ container' = [container EXCEPT ![app] = ContainerFor(app, c, r)]
  BY DEF Hand
<1>7. GenuineWindowIds'
  BY <1>5, <1>6 DEF GenuineWindowIds, TypeOK
<1> QED
  BY <1>1, <1>4, <1>6, <1>7 DEF TypeOK

\* Reuse of a cached process.
LEMMA NewUrlFromCacheStep ==
    ASSUME IInv, NEW c \in UIBoxes \cup OpenTypes, NEW r, NEW o \in Origins,
           kernel = "up", NewUrlFromCache(c, r, o)
    PROVE  IInv'
<1> USE Domains DEF IInv
<1>1. PICK i \in DOMAIN cache :
          /\ FirstHit(i, o)
          /\ Hand(cache[i], c, r, o, clientId[cache[i]])
          /\ cache' = RemoveIndex(cache, i)
  BY DEF NewUrlFromCache
<1> DEFINE app == cache[i]
<1>2. /\ cache \in Seq(Apps)
      /\ DOMAIN cache = 1..Len(cache)
      /\ app \in Apps
      /\ app \in Elems(cache)
      /\ i \in 1..Len(cache)
      /\ Len(cache) \in Nat
  BY DEF TypeOK, Elems
<1>3. clientId[app] = "wid"
  BY <1>2 DEF KnownClients
<1>4. c \in Boxes
  OBVIOUS
<1> HIDE DEF app
<1>5. Hand(app, c, r, o, "wid")
  BY <1>1, <1>3 DEF app
<1>6. /\ webAppList' = webAppList \cup {app}
      /\ webAppList' \in SUBSET Apps
      /\ container' \in [Apps -> Boxes]
      /\ label' \in [Apps -> Origins \cup {NoOrigin}]
      /\ label' = [label EXCEPT ![app] = o]
      /\ client' \in [Apps -> {"zero", "junk", "wid"}]
      /\ client' = [client EXCEPT ![app] = "wid"]
      /\ uiPipe' \in Seq(UiMsgs)
      /\ GenuineWindowIds'
  BY <1>2, <1>4, <1>5, HandOK
<1>7. /\ cache' \in Seq(Apps)
      /\ Len(cache') = Len(cache) - 1
      /\ Elems(cache') = Elems(cache) \ {app}
      /\ \A j, k \in DOMAIN cache' : cache'[j] = cache'[k] => j = k
  <2>1. \A j, k \in DOMAIN cache : cache[j] = cache[k] => j = k
    BY DEF ProcsHaveOneRole
  <2>2. cache' = RemoveIndex(cache, i) /\ app = cache[i]
    BY <1>1 DEF app
  <2>3. /\ RemoveIndex(cache, i) \in Seq(Apps)
        /\ Len(RemoveIndex(cache, i)) = Len(cache) - 1
    BY ONLY <1>2, RemoveIndexIsSeq
  <2>4. /\ Elems(RemoveIndex(cache, i)) = Elems(cache) \ {cache[i]}
        /\ \A j, k \in DOMAIN RemoveIndex(cache, i) :
               RemoveIndex(cache, i)[j] = RemoveIndex(cache, i)[k] => j = k
    BY ONLY <1>2, <2>1, RemoveIndexElems
  <2> QED
    BY ONLY <2>2, <2>3, <2>4
<1>8. UNCHANGED <<kernel, nextApp, procMap, cachedWebApp, clientId, killList,
                  killAge, proc, initMsg>>
  BY DEF NewUrlFromCache
<1>9. TypeOK'
  BY <1>6, <1>7, <1>8 DEF TypeOK
<1>10. app \in procMap /\ app # cachedWebApp /\ app < nextApp
  BY <1>2 DEF ProcsHaveOneRole
<1>11. ProcsHaveOneRole'
  BY <1>2, <1>6, <1>7, <1>8, <1>10 DEF ProcsHaveOneRole, PreCreated
<1>12. CacheBounded'
  BY <1>2, <1>7, ConstantsAssumption DEF CacheBounded
<1>13. NoOrphanProcess'
  BY <1>8 DEF NoOrphanProcess
<1>14. UnbornApps'
  BY <1>2, <1>6, <1>8, <1>10 DEF UnbornApps, TypeOK
<1>15. KnownClients'
  BY <1>2, <1>3, <1>6, <1>7, <1>8, <1>10 DEF KnownClients, TypeOK
<1>16. PreCreatedReady'
  BY <1>8 DEF PreCreatedReady
<1> QED
  BY <1>6, <1>9, <1>11, <1>12, <1>13, <1>14, <1>15, <1>16

\* The pre-created process is handed out, and outside crawler mode replaced.
LEMMA NewUrlFromPreCreatedStep ==
    ASSUME IInv, NEW c \in UIBoxes \cup OpenTypes, NEW r, NEW o \in Origins,
           kernel = "up", NewUrlFromPreCreated(c, r, o)
    PROVE  IInv'
<1> USE Domains DEF IInv
<1> DEFINE app == cachedWebApp
<1>1. app \in Apps /\ app # NoApp
  BY DEF NewUrlFromPreCreated, TypeOK
<1>2. /\ client[app] \in {"zero", "wid"}
      /\ client[app] = "wid" => clientId[app] = "wid"
  BY <1>1 DEF KnownClients, TypeOK
<1>3. /\ clientId' \in [Apps -> {"junk", "wid"}]
      /\ clientId' = [clientId EXCEPT ![app] = "wid"]
      /\ initMsg' \in [Apps -> InitMsgStates]
  BY <1>1, <1>2 DEF NewUrlFromPreCreated, FirstMessageRead, TypeOK, InitMsgStates
<1>4. WindowId(app) = "wid"
  BY <1>2 DEF WindowId
<1>5. Hand(app, c, r, o, "wid") /\ c \in Boxes
  BY <1>4 DEF NewUrlFromPreCreated
<1>6. /\ webAppList' = webAppList \cup {app}
      /\ webAppList' \in SUBSET Apps
      /\ container' \in [Apps -> Boxes]
      /\ label' \in [Apps -> Origins \cup {NoOrigin}]
      /\ label' = [label EXCEPT ![app] = o]
      /\ client' \in [Apps -> {"zero", "junk", "wid"}]
      /\ client' = [client EXCEPT ![app] = "wid"]
      /\ uiPipe' \in Seq(UiMsgs)
      /\ GenuineWindowIds'
  BY <1>1, <1>5, HandOK
<1>7. UNCHANGED <<kernel, cache, killList, killAge>>
  BY DEF NewUrlFromPreCreated
<1>8. /\ app \in procMap /\ app < nextApp
      /\ app \notin webAppList \cup Elems(cache)
      /\ nextApp \notin procMap \cup killList
      /\ nextApp \in Nat
  BY <1>1 DEF ProcsHaveOneRole, PreCreated, TypeOK, WEBAPP_FIRST_ID
<1>9. CASE Crawler
  <2>1. cachedWebApp' = NoApp /\ UNCHANGED <<nextApp, procMap, proc>>
    BY <1>9 DEF NewUrlFromPreCreated
  <2>2. TypeOK'
    BY <1>3, <1>6, <1>7, <2>1 DEF TypeOK
  <2>3. ProcsHaveOneRole'
    <3>1. NoApp \notin webAppList' \cup Elems(cache')
      BY <1>6, <1>7, CacheElems DEF Elems
    <3> QED
      BY <1>1, <1>6, <1>7, <1>8, <2>1, <3>1 DEF ProcsHaveOneRole, PreCreated, Elems
  <2>4. NoOrphanProcess' /\ CacheBounded'
    BY <1>7, <2>1 DEF NoOrphanProcess, CacheBounded
  <2>5. UnbornApps'
    BY <1>1, <1>6, <1>8, <2>1 DEF UnbornApps, TypeOK
  <2>6. KnownClients' /\ PreCreatedReady'
    BY <1>1, <1>3, <1>6, <1>7, <1>9, <2>1 DEF KnownClients, PreCreatedReady, TypeOK, Elems
  <2> QED
    BY <1>6, <2>2, <2>3, <2>4, <2>5, <2>6
<1>10. CASE ~Crawler
  <2> DEFINE n == nextApp
  <2>1. /\ n \in Apps
        /\ nextApp' = n + 1
        /\ cachedWebApp' = n
        /\ procMap' = procMap \cup {n}
        /\ proc' = [proc EXCEPT ![n] = "running"]
    BY <1>10 DEF NewUrlFromPreCreated, PreCreate
  <2>2. TypeOK'
    <3>1. nextApp' \in WEBAPP_FIRST_ID..(WEBAPP_FIRST_ID + MaxApps)
      BY <2>1, ConstantsAssumption DEF Apps, WEBAPP_FIRST_ID
    <3>2. proc' \in [Apps -> ProcStates]
      BY <2>1 DEF TypeOK, ProcStates
    <3> QED
      BY <1>3, <1>6, <1>7, <2>1, <3>1, <3>2 DEF TypeOK
  <2>3. n # app /\ n \notin webAppList \cup Elems(cache) /\ n \notin killList
    BY <1>8, <2>1 DEF ProcsHaveOneRole
  <2>4. ProcsHaveOneRole'
    <3>1. Elems(cache') = Elems(cache)
      BY <1>7 DEF Elems
    <3>2. PreCreated' = {n} /\ PreCreated = {app}
      BY <1>1, <2>1 DEF PreCreated
    <3>3. procMap' = webAppList' \cup PreCreated' \cup Elems(cache')
      BY <1>6, <2>1, <3>1, <3>2 DEF ProcsHaveOneRole
    <3>4. webAppList' \cap Elems(cache') = {} /\ cachedWebApp' \notin webAppList' \cup Elems(cache')
      BY <1>6, <1>8, <2>1, <2>3, <3>1 DEF ProcsHaveOneRole
    <3>5. killList' \cap procMap' = {}
      BY <1>7, <2>1, <2>3 DEF ProcsHaveOneRole
    <3>6. \A a \in procMap' \cup killList' : a < nextApp'
      BY <1>7, <1>8, <2>1 DEF ProcsHaveOneRole, TypeOK
    <3>7. \A i, j \in DOMAIN cache' : cache'[i] = cache'[j] => i = j
      BY <1>7 DEF ProcsHaveOneRole
    <3> QED
      BY <3>3, <3>4, <3>5, <3>6, <3>7 DEF ProcsHaveOneRole
  <2>5. NoOrphanProcess' /\ CacheBounded'
    BY <1>7, <2>1 DEF NoOrphanProcess, CacheBounded, TypeOK
  <2>6. UnbornApps'
    <3>1. ASSUME NEW a \in Apps, a >= nextApp'
          PROVE  proc'[a] = "unborn" /\ label'[a] = NoOrigin /\ client'[a] = "zero"
      <4>1. a >= nextApp /\ a # n /\ a # app
        BY <1>8, <2>1, <3>1
      <4> QED
        BY <1>6, <2>1, <4>1 DEF UnbornApps, TypeOK
    <3> QED
      BY <3>1 DEF UnbornApps
  <2>7. KnownClients'
    <3>1. /\ client[n] = "zero"
          /\ label[n] = NoOrigin
      BY <2>1, <1>8 DEF UnbornApps
    <3> QED
      BY <1>1, <1>3, <1>6, <1>7, <2>1, <2>3, <3>1 DEF KnownClients, TypeOK, Elems
  <2>8. PreCreatedReady'
    BY <2>1 DEF PreCreatedReady
  <2> QED
    BY <1>6, <2>2, <2>4, <2>5, <2>6, <2>7, <2>8
<1> QED
  BY <1>9, <1>10

\* A process created on the spot.
LEMMA NewUrlFreshStep ==
    ASSUME IInv, NEW c \in UIBoxes \cup OpenTypes, NEW r, NEW o \in Origins,
           kernel = "up", NewUrlFresh(c, r, o)
    PROVE  IInv'
<1> USE Domains DEF IInv
<1> DEFINE n == nextApp
<1>1. /\ n \in Apps
      /\ nextApp' = n + 1
      /\ procMap' = procMap \cup {n}
      /\ proc' = [proc EXCEPT ![n] = "running"]
      /\ initMsg' = [initMsg EXCEPT ![n] = "read"]
      /\ clientId' = [clientId EXCEPT ![n] = "wid"]
      /\ Hand(n, c, r, o, "wid")
      /\ UNCHANGED <<kernel, cachedWebApp, cache, killList, killAge>>
      /\ cachedWebApp = NoApp
      /\ c \in Boxes
  BY DEF NewUrlFresh
<1>2. /\ webAppList' = webAppList \cup {n}
      /\ webAppList' \in SUBSET Apps
      /\ container' \in [Apps -> Boxes]
      /\ label' \in [Apps -> Origins \cup {NoOrigin}]
      /\ label' = [label EXCEPT ![n] = o]
      /\ client' \in [Apps -> {"zero", "junk", "wid"}]
      /\ client' = [client EXCEPT ![n] = "wid"]
      /\ uiPipe' \in Seq(UiMsgs)
      /\ GenuineWindowIds'
  BY <1>1, HandOK
<1>3. /\ n \notin procMap \cup killList
      /\ n \notin webAppList \cup Elems(cache)
      /\ n \in Nat
  BY <1>1 DEF ProcsHaveOneRole
<1>4. TypeOK'
  <2>1. nextApp' \in WEBAPP_FIRST_ID..(WEBAPP_FIRST_ID + MaxApps)
    BY <1>1, ConstantsAssumption DEF Apps, WEBAPP_FIRST_ID
  <2>2. /\ proc' \in [Apps -> ProcStates]
        /\ initMsg' \in [Apps -> InitMsgStates]
        /\ clientId' \in [Apps -> {"junk", "wid"}]
    BY <1>1 DEF TypeOK, ProcStates, InitMsgStates
  <2> QED
    BY <1>1, <1>2, <2>1, <2>2 DEF TypeOK
<1>5. ProcsHaveOneRole'
  <2>1. Elems(cache') = Elems(cache) /\ Elems(cache) \subseteq Apps
    BY <1>1, CacheElems DEF Elems
  <2>2. /\ procMap' = webAppList' \cup PreCreated' \cup Elems(cache')
        /\ webAppList' \cap Elems(cache') = {}
        /\ cachedWebApp' \notin webAppList' \cup Elems(cache')
    BY <1>1, <1>2, <1>3, <2>1 DEF ProcsHaveOneRole, PreCreated
  <2>3. killList' \cap procMap' = {}
    BY <1>1, <1>3 DEF ProcsHaveOneRole
  <2>4. \A a \in procMap' \cup killList' : a < nextApp'
    BY <1>1, <1>3 DEF ProcsHaveOneRole, TypeOK
  <2>5. \A i, j \in DOMAIN cache' : cache'[i] = cache'[j] => i = j
    BY <1>1 DEF ProcsHaveOneRole
  <2> QED
    BY <2>2, <2>3, <2>4, <2>5 DEF ProcsHaveOneRole
<1>6. NoOrphanProcess' /\ CacheBounded' /\ PreCreatedReady'
  BY <1>1 DEF NoOrphanProcess, CacheBounded, PreCreatedReady, TypeOK
<1>7. UnbornApps'
  BY <1>1, <1>2, <1>3 DEF UnbornApps, TypeOK
<1>8. KnownClients'
  BY <1>1, <1>2, <1>3 DEF KnownClients, TypeOK, Elems
<1> QED
  BY <1>2, <1>4, <1>5, <1>6, <1>7, <1>8

\* The kernel going down keeps the invariant: nothing else changes.
LEMMA DownStep ==
    ASSUME IInv, NEW how \in {"eof", "null_app", "freed_proc"},
           kernel = "up", Down(how), UNCHANGED proc
    PROVE  IInv'
<1> USE DEF IInv, Down
<1>1. TypeOK'
  BY DEF TypeOK, KernelStates
<1>2. ProcsHaveOneRole' /\ CacheBounded' /\ GenuineWindowIds'
  BY DEF ProcsHaveOneRole, CacheBounded, GenuineWindowIds, PreCreated, Elems
<1>3. NoOrphanProcess'
  BY DEF NoOrphanProcess
<1>4. UnbornApps' /\ KnownClients' /\ PreCreatedReady'
  BY DEF UnbornApps, KnownClients, PreCreatedReady, Elems
<1> QED
  BY <1>1, <1>2, <1>3, <1>4

\* Every outcome of MSG_NEW_URL.
LEMMA HandleNewUrlStep ==
    ASSUME IInv, NEW c \in UIBoxes \cup OpenTypes, NEW r, NEW o \in Origins,
           HandleNewUrl(c, r, o)
    PROVE  IInv'
<1>1. kernel = "up"
  BY DEF HandleNewUrl
<1>2. CASE NewUrlFromCache(c, r, o)
  BY <1>1, <1>2, NewUrlFromCacheStep
<1>3. CASE NewUrlFromPreCreated(c, r, o)
  BY <1>1, <1>3, NewUrlFromPreCreatedStep
<1>4. CASE NewUrlFresh(c, r, o)
  BY <1>1, <1>4, NewUrlFreshStep
<1>5. CASE NewUrlNoFirstMessage(o)
  BY <1>1, <1>5, DownStep DEF NewUrlNoFirstMessage
<1> QED
  BY <1>2, <1>3, <1>4, <1>5 DEF HandleNewUrl

-----------------------------------------------------------------------------
\* The other messages

\* The first message of a process touches its window id only.
LEMMA HandleNewWebAppStep ==
    ASSUME IInv, NEW app \in Apps, HandleNewWebApp(app)
    PROVE  IInv'
<1> USE DEF IInv, HandleNewWebApp
<1>1. TypeOK'
  BY DEF TypeOK, InitMsgStates
<1>2. ProcsHaveOneRole' /\ CacheBounded'
  BY DEF ProcsHaveOneRole, CacheBounded, PreCreated, Elems
<1>3. GenuineWindowIds'
  BY DEF GenuineWindowIds, TypeOK
<1>4. NoOrphanProcess' /\ PreCreatedReady'
  BY DEF NoOrphanProcess, PreCreatedReady
<1>5. UnbornApps'
  <2>1. app < nextApp
    BY DEF ProcsHaveOneRole
  <2>2. app \in Nat /\ nextApp \in Nat
    BY Domains DEF TypeOK, WEBAPP_FIRST_ID
  <2> QED
    BY <2>1, <2>2 DEF UnbornApps, TypeOK
<1>6. KnownClients'
  BY DEF KnownClients, TypeOK, Elems
<1> QED
  BY <1>1, <1>2, <1>3, <1>4, <1>5, <1>6

\* A frame message adds to the pipe to the UI a message that hands out nothing.
LEMMA HandleEmbedFrameStep ==
    ASSUME IInv, NEW app \in Apps, NEW v \in {0, 1}, HandleEmbedFrame(app, v)
    PROVE  IInv'
<1> USE DEF IInv, HandleEmbedFrame, kernelVars
<1> DEFINE m == [type |-> "EMBED_FRAME", app |-> app, value |-> v]
<1>1. m \in UiMsgs /\ m.type # "NEW_WEBAPP"
  BY DEF UiMsgs
<1>2. uiPipe' = Append(uiPipe, m) /\ uiPipe \in Seq(UiMsgs)
  BY DEF TypeOK
<1> HIDE DEF m
<1>3. /\ uiPipe' \in Seq(UiMsgs)
      /\ \A i \in DOMAIN uiPipe' : \/ i \in DOMAIN uiPipe /\ uiPipe'[i] = uiPipe[i]
                                   \/ uiPipe'[i] = m
  BY <1>1, <1>2
<1>4. TypeOK' /\ UnbornApps'
  BY <1>3 DEF TypeOK, UnbornApps
<1>5. GenuineWindowIds'
  BY <1>1, <1>3 DEF GenuineWindowIds
<1>6. ProcsHaveOneRole' /\ CacheBounded' /\ NoOrphanProcess'
  BY DEF ProcsHaveOneRole, CacheBounded, NoOrphanProcess, PreCreated, Elems
<1>7. KnownClients' /\ PreCreatedReady'
  BY DEF KnownClients, PreCreatedReady, Elems
<1> QED
  BY <1>4, <1>5, <1>6, <1>7

\* A change of container touches no role.
LEMMA HandleUpdateContainerStep ==
    ASSUME IInv, NEW c \in UIBoxes, NEW app \in Apps, HandleUpdateContainer(c, app)
    PROVE  IInv'
<1> USE DEF IInv, HandleUpdateContainer
<1>1. TypeOK' /\ UnbornApps'
  BY Domains DEF TypeOK, UnbornApps
<1>2. ProcsHaveOneRole' /\ CacheBounded' /\ GenuineWindowIds' /\ NoOrphanProcess'
  BY DEF ProcsHaveOneRole, CacheBounded, GenuineWindowIds, NoOrphanProcess, PreCreated, Elems
<1>3. KnownClients' /\ PreCreatedReady'
  BY DEF KnownClients, PreCreatedReady, Elems
<1> QED
  BY <1>1, <1>2, <1>3


\* A closed web app moves from m_webAppList to the cache; when the cache is
\* full its oldest entry moves to the kill list.
LEMMA HandleCloseWebAppStep ==
    ASSUME IInv, NEW c \in UIBoxes, NEW app \in Apps, HandleCloseWebApp(c, app)
    PROVE  IInv'
<1> USE Domains DEF IInv
<1> DEFINE longer == Append(cache, app)
           old == Head(longer)
<1>1. /\ app \in webAppList /\ app \in procMap
      /\ app \notin Elems(cache) /\ app # cachedWebApp
      /\ app < nextApp
  BY DEF HandleCloseWebApp, CheckWebAppMsg, ProcsHaveOneRole
<1>2. /\ cache \in Seq(Apps)
      /\ \A i, j \in DOMAIN cache : cache[i] = cache[j] => i = j
      /\ Elems(cache) \subseteq Apps
      /\ Len(cache) \in Nat
  BY CacheElems DEF TypeOK, ProcsHaveOneRole
<1>3. /\ longer \in Seq(Apps)
      /\ Elems(longer) = Elems(cache) \cup {app}
      /\ Len(longer) = Len(cache) + 1
      /\ \A i, j \in DOMAIN longer : longer[i] = longer[j] => i = j
  BY ONLY <1>1, <1>2, AppendElems
<1>4. longer # <<>>
  BY <1>2, <1>3
<1> HIDE DEF longer
<1>5. /\ Tail(longer) \in Seq(Apps)
      /\ old \in Elems(longer)
      /\ old \in Apps
      /\ Elems(Tail(longer)) = Elems(longer) \ {old}
      /\ Len(Tail(longer)) = Len(cache)
      /\ \A i, j \in DOMAIN Tail(longer) : Tail(longer)[i] = Tail(longer)[j] => i = j
  <2>1. Len(longer) - 1 = Len(cache)
    BY <1>2, <1>3
  <2> QED
    BY ONLY <1>3, <1>4, <2>1, TailElems
<1> HIDE DEF old
<1>6. /\ webAppList' = webAppList \ {app}
      /\ container' = [container EXCEPT ![app] = 0]
      /\ client' = [client EXCEPT ![app] = "zero"]
      /\ UNCHANGED <<kernel, nextApp, cachedWebApp, label, clientId, proc, initMsg, uiPipe>>
  BY DEF HandleCloseWebApp
\* What either outcome of store() does to the cache and the kill list.
<1> DEFINE gone == (webAppList \cup Elems(cache)) \ (webAppList' \cup Elems(cache'))
<1>7. /\ cache' \in Seq(Apps)
      /\ Len(cache') <= CacheSize
      /\ \A i, j \in DOMAIN cache' : cache'[i] = cache'[j] => i = j
      /\ Elems(cache') \subseteq Elems(cache) \cup {app}
      /\ procMap' = procMap \ gone
      /\ killList' = killList \cup gone
      /\ killAge' \in [Apps -> 0..Linger]
  <2>1. CASE Len(cache) + 1 <= CacheSize
    <3>1. cache' = longer /\ UNCHANGED <<procMap, killList, killAge>>
      BY <2>1 DEF HandleCloseWebApp, Store, StoreOnly, longer
    <3>2. gone = {}
      BY <1>3, <1>6, <3>1
    <3> HIDE DEF gone
    <3> QED
      BY <1>3, <2>1, <3>1, <3>2 DEF TypeOK
  <2>2. CASE ~(Len(cache) + 1 <= CacheSize)
    <3>1. cache' = Tail(longer) /\ Evict(old)
      BY <2>2 DEF HandleCloseWebApp, Store, longer, old
    <3>2. /\ killList' = killList \cup {old}
          /\ killAge' = [killAge EXCEPT ![old] = 0]
          /\ procMap' = procMap \ {old}
      BY <3>1 DEF Evict
    <3>3. gone = {old}
      BY <1>1, <1>3, <1>5, <1>6, <3>1 DEF ProcsHaveOneRole
    <3>4. Len(cache') <= CacheSize
      BY <1>5, <3>1 DEF CacheBounded
    <3>5. killAge' \in [Apps -> 0..Linger]
      BY <1>5, <3>2, ConstantsAssumption DEF TypeOK
    <3> HIDE DEF gone
    <3> QED
      BY <1>3, <1>5, <3>1, <3>2, <3>3, <3>4, <3>5
  <2> QED
    BY <2>1, <2>2
<1>8. gone \subseteq procMap /\ gone \subseteq Apps /\ cachedWebApp \notin gone
  BY <1>2 DEF ProcsHaveOneRole, TypeOK
<1>9. TypeOK'
  BY <1>6, <1>7, <1>8 DEF TypeOK
<1>10. ProcsHaveOneRole'
  <2>1. procMap' = webAppList' \cup PreCreated' \cup Elems(cache')
    BY <1>1, <1>6, <1>7 DEF ProcsHaveOneRole, PreCreated
  <2>2. /\ webAppList' \cap Elems(cache') = {}
        /\ cachedWebApp' \notin webAppList' \cup Elems(cache')
    BY <1>1, <1>6, <1>7 DEF ProcsHaveOneRole
  <2>3. /\ killList' \cap procMap' = {}
        /\ \A a \in procMap' \cup killList' : a < nextApp'
    BY <1>6, <1>7, <1>8 DEF ProcsHaveOneRole
  <2> QED
    BY <1>7, <2>1, <2>2, <2>3 DEF ProcsHaveOneRole
<1>11. NoOrphanProcess'
  BY <1>6, <1>7 DEF NoOrphanProcess, HandleCloseWebApp
<1>12. GenuineWindowIds'
  BY <1>6 DEF GenuineWindowIds, TypeOK
<1>13. UnbornApps' /\ PreCreatedReady' /\ CacheBounded'
  BY <1>6, <1>7 DEF UnbornApps, PreCreatedReady, CacheBounded, TypeOK
<1>14. KnownClients'
  BY <1>1, <1>6, <1>7 DEF KnownClients, TypeOK
<1> QED
  BY <1>9, <1>10, <1>11, <1>12, <1>13, <1>14

\* What the SIGCHLD handler appends to the pipe are exit notes only.
LEMMA ExitedOK ==
    ASSUME NEW K \in SUBSET Apps, NEW f \in Orders(K)
    PROVE  /\ Exited(f) \in Seq(UiMsgs)
           /\ \A i \in DOMAIN Exited(f) : Exited(f)[i].type = "webAppExited"
<1>1. IsFiniteSet(Apps)
  <2>1. MaxApps \in Nat /\ WEBAPP_FIRST_ID \in Int
    BY ConstantsAssumption DEF WEBAPP_FIRST_ID
  <2> QED
    BY <2>1, FS_Interval DEF Apps
<1>2. Cardinality(K) \in Nat
  BY <1>1, FS_Subset, FS_CardinalityType
<1>3. /\ f \in [1..Cardinality(K) -> K]
      /\ DOMAIN Exited(f) = 1..Cardinality(K)
      /\ \A i \in 1..Cardinality(K) :
             Exited(f)[i] = [type |-> "webAppExited", app |-> f[i]]
  BY DEF Orders, Exited
<1>4. \A i \in 1..Cardinality(K) : Exited(f)[i] \in UiMsgs
  BY <1>3 DEF UiMsgs
<1>5. Exited(f) \in [1..Cardinality(K) -> UiMsgs]
  BY <1>3, <1>4 DEF Exited
<1> QED
  BY <1>2, <1>3, <1>5

\* Reaping removes the dead from every list, and is possible only when none
\* of them is pre-created or in the cache.
LEMMA SigchldReapsStep ==
    ASSUME IInv, kernel = "up", SigchldReaps
    PROVE  IInv'
<1> USE DEF IInv
<1>1. /\ Zombies \subseteq Apps
      /\ Zombies \cap procMap \subseteq webAppList
      /\ killList' = killList \ Zombies
      /\ procMap' = procMap \ Zombies
      /\ webAppList' = webAppList \ Zombies
      /\ UNCHANGED <<kernel, nextApp, cachedWebApp, cache, label, clientId, killAge,
                     initMsg>>
  BY DEF SigchldReaps, Zombies
<1>2. /\ container' \in [Apps -> Boxes]
      /\ client' \in [Apps -> {"zero", "junk", "wid"}]
      /\ \A a \in Apps : client'[a] = IF a \in Zombies THEN "zero" ELSE client[a]
      /\ proc' \in [Apps -> ProcStates]
      /\ \A a \in Apps : proc'[a] = "running" => proc[a] = "running" /\ a \notin Zombies
  BY Domains DEF SigchldReaps, TypeOK, ProcStates, Zombies
<1>3. PICK f \in Orders(Zombies \cap killList) : uiPipe' = uiPipe \o Exited(f)
  BY DEF SigchldReaps
<1>4. /\ Exited(f) \in Seq(UiMsgs)
      /\ \A i \in DOMAIN Exited(f) : Exited(f)[i].type = "webAppExited"
  BY <1>1, <1>3, ExitedOK
<1>5. /\ uiPipe' \in Seq(UiMsgs)
      /\ \A i \in DOMAIN uiPipe' :
             \/ i \in DOMAIN uiPipe /\ uiPipe'[i] = uiPipe[i]
             \/ uiPipe'[i].type = "webAppExited"
  <2> DEFINE e == Exited(f)
  <2> HIDE DEF e
  <2>1. /\ uiPipe \in Seq(UiMsgs) /\ e \in Seq(UiMsgs)
        /\ uiPipe' = uiPipe \o e
        /\ \A i \in DOMAIN e : e[i].type = "webAppExited"
    BY <1>3, <1>4 DEF TypeOK, e
  <2>2. /\ uiPipe' \in Seq(UiMsgs)
        /\ DOMAIN uiPipe' = 1..(Len(uiPipe) + Len(e))
        /\ \A i \in 1..Len(uiPipe) : uiPipe'[i] = uiPipe[i]
        /\ \A i \in (Len(uiPipe) + 1)..(Len(uiPipe) + Len(e)) :
               uiPipe'[i] = e[i - Len(uiPipe)]
        /\ Len(uiPipe) \in Nat /\ Len(e) \in Nat
        /\ DOMAIN uiPipe = 1..Len(uiPipe) /\ DOMAIN e = 1..Len(e)
    BY ONLY <2>1
  <2>3. ASSUME NEW i \in DOMAIN uiPipe', i \notin DOMAIN uiPipe
        PROVE  uiPipe'[i].type = "webAppExited"
    <3>1. /\ i \in (Len(uiPipe) + 1)..(Len(uiPipe) + Len(e))
          /\ i - Len(uiPipe) \in DOMAIN e
      BY ONLY <2>2, <2>3
    <3> QED
      BY ONLY <2>1, <2>2, <3>1
  <2> QED
    BY ONLY <2>2, <2>3
<1>6. TypeOK'
  BY <1>1, <1>2, <1>5 DEF TypeOK
<1>7. ProcsHaveOneRole'
  BY <1>1 DEF ProcsHaveOneRole, PreCreated, Elems
<1>8. CacheBounded' /\ PreCreatedReady'
  BY <1>1 DEF CacheBounded, PreCreatedReady
<1>9. GenuineWindowIds'
  BY <1>1, <1>2, <1>5 DEF GenuineWindowIds, TypeOK
<1>10. NoOrphanProcess'
  BY <1>1, <1>2 DEF NoOrphanProcess
<1>11. UnbornApps'
  <2>1. ASSUME NEW a \in Apps, a >= nextApp
        PROVE  proc'[a] = "unborn" /\ client'[a] = "zero"
    <3>1. proc[a] = "unborn" /\ client[a] = "zero"
      BY <2>1 DEF UnbornApps
    <3>2. a \notin Zombies /\ ~Forced(a)
      BY <3>1 DEF Zombies, Forced
    <3> QED
      BY <2>1, <3>1, <3>2 DEF SigchldReaps
  <2> QED
    BY <1>1, <2>1 DEF UnbornApps
<1>12. KnownClients'
  <2>1. cachedWebApp # NoApp => cachedWebApp \in Apps \ Zombies
    BY <1>1 DEF ProcsHaveOneRole, PreCreated, TypeOK
  <2> QED
    BY <1>1, <1>2, <2>1 DEF KnownClients, Elems
<1> QED
  BY <1>6, <1>7, <1>8, <1>9, <1>10, <1>11, <1>12

\* Every outcome of the SIGCHLD handler.
LEMMA SigchldStep ==
    ASSUME IInv, Sigchld
    PROVE  IInv'
<1>1. kernel = "up"
  BY DEF Sigchld
<1>2. CASE SigchldReaps
  BY <1>1, <1>2, SigchldReapsStep
<1>3. CASE SigchldNullApp
  BY <1>1, <1>3, DownStep DEF SigchldNullApp
<1>4. CASE SigchldFreed
  BY <1>1, <1>4, DownStep DEF SigchldFreed
<1> QED
  BY <1>2, <1>3, <1>4 DEF Sigchld


\* killProcs signals every routed process, so only those on the kill list are
\* left running when the kernel has gone.
LEMMA KillProcsStep ==
    ASSUME IInv, KillProcs
    PROVE  IInv'
<1> USE DEF IInv, KillProcs, Down
<1>1. TypeOK'
  BY DEF TypeOK, KernelStates, ProcStates
<1>2. ProcsHaveOneRole' /\ CacheBounded' /\ GenuineWindowIds'
  BY DEF ProcsHaveOneRole, CacheBounded, GenuineWindowIds, PreCreated, Elems
<1>3. NoOrphanProcess'
  BY DEF NoOrphanProcess, TypeOK
<1>4. UnbornApps' /\ KnownClients' /\ PreCreatedReady'
  BY DEF UnbornApps, KnownClients, PreCreatedReady, Elems, TypeOK
<1> QED
  BY <1>1, <1>2, <1>3, <1>4

-----------------------------------------------------------------------------
\* The environment

\* A step that leaves the kernel's variables and the pipe to the UI alone and
\* starts no process keeps the invariant.
LEMMA OnlyProcsStep ==
    ASSUME IInv, UNCHANGED <<kernelVars, uiPipe>>,
           proc' \in [Apps -> ProcStates], initMsg' \in [Apps -> InitMsgStates],
           \A a \in Apps : /\ proc'[a] = "running" => proc[a] = "running"
                           /\ proc[a] = "unborn" => proc'[a] = "unborn"
    PROVE  IInv'
<1> USE DEF IInv, kernelVars
<1>1. TypeOK'
  BY DEF TypeOK
<1>2. ProcsHaveOneRole' /\ CacheBounded' /\ GenuineWindowIds'
  BY DEF ProcsHaveOneRole, CacheBounded, GenuineWindowIds, PreCreated, Elems
<1>3. NoOrphanProcess' /\ UnbornApps'
  BY DEF NoOrphanProcess, UnbornApps
<1>4. KnownClients' /\ PreCreatedReady'
  BY DEF KnownClients, PreCreatedReady, Elems
<1> QED
  BY <1>1, <1>2, <1>3, <1>4

\* The UI reading its pipe leaves messages that were in it already.
LEMMA UIReadStep ==
    ASSUME IInv, UIRead
    PROVE  IInv'
<1> USE DEF IInv, UIRead, kernelVars
<1>1. /\ uiPipe' \in Seq(UiMsgs)
      /\ \A i \in DOMAIN uiPipe' : i + 1 \in DOMAIN uiPipe /\ uiPipe'[i] = uiPipe[i + 1]
  BY DEF TypeOK
<1>2. TypeOK' /\ GenuineWindowIds'
  BY <1>1 DEF TypeOK, GenuineWindowIds
<1>3. ProcsHaveOneRole' /\ CacheBounded' /\ NoOrphanProcess' /\ UnbornApps'
  BY DEF ProcsHaveOneRole, CacheBounded, NoOrphanProcess, UnbornApps, PreCreated, Elems
<1>4. KnownClients' /\ PreCreatedReady'
  BY DEF KnownClients, PreCreatedReady, Elems
<1> QED
  BY <1>2, <1>3, <1>4

\* Time changes ages only.
LEMMA TickStep ==
    ASSUME IInv, Tick
    PROVE  IInv'
<1> USE DEF IInv, Tick
<1>1. killAge' \in [Apps -> 0..Linger]
  BY ConstantsAssumption DEF TypeOK
<1>2. TypeOK'
  BY <1>1 DEF TypeOK
<1>3. ProcsHaveOneRole' /\ CacheBounded' /\ GenuineWindowIds'
  BY DEF ProcsHaveOneRole, CacheBounded, GenuineWindowIds, PreCreated, Elems
<1>4. NoOrphanProcess' /\ UnbornApps'
  BY DEF NoOrphanProcess, UnbornApps
<1>5. KnownClients' /\ PreCreatedReady'
  BY DEF KnownClients, PreCreatedReady, Elems
<1> QED
  BY <1>2, <1>3, <1>4, <1>5

\* Stuttering.
LEMMA StutterStep ==
    ASSUME IInv, UNCHANGED vars
    PROVE  IInv'
<1> USE DEF IInv, vars, kernelVars
<1>1. TypeOK' /\ ProcsHaveOneRole' /\ CacheBounded' /\ GenuineWindowIds'
  BY DEF TypeOK, ProcsHaveOneRole, CacheBounded, GenuineWindowIds, PreCreated, Elems
<1>2. NoOrphanProcess' /\ UnbornApps' /\ KnownClients' /\ PreCreatedReady'
  BY DEF NoOrphanProcess, UnbornApps, KnownClients, PreCreatedReady, Elems
<1> QED
  BY <1>1, <1>2

-----------------------------------------------------------------------------
\* The theorems

\* Every step keeps the inductive invariant.
LEMMA NextStep == IInv /\ [Next]_vars => IInv'
<1> SUFFICES ASSUME IInv, [Next]_vars PROVE IInv'
  OBVIOUS
<1>1. CASE UNCHANGED vars
  BY <1>1, StutterStep
<1>2. ASSUME NEW c \in UIBoxes \cup OpenTypes, NEW r \in Apps \cup {UI_ID},
             NEW o \in Origins, HandleNewUrl(c, r, o)
      PROVE  IInv'
  BY <1>2, HandleNewUrlStep
<1>3. ASSUME NEW a \in Apps, HandleNewWebApp(a) PROVE IInv'
  BY <1>3, HandleNewWebAppStep
<1>4. ASSUME NEW a \in Apps, NEW v \in {0, 1}, HandleEmbedFrame(a, v) PROVE IInv'
  BY <1>4, HandleEmbedFrameStep
<1>5. ASSUME NEW c \in UIBoxes, NEW a \in Apps, HandleUpdateContainer(c, a) PROVE IInv'
  BY <1>5, HandleUpdateContainerStep
<1>6. ASSUME NEW c \in UIBoxes, NEW a \in Apps, HandleCloseWebApp(c, a) PROVE IInv'
  BY <1>6, HandleCloseWebAppStep
<1>7. ASSUME NEW c \in UIBoxes, NEW a \in Apps, HandleCloseFreed(c, a) PROVE IInv'
  BY <1>7, DownStep DEF HandleCloseFreed
<1>8. CASE Sigchld
  BY <1>8, SigchldStep
<1>9. CASE KillProcs
  BY <1>9, KillProcsStep
<1>10. ASSUME NEW a \in Apps, Announce(a) \/ Die(a) \/ QuitOnClose(a) PROVE IInv'
  <2>1. /\ proc' \in [Apps -> ProcStates]
        /\ initMsg' \in [Apps -> InitMsgStates]
        /\ \A b \in Apps : /\ proc'[b] = "running" => proc[b] = "running"
                           /\ proc[b] = "unborn" => proc'[b] = "unborn"
    BY <1>10 DEF IInv, TypeOK, Announce, Die, QuitOnClose, ProcStates, InitMsgStates
  <2>2. UNCHANGED <<kernelVars, uiPipe>>
    BY <1>10 DEF Announce, Die, QuitOnClose
  <2> QED
    BY <2>1, <2>2, OnlyProcsStep
<1>11. CASE UIRead
  BY <1>11, UIReadStep
<1>12. CASE Tick
  BY <1>12, TickStep
<1> QED
  BY <1>1, <1>2, <1>3, <1>4, <1>5, <1>6, <1>7, <1>8, <1>9, <1>10, <1>11, <1>12
     DEF Next, KernelStep, EnvironmentStep

\* The inductive invariant holds in every reachable state, whatever the number
\* of web apps and containers, the size of the cache, and in both modes.
THEOREM Invariance == Spec => []IInv
BY InitIInv, NextStep, PTL DEF Spec

\* Every variable of the kernel keeps its type: in particular no action stores
\* a container that is neither a window id nor a load type.
THEOREM TypeCorrectness == Spec => []TypeOK
<1>1. IInv => TypeOK
  BY DEF IInv
<1> QED
  BY <1>1, Invariance, PTL

\* A process is shown, pre-created, cached or told to quit, and only one of
\* these: what the assertions on procMap, m_webAppList and killList rely on.
THEOREM RolesAreDisjoint == Spec => []ProcsHaveOneRole
<1>1. IInv => ProcsHaveOneRole
  BY DEF IInv
<1> QED
  BY <1>1, Invariance, PTL

\* WebAppCache::store never leaves more than m_size entries.
THEOREM CacheStaysBounded == Spec => []CacheBounded
<1>1. IInv => CacheBounded
  BY DEF IInv
<1> QED
  BY <1>1, Invariance, PTL

\* The UI is only ever told to embed a window id the process has sent: neither
\* the 0 of a fresh WebAppProcess nor the uninitialised clientId gets out.
THEOREM WindowIdsAreGenuine == Spec => []GenuineWindowIds
<1>1. IInv => GenuineWindowIds
  BY DEF IInv
<1> QED
  BY <1>1, Invariance, PTL

\* No web app runs on without being routed to or told to quit, also after the
\* kernel has crashed or left.
THEOREM NoProcessIsLost == Spec => []NoOrphanProcess
<1>1. IInv => NoOrphanProcess
  BY DEF IInv
<1> QED
  BY <1>1, Invariance, PTL

\* A process that was given a URL serves that origin for the rest of its life,
\* through any number of visits to the cache.
THEOREM OneOriginForLife == Spec => OneOriginPerProcess
<1> DEFINE Keeps == \A a \in Apps : label[a] # NoOrigin => label'[a] = label[a]
<1>1. IInv /\ [Next]_vars => [Keeps]_vars
  <2> SUFFICES ASSUME IInv, Next PROVE Keeps
    BY DEF vars
  <2> USE Domains DEF IInv
  <2>1. ASSUME NEW app \in Apps, NEW c, NEW r, NEW o \in Origins, NEW w,
               Hand(app, c, r, o, w), label[app] \in {NoOrigin, o}
        PROVE  Keeps
    BY <2>1 DEF Hand, TypeOK
  <2>2. ASSUME NEW c \in UIBoxes \cup OpenTypes, NEW r, NEW o \in Origins,
               HandleNewUrl(c, r, o)
        PROVE  Keeps
    <3>1. CASE NewUrlFromCache(c, r, o)
      <4>1. PICK i \in DOMAIN cache :
                FirstHit(i, o) /\ Hand(cache[i], c, r, o, clientId[cache[i]])
        BY <3>1 DEF NewUrlFromCache
      <4>2. cache[i] \in Apps /\ label[cache[i]] = o
        BY <4>1 DEF FirstHit, HitAt, TypeOK
      <4> QED
        BY <4>1, <4>2, <2>1
    <3>2. CASE NewUrlFromPreCreated(c, r, o)
      <4>1. cachedWebApp \in Apps /\ label[cachedWebApp] = NoOrigin
        BY <3>2 DEF NewUrlFromPreCreated, KnownClients, TypeOK
      <4>2. Hand(cachedWebApp, c, r, o, WindowId(cachedWebApp))
        BY <3>2 DEF NewUrlFromPreCreated
      <4> QED
        BY <4>1, <4>2, <2>1
    <3>3. CASE NewUrlFresh(c, r, o)
      <4>1. nextApp \in Apps /\ label[nextApp] = NoOrigin
        BY <3>3 DEF NewUrlFresh, UnbornApps
      <4>2. Hand(nextApp, c, r, o, "wid")
        BY <3>3 DEF NewUrlFresh
      <4> QED
        BY <4>1, <4>2, <2>1
    <3>4. CASE NewUrlNoFirstMessage(o)
      BY <3>4 DEF NewUrlNoFirstMessage, Down
    <3> QED
      BY <2>2, <3>1, <3>2, <3>3, <3>4 DEF HandleNewUrl
  <2>3. ASSUME UNCHANGED label PROVE Keeps
    BY <2>3
  <2>4. CASE KernelStep
    <3>1. (\E c \in UIBoxes \cup OpenTypes, r \in Apps \cup {UI_ID}, o \in Origins :
              HandleNewUrl(c, r, o)) \/ UNCHANGED label
      BY <2>4 DEF KernelStep, HandleNewWebApp, HandleEmbedFrame, HandleUpdateContainer,
                  HandleCloseWebApp, HandleCloseFreed, Sigchld, SigchldReaps,
                  SigchldNullApp, SigchldFreed, KillProcs, Down, kernelVars
    <3> QED
      BY <2>2, <2>3, <3>1
  <2>5. CASE EnvironmentStep
    BY <2>3, <2>5 DEF EnvironmentStep, Announce, Die, QuitOnClose, UIRead, Tick, kernelVars
  <2> QED
    BY <2>4, <2>5 DEF Next
<1> QED
  BY <1>1, Invariance, PTL DEF Spec, OneOriginPerProcess

-----------------------------------------------------------------------------
\* The kill list

\* A process that leaves the cache was routed to.
LEMMA OldestIsRouted ==
    ASSUME IInv, NEW app \in webAppList
    PROVE  Head(Append(cache, app)) \in procMap
<1> DEFINE longer == Append(cache, app)
<1>1. cache \in Seq(Apps) /\ app \in Apps /\ app \in procMap /\ Elems(cache) \subseteq procMap
  BY DEF IInv, TypeOK, ProcsHaveOneRole
<1>2. longer \in Seq(Apps) /\ longer # <<>> /\ Elems(longer) = Elems(cache) \cup {app}
  <2>1. longer \in Seq(Apps) /\ Elems(longer) = Elems(cache) \cup {app}
    BY <1>1, AppendElems, CacheElems DEF IInv, TypeOK, ProcsHaveOneRole
  <2> QED
    BY <2>1 DEF Elems
<1> HIDE DEF longer
<1>3. Head(longer) \in Elems(longer)
  BY <1>2 DEF Elems
<1> QED
  BY <1>1, <1>2, <1>3 DEF longer

LEMMA NewUrlChildren ==
    ASSUME IInv, KnownAreChildren, kernel = "up", NEW c, NEW r, NEW o, HandleNewUrl(c, r, o)
    PROVE  KnownAreChildren'
<1>0. procMap \subseteq Apps /\ killList \subseteq Apps /\ DOMAIN proc = Apps
  BY DEF IInv, TypeOK
<1>1. ASSUME UNCHANGED <<kernel, procMap, killList, proc>> PROVE KnownAreChildren'
  BY <1>1 DEF KnownAreChildren
<1>2. ASSUME NEW n \in Apps, procMap' = procMap \cup {n}, killList' = killList,
             proc' = [proc EXCEPT ![n] = "running"]
      PROVE  KnownAreChildren'
  BY <1>0, <1>2 DEF KnownAreChildren
<1>3. CASE NewUrlFromCache(c, r, o)
  BY <1>1, <1>3 DEF NewUrlFromCache
<1>4. CASE NewUrlFromPreCreated(c, r, o)
  BY <1>1, <1>2, <1>4 DEF NewUrlFromPreCreated, PreCreate
<1>5. CASE NewUrlFresh(c, r, o)
  BY <1>2, <1>5 DEF NewUrlFresh
<1>6. CASE NewUrlNoFirstMessage(o)
  BY <1>6 DEF NewUrlNoFirstMessage, Down, KnownAreChildren
<1> QED
  BY <1>3, <1>4, <1>5, <1>6 DEF HandleNewUrl

LEMMA CloseChildren ==
    ASSUME IInv, KnownAreChildren, NEW c, NEW app, HandleCloseWebApp(c, app)
    PROVE  KnownAreChildren'
<1>1. app \in webAppList /\ kernel = "up" /\ kernel' = kernel /\ proc' = proc
  BY DEF HandleCloseWebApp, CheckWebAppMsg
<1>2. procMap' \cup killList' \subseteq procMap \cup killList
  <2>1. CASE Len(cache) + 1 <= CacheSize
    BY <2>1 DEF HandleCloseWebApp, Store, StoreOnly
  <2>2. CASE ~(Len(cache) + 1 <= CacheSize)
    <3>1. Evict(Head(Append(cache, app)))
      BY <2>2 DEF HandleCloseWebApp, Store
    <3> QED
      BY <1>1, <3>1, OldestIsRouted DEF Evict
  <2> QED
    BY <2>1, <2>2
<1> QED
  BY <1>1, <1>2 DEF KnownAreChildren

LEMMA ReapsChildren ==
    ASSUME IInv, KnownAreChildren, kernel = "up", SigchldReaps
    PROVE  KnownAreChildren'
<1>1. procMap \subseteq Apps /\ killList \subseteq Apps
  BY DEF IInv, TypeOK
<1>2. procMap' = procMap \ Zombies /\ killList' = killList \ Zombies
  BY DEF SigchldReaps
<1>3. \A a \in Apps : proc'[a] = IF a \in Zombies THEN "reaped"
                                 ELSE IF Forced(a) THEN "zombie" ELSE proc[a]
  BY DEF SigchldReaps
<1> QED
  BY <1>1, <1>2, <1>3 DEF KnownAreChildren

LEMMA ChildrenStep == IInv /\ KnownAreChildren /\ [Next]_vars => KnownAreChildren'
<1> SUFFICES ASSUME IInv, KnownAreChildren, [Next]_vars PROVE KnownAreChildren'
  OBVIOUS
<1>1. procMap \subseteq Apps /\ killList \subseteq Apps /\ DOMAIN proc = Apps
  BY DEF IInv, TypeOK
<1>2. ASSUME UNCHANGED <<kernel, procMap, killList, proc>> PROVE KnownAreChildren'
  BY <1>2 DEF KnownAreChildren
<1>3. ASSUME kernel' # "up" PROVE KnownAreChildren'
  BY <1>3 DEF KnownAreChildren
<1>4. CASE KernelStep
  <2>1. ASSUME NEW c \in UIBoxes \cup OpenTypes, NEW r \in Apps \cup {UI_ID},
               NEW o \in Origins, HandleNewUrl(c, r, o)
        PROVE  KnownAreChildren'
    BY <2>1, NewUrlChildren DEF HandleNewUrl
  <2>2. CASE \/ \E a \in Apps : HandleNewWebApp(a)
             \/ \E a \in Apps, v \in {0, 1} : HandleEmbedFrame(a, v)
             \/ \E c \in UIBoxes, a \in Apps : HandleUpdateContainer(c, a)
    BY <1>2, <2>2 DEF HandleNewWebApp, HandleEmbedFrame, HandleUpdateContainer, kernelVars
  <2>3. ASSUME NEW c \in UIBoxes, NEW a \in Apps, HandleCloseWebApp(c, a)
        PROVE  KnownAreChildren'
    BY <2>3, CloseChildren
  <2>4. CASE \E c \in UIBoxes, a \in Apps : HandleCloseFreed(c, a)
    BY <1>3, <2>4 DEF HandleCloseFreed, Down
  <2>5. CASE Sigchld
    <3>1. CASE SigchldReaps
      BY <2>5, <3>1, ReapsChildren DEF Sigchld
    <3>2. CASE SigchldNullApp \/ SigchldFreed
      BY <1>3, <3>2 DEF SigchldNullApp, SigchldFreed, Down
    <3> QED
      BY <2>5, <3>1, <3>2 DEF Sigchld
  <2>6. CASE KillProcs
    BY <1>3, <2>6 DEF KillProcs, Down
  <2> QED
    BY <1>4, <2>1, <2>2, <2>3, <2>4, <2>5, <2>6 DEF KernelStep
<1>5. CASE EnvironmentStep
  <2>1. CASE UIRead \/ Tick \/ \E a \in Apps : Announce(a)
    BY <1>2, <2>1 DEF UIRead, Tick, Announce, kernelVars
  <2>2. ASSUME NEW a \in Apps, Die(a) \/ QuitOnClose(a) PROVE KnownAreChildren'
    <3>1. /\ UNCHANGED <<kernel, procMap, killList>>
          /\ proc' = [proc EXCEPT ![a] = "zombie"]
      BY <2>2 DEF Die, QuitOnClose, kernelVars
    <3> QED
      BY <1>1, <3>1 DEF KnownAreChildren
  <2> QED
    BY <1>5, <2>1, <2>2 DEF EnvironmentStep
<1>6. CASE UNCHANGED vars
  BY <1>2, <1>6 DEF vars, kernelVars
<1> QED
  BY <1>4, <1>5, <1>6 DEF Next

\* As long as the kernel is up, whom it routes to or has told to quit is a child
\* it has not waited for, so the kill() calls of sigchldHandler and killProcs never
\* meet a process that is not a web app of this kernel.
THEOREM NoStrangerIsKilled == Spec => []KnownAreChildren
<1>1. Init => KnownAreChildren
  <2> SUFFICES ASSUME Init PROVE KnownAreChildren
    OBVIOUS
  <2>1. procMap = {WEBAPP_FIRST_ID} /\ killList = {} /\ WEBAPP_FIRST_ID \in Apps
    BY ConstantsAssumption DEF Init, Apps, WEBAPP_FIRST_ID
  <2>2. proc[WEBAPP_FIRST_ID] = "running"
    BY <2>1 DEF Init
  <2> QED
    BY <2>1, <2>2 DEF KnownAreChildren
<1> QED
  BY <1>1, ChildrenStep, Invariance, PTL DEF Spec

\* Whoever was told to quit either can, or is waited for by the next run of the
\* SIGCHLD handler: nobody stays on the kill list for good because his end was
\* missed.  This is the safety part of EvictedAppsAreReaped.
THEOREM KillListEmpties == Spec => []KillListIsServed
<1>1. IInv /\ KnownAreChildren => KillListIsServed
  <2> SUFFICES ASSUME IInv, KnownAreChildren, kernel = "up", ~CanReap, NEW a \in killList
               PROVE  FALSE
    BY DEF KillListIsServed
  <2>1. a \in Apps /\ proc[a] \in {"running", "zombie"}
    BY DEF IInv, TypeOK, KnownAreChildren
  <2> QED
    BY <2>1 DEF CanReap, Zombies
<1> QED
  BY <1>1, Invariance, NoStrangerIsKilled, PTL
=============================================================================
