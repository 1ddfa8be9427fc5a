# Verification of the OP2 browser

TLA+ models, TLC runs and TLAPS proofs for the OP2 browser: a browser whose
parts are processes that talk through pipes and a small kernel in the middle.
`PROJECT.json` names, for every definition, the source lines it stands for. The
program is C++ (and a crawler library in Java); the files `*.ts` under
`src/op-ui/locale` are Qt Linguist translations and hold no code.

## 1. The system

```
              +--------- kernel (id 0) ---------+
              |  router, access control,        |
              |  owner of the web-app processes |
              +--+-------+-------+-------+----+-+
        pipes    |       |       |       |    |
             op-ui(3) network(2) cookie(4) storage(6)  web apps (1024, 1025, ...)
```

| Component | State it keeps | Operations | Hard behaviour |
|---|---|---|---|
| Kernel, web apps (`kernel/main.cpp`, `WebAppMgr`, `WebAppCache`) | `procMap`, `killList`, `m_webAppList`, `m_cachedWebApp` (pre-created process), cache of closed web apps, ids | new URL, new web app, embed frame, update container, close web app; SIGCHLD, SIGINT | processes die at any time and in any role; the window id of a pre-created process comes asynchronously; eviction at the limit; SIGCHLD in the middle of a handler |
| Kernel, routing (`Message.cpp`, `AIOHelper.cpp`, `Access.cpp`) | pending asynchronous writes, whitelist | read a message, check it, write it to the target | header and payload written apart, lowest id served first, full pipes in both directions, crashes in the middle of a message |
| Network process (`network/`) | request queue, message queue, `m_waitForReply`, replies | fetch, abort, cookie answer; signals of replies | waiting for cookies in a nested event loop; aborts that overtake; every fetch must end |
| Cookie process (`cookie/`) | SQLite table | set and get, from the network process and from scripts | two different computations of the domains of a URL; expiry; text that is parsed again |
| Storage process (`storage/`) | open downloads, files | write file | queues that are never removed, numbering of jobs, names that servers suggest |
| Web app, pump (`webapp/op2/OpNetwork.cpp`) | message queue, cookie answers, `m_waitForReply` | read and dispatch messages, wait for cookies | nested waits: scripts, timers and handlers run inside the wait of another script |
| Web app, replies and downloads (`webapp/op2/`) | replies by URL id, read buffers, downloaders | fetch, feed data, abort, attach a downloader | data for replies that are gone; a downloader that comes before, between or after the data |
| UI, embedding (`op-ui/webview.cpp`, `browserapplication.cpp`, `tabwidget.cpp`) | client and container of every tab, `m_embedding`, timers | handle embed, client closed, client embedded, close, dispatch | three parties (UI, kernel, X server) with stale views of each other |
| UI, list of downloads (`op-ui/downloadmanager.cpp`) | jobs, progress | handle download info | first message and end are told apart by what is known already |
| UI, the rest (`op-ui/`) | history, bookmarks, settings | widgets | delayed saving |
| Crawler library (`shared_java/`) | blocking queue | add, get | monitors |

Interaction: the kernel reads one message per turn of its loop and writes it to
the target's pipe. A web app asks the kernel for new URLs and is shown in a
widget of the UI, which tells the kernel by `MSG_UPDATA_CONTAINER` and
`MSG_WEBAPP_CLOSE`. Web apps fetch through the network process, which answers
in a stream of messages; both ask the cookie process and wait for its answer. A
download goes from the network process through a reply and a downloader of the
web app to the storage process, which reports to the UI. `PROJECT.json` lists all
components, the ones that are not modelled with the reason, and under `hazards`
what is hard to test in this code.

What makes each component correct:

- Kernel: a web-app process has one role at a time; it is reachable or told to
  quit; it serves one origin; the UI is told genuine window ids; an evicted
  process is reaped; a web app that dies does not take the kernel along.
- Routing: messages are never torn or mixed, arrive in order and all arrive; no
  cycle of full pipes forms.
- Web-app pump: nothing is lost, doubled or handled under a running script;
  waits return; what was queued is handled.
- Network process: every fetch is answered by a well-formed stream that ends;
  only its owner cuts it short.
- Cookie process: cookies stay in their site and are found until they expire.
- Embedding: no two tabs hold one web app; kernel and UI agree on who shows what
  once their messages are read; a tab shows its own web app; embedding ends, and
  where it does not (findings 4 and 9) it is known why.
- Downloads: a file holds the answer, whole and once; no two downloads share a
  file; what the UI calls finished is stored; every download ends.

## 2. Modules

| Module | Models | Remarks |
|---|---|---|
| `WebAppMgr` | the kernel as owner of the web apps | one action per handler of `handleSyscall`, one for a run of `sigchldHandler`, one for `killProcs`, and steps of the children, the UI's reading and time |
| `KernelSignals` | SIGCHLD inside `handleCloseWebApp` | extends `WebAppMgr`, cuts the handler in three |
| `Embedding` | the UI's tabs and the X server | extends `WebAppMgr` and composes with it: the kernel's handlers are the same definitions, fed by what the tabs send |
| `Router` | the kernel as router | pipes of bounded size, one unit for a header and one for a payload |
| `OpNetwork` | the web app's message pump | the C++ call stack is a variable |
| `UrlStream` | what the network process promises a web app for a fetch | abstract |
| `Network` | the network process | implements `UrlStream` |
| `Download` | replies, downloaders, storage process, list of downloads | the reader of `UrlStream`: instantiates it in place of the network process |
| `CookieStore` | the cookie process | the loop over a list of cookies is taken step by step |
| `MC...` | | values for the constants of the module they are named after |
| `...Proofs` | | theorems about the module they are named after |

Two modules meet at `UrlStream`: `Network` is shown to implement it and
`Download` relies on nothing else of the network process. `Embedding` and
`WebAppMgr` meet the other way round: `WebAppMgr` lets the UI send anything and
`EmbeddingProofs` shows that the composition takes only steps that `WebAppMgr`
allows, so what is proved of the kernel with an arbitrary UI holds with this one.

Definitions marked FAULT are plausible slips. No specification uses them;
`PROJECT.json` names under `mutants` which definition each of them replaces to
show that a property can fail.

### WebAppMgr

Variables carry the names of the code (`procMap`, `webAppList`,
`cachedWebApp`, `cache`, `killList`). `client` and `clientId` take the values
`zero`, `junk` and `wid`: what matters is whether an id is the 0 of a fresh
`WebAppProcess`, the uninitialised field that `createProc` leaves, or one the
process has sent. Labels are equivalence classes of `DomainName::sameOrigin`.
A process is `unborn`, `running`, `zombie` or `reaped`. Undefined behaviour is a
choice of outcomes: where `removeFromWebAppList` reads a freed `Process_t`, the
kernel goes on or its assertion fails (`freed_proc`); the null entry that
`m_webAppList[id]` makes is always fatal (`null_app`). When the kernel is down
nothing but the children and the UI moves.

### Embedding

A tab is named by its window id, which is what the kernel calls a container.
`tabClient`, `embedding` and `timers` are `WebView::m_clientId`, `m_embedding` and
the pending single-shot timers of `slotClientClosed`; `shown` is what
`QX11EmbedContainer::clientWinId()` returns. `parent` and `xEvents` are the X
server: moving a window tells its old parent and its new one, and the UI hears of
it when its event loop reads the X connection, by which time the tab may be
closed or hold another web app. `HandleEmbed`, `ClientComes`, `ClientGoes` and
`ReEmbed` are `handleEmbed`, `slotClientIsEmbeded`, `slotClientClosed` and
`reEmbedClient`; `UiDispatch` is the search for a tab in
`BrowserApplication::dispatch`, current tab first. `KernelReadsUi` and
`WebAppNewUrl` run the handlers of `WebAppMgr`. Since the kernel serves the ready
process with the lowest id, a web app is heard only when the UI's pipe is empty.
`dropped` and `superseded` are history: the web apps whose `MSG_NEW_WEBAPP` no tab
took, and the tabs that were given a web app in place of one whose window they
neither showed nor awaited, in which the assumption of `webview.cpp:118` (the old
window will come and be discarded) failed.

`CloseTab` is `closeTab` with the destructors that its `deleteLater` runs when the
UI is back in its event loop, taken as one step.
`~WebView` closes the web app and does nothing about its window; that is left to
`~QX11EmbedContainer`, which gives back to the root the window it has accepted
(`shown`), wherever that is by then. A window that `embedClient` has moved into the
tab, but whose event was not read, is destroyed with the tab's own window: its
`parent` is `Gone` for good (`WindowsOfClosed`). The web app lives on without it and
the kernel caches it. When another tab is given it, `embedClient` fails: Qt emits
`error()`, which nothing is connected to, so `Reparent` moves nothing and no event
comes (finding 9).

### Router

A message is a header and, if it has data, one unit of payload. A child is
single-threaded: in a blocked write it does not read (`writing`, `reading`). The
kernel reads a header and then blocks for the payload (`kReading`), checks the
message, and hands its units to `aio_write` one by one (`kWriting`, `aio`), which
fills the child's pipe when there is room. `Whitelist` is the table that the
constructor of `AccessControl` builds. A crash empties what the child had still
to write, so a header may be left without its payload; the kernel's assertion on
the length read then ends the kernel (`short_read`). `AioRefuses` switches on the
synchronous `write` that `AIOHelper::write` falls back to.

### OpNetwork and Network

Both programs have the same `activated`: empty the queue unless somebody
waits, then read while data is available, queueing what has to wait. They
differ in who waits. A web app's script may ask for cookies inside the event
loop in which another script waits, hence the stack of frames. The network
process waits only while it creates a request, which only dispatching a
message does, so one outermost frame and one waiting fetch are enough; that
`m_waitForReply` is never found set is checked (`OneWaitAtATime`). In both,
`Read` inside a wait stands for `activated` called by the wait itself as well
as from its event loop.

### Download

A reply is its `m_state`, whether its metadata has come (`known`) and how many
chunks were fed into its buffer (`written`); a downloader is its `m_reqId`, how far
it has read, `m_sent` and `m_finished`. It is attached by the user to a fresh
request (`DownloadRequested`) or by WebKit, at once or some turns after the
metadata (`HandleUnsupportedContent`), by which time data or the end may be there.
`WriteFile` is `Storage::writeFile` with its queue for each pair of web app and
file id, and `HandleDownloadInfo` the UI's list. Storage and UI take the first
message about an id they do not know as the start, whatever it says; so does the
model. `ActualName` is the loop that appends `-1`, `-2`, ... until no such file
exists.

### CookieStore

Hosts are sequences of labels, so that `checkDomain` and `qualifiedDomains` can
be compared; paths are sequences of segments with a flag for the last slash,
since `/x` and `/x/` are different keys of the table but match the same URLs.
`by` is a history field: the host that has set a cookie. What Qt's cookie parser
does to a domain is the constant `DotAdded`, after the comment at
`CookieStore.cpp:321-325`.

## 3. Runs

| Run | Bounds | Shows |
|---|---|---|
| `kernel` | 2 origins, 1 container, 3 web apps, cache of 1, one unread message to the UI, load types 1 and 2 | the invariants of the kernel, and that evicted web apps leave the kill list |
| `kernel_crawler` | as above, cache of 0, no containers | a closed web app is evicted at once; processes are created on the spot |
| `kernel_null_app` | as `kernel` | the death of a pre-created or cached web app ends the kernel (finding) |
| `kernel_signals` | as `kernel` | a SIGCHLD inside `handleCloseWebApp` breaks an assertion (finding) |
| `embedding` | 2 tabs, 1 origin, load types 1 and 3, cache of 1, 4 web apps, one unread message in each direction when a user or page adds one | tabs, kernel and X server agree; embedding ends, unless the window was destroyed with a closed tab or the tab was superseded (findings 4 and 9) |
| `embedding_stuck` | the same | a tab is given a web app while it shows none and is not embedding (finding) |
| `router` | network process, UI and one mortal web app, pipes of one unit; 2, 1 and 1 messages of six kinds, one of them forbidden | messages stay whole, in order, and all arrive |
| `opnetwork` | 3 requests for cookies, 2 messages of the network process, 2 of the UI | safety and liveness of the pump |
| `network` | 2 web apps with the same URL id, one chunk of data | stream promise, single wait, every fetch ends |
| `network_abort` | the same | an abort overtakes its fetch (finding) |
| `download` | 2 web apps with one fetch each, job numbers adjacent, 2 chunks, 1 suggested name, one unread message to the UI | files hold the answers; downloads end |
| `cookies` | 3 sites, 5 URLs, 35 lists of cookies, 3 points in time, 3 rows | isolation, findability, exact removal of expired cookies |

Why the bounds are enough. Three web apps in the kernel are one that is shown,
one that is cached and one that is pre-created, with a cache of one entry that a
third close overflows; the properties relate at most two of them. Ids are handed
out once, so the bound on them also bounds the run. A handler starts only while
fewer than `PipeBound` messages to the UI are unread; this keeps the pipe short
and takes no behaviour away, as the kernel never reads what it wrote. `Linger`
is 1 second for 4: ages are only compared with it.

In `embedding` two tabs are enough for a web app to travel from one through the
cache to the other while its window is still on the way, and for a tab to close
under its web app: one that it shows is given back, one that is still coming is
destroyed, and the other tab may get either from the cache. The fourth web app lets
a tab be given a new one after that.
`UiBound` stops only the user: `handleEmbed` always sends its two messages.
Load type 1 navigates and load type 3 opens a tab, which is all `dispatch` tells
apart besides which tab becomes current (2 and 3 differ in that; `NewTab` and
`SelectTab` give the other case). In `router` a pipe of one unit is full at once,
so every write that can block does, with header and payload on both sides of it.

In the pump, three requests give waits nested three deep, or nested two deep with
a later one; two messages of a kind can be in the wrong order. In the network
process one fetch waits while the other one, or its abort, arrives. In `download`,
two chunks are one before and one after the downloader comes; a `JobBase` of 1
with neighbouring ids makes job numbers as close as 1024 does with 1024 files
each, and one name makes both downloads want the same file. A cookie request may
start while there are fewer than two rows and its list has up to two cookies,
which gives up to three rows: enough for two cookies that differ in one part of
the key.

Deadlock is not checked: every model stops when its bounds are used up and all
work is done, and the programs wait for messages then. The liveness properties
say what must not be left undone; a cycle of full pipes in `Router` would violate
`EverythingArrives`.

### Fairness

- Kernel: SIGCHLD is delivered and its handler runs (it is not masked), the UI
  reads its pipe, and a web app that was sent `MSG_WEBAPP_CLOSE` closes its view
  and quits (`webview.cpp:345-348`). No fairness for anything a user or a page
  does.
- Embedding: the kernel reads what the UI sends (the lowest id of those that
  write in this model), and the UI's event loop serves its socket, its X
  connection and the timers of each tab. Nothing is assumed of users and pages.
- Router: children write what they have begun and read when they are idle, the
  kernel's handler runs, asynchronous writes complete when there is room, SIGCHLD
  is delivered. `Serve` is weakly fair for each process, but enabled only for the
  lowest ready id; that nobody starves follows from the bound on messages, not
  from the fairness (the FIXME at `main.cpp:371` says that it may happen).
- Pump and network process: a handler that runs comes to its end (weak). A
  source of events that is ready again and again is served (strong), since one
  turn of Qt's event loop delivers posted calls and polls all notifiers, and
  `processEvents` returns to the test of the wait loop after a turn. The cookie
  process answers (weak): it serves a request to its end before the next.
- Network process, besides: a reply ends some day (strong). This is an
  assumption about the network; neither the code nor its Qt has a timeout.
- Download: the next message of an answer comes and is read (weak;
  `EveryFetchEnds` of `Network` is its justification), the UI reads (weak), and the
  storage process serves each web app that has written (strong: a full pipe to
  the UI disables it again and again).
- Cookies: the loop over a list goes on (weak).

## 4. Proofs

Everything below is proved for all values of the constants: any numbers of web apps,
tabs, fetches, messages, hosts and cookies, any size of pipes and cache. The
assumptions are those of the modules (`ConstantsAssumption` and its like, which TLC
evaluates in every run) and, where it is said, a condition on a constant in the
statement. The inductive invariants are stated at the end of the module they are
about and were checked with TLC before they were proved; one lemma per action shows
that the action keeps it, with a step for each conjunct that the action disturbs.

Every invariant and every action property of the runs that pass is a theorem, apart
from the liveness properties. Of each liveness property the safety part is proved:
`NothingIsStuck` (`KillListIsServed` in `WebAppMgr`) says that in a state in which
the program and those it waits for have nothing left to do, nothing is left undone.
That rules out every lost wake-up, forgotten queue, and cycle of processes that wait
for each other; what remains to TLC is that the program gets to such a state under
fairness. "Nothing left to do" is `~CanStep` (`~CanReap`), the guards of the actions
that fairness is about. That these are the right guards is checked, as `ENABLED`
cannot be used in a proof: `GuardsAreRight` (`CanStep` as an `ENABLED`) is an
invariant of the configurations `MCWebAppMgrStuck`, `MCRouterStuck`,
`OpNetworkStuck`, `MCNetworkStuck` and `MCDownloadStuck`, which also check the
property itself and its inductive invariant; `MCEmbeddingShown` does so for
`Embedding`, where the condition (no event unread, no timer pending) needs no such
check. These configurations are not runs of their own: each runs a model of section
3.

`WebAppMgrProofs`: `Invariance`, `TypeCorrectness`, `RolesAreDisjoint`,
`CacheStaysBounded`, `WindowIdsAreGenuine`, `NoProcessIsLost`, `OneOriginForLife`,
`NoStrangerIsKilled`, `KillListEmpties`. The properties are not inductive by
themselves: that a window id taken from the cache is genuine needs `KnownClients` (a
process that was given a URL has its id in `Process_t`; the pre-created one has it
there as soon as `WebAppProcess` has it); that a new id is free needs `UnbornApps`
(ids not handed out belong to no process and have no label); that `PreCreate` loses
no process needs `PreCreatedReady`. `OneOriginForLife` follows from the invariant,
since the only label that changes is that of a process without one or of a cache hit
of the same origin. `KnownAreChildren` says that whom the kernel routes to or has
told to quit was not waited for yet: a `kill()` of `sigchldHandler` or `killProcs`
cannot meet a pid that the system has given away again, and the kill list empties.
Both are about handlers that run whole; `KernelSignals` (finding 2) shows what a
signal inside one does.

`EmbeddingProofs`: `EmbeddingInvariance`, `KernelImplementsWebAppMgr` (the
composition takes only kernel steps that `WebAppMgr` allows, hence all of the above
holds in it), `UiTypeCorrectness`, `TabsAndListAgree`, `ClosesPass`,
`KernelAndTabsMeet`, `TabsShowTheirOwn`, `NoTabIsStuck`. Kernel and UI agree only
when nothing is under way; `UiInv` says what holds meanwhile. A listed web app is in
one place only: on its way to the UI, in a tab, in a close on its way to the kernel,
or dropped (`ListedAreSomewhere`, `InOnePlace`). When its tab is not yet the
kernel's container for it, the update that will say so is on the way and the last
one is right (`WordIsUnderWay`, `UpdatesAreOwn`); a close passes because the
container was made known first (`ContainersAreKnown`). That a tab shows its own web
app needs to know that one window comes at a time: a tab sends for a window only
when it shows none and awaits none, and a timer runs only then (`OneWindowComes`);
so the window that comes while the tab is not embedding is the one that was sent for
last. That no tab is stuck needs three things more: the window that a tab shows or
awaits is in it, or word that it left follows in the event queue
(`WindowsAreFollowed`); a tab that is embedding awaits a window or such word
(`EmbeddingGoesOn`); a tab that is not, and shows none, awaits a window or its timer
(`EmptyTabsAwaitSomething`). Two kinds of tabs are excepted here as in
`EmbeddingEnds`, because the code does leave them stuck: those whose web app's
window was destroyed (`WindowLost`, finding 9; a destroyed window stays so,
`GoneStays`), and those that were given a web app in place of one whose window they
neither showed nor awaited (`superseded`), for the timer of finding 4 was running or
the old window was lost.

`RouterProofs`: `RouterTypeCorrectness` and, where `AioRefuses` is false (finding 8
shows that the condition is needed), `MessagesAreNeverTorn`, `MessagesArriveInOrder`
and `PipesNeverLock`. The invariant follows every message through the kernel: what
is in a child's pipe, then in the asynchronous queue, then in the hands of the
handler, read one after the other, is a sequence of headers each followed by its
payload (`PipesFlow`, `AioFlows`, `HandlerFlows`, `HandlerContinues`), with the
child possibly between the two. For the order, messages are numbered by their
writer, and the invariant says that numbers ascend along the whole way (the writer's
hands, his pipe, the kernel's hands, the asynchronous queue, the reader's pipe, what
was read), that everything on the way was sent, and that what was sent and may pass
is on the way or not yet begun (`OldestAreAhead`, `AllWereSent`, `NoneIsLost`). What
is read next is then the next in order, and no induction over the sequence of what
was received is needed. Pipes do not lock because the kernel never blocks on a pipe
it writes to, so a child's reader is there unless it waits for a payload, and then
that payload is what its writer writes next (`KernelReadsWhole`).

`OpNetworkProofs`: `WaitFlagIsRight` (the assertion at `OpNetwork.cpp:224` and its
converse), `PumpTypeCorrectness`, `EveryMessageOnce`, `CommandsKeepTheirOrder`,
`NoPageDataUnderScripts`, `PumpNeverStalls`. A nested call that returns resets the
flag if `m_cookieMap` is empty, even if an outer call still waits; this would be
wrong if the outer answer had not come yet. It cannot happen because answers come in
the order of asking and the innermost call has asked last (`AnswersInOrder`,
`NewestOnTop`, `WaitersAreAnswered`). The other two follow from `PlacesInv`: pipe,
queue and what is handled are disjoint and cover what was sent, and commands ascend
from what is handled to what is in the pipe. For `NoPageDataUnderScripts`, the queue
is emptied only by calls that began when nobody waited, so every wait lies above
them on the stack, and what runs above a wait is not one of them (`NoWaitBelow`).
For `PumpNeverStalls`, a queue that is not empty has somebody to empty it: a call on
the stack, a posted one, or the one that is posted when the last wait ends
(`QueueHasDrainer`).

`NetworkProofs`: `NetworkTypeCorrectness`, `AnswersAreCutShortByOwnersOnly`,
`WaitsNeverNest`, `EveryFetchIsAnswered` and `NetworkImplementsUrlStream`, the
refinement: nothing was sent for a fetch that is in the pipe, queued or waiting for
its cookies (`FetchesAreNew`, `WaitingIsNew`), and what was sent for another begins
with the metadata, has one end at most, and nothing behind it
(`OnlyFetchedAreServed`, `AnswersHaveShape`). A fetch that has no end yet is in the
pipe, queued, waiting or served (`NoFetchIsLost`), who waits is still to be answered
(`WaitIsAnswered`), and the queue has somebody to empty it (`QueueHasDrainer`).

`DownloadProofs`: `Invariance`, `DownloadTypeCorrectness`, `FilesAreWhole`,
`FilesAreNotShared`, `FinishedMeansStored`, `NoDownloadHangs`. The messages about
one download that are on the way to the storage process go on from what its file
holds to what its downloader has read (`DownloadsGoOn`), whatever messages about
others are between them; a downloader has read what its reply was fed
(`DownloadersFollowReplies`), and a reply that is wanted was fed what the network
sent (`RepliesFollowTheStream`). A pipe whose web app has died may have lost its
end, so the claim about the last chunk is made only for those that run or whose end
message is still there. That the name of a new file is free is a pigeonhole
argument: of the names 0 to n one is free if n files exist. `FinishedMeansStored`
goes the same way one pipe further: the messages on the way to the UI go on from
what it shows to what storage has written (`UiInv`, `Follows`). Its hypothesis
`NumbersFit` says that no web app has `JobBase` (1024) downloads; beyond, downloads
of two web apps share a job number. `NoDownloadHangs` needs no such hypothesis: an
end that was sent is on its way to storage, or a 0 is on its way to the UI behind
the first message of that job, or it is shown (`EndsArrive`, `KnownAreListed`);
`UnsentSawNothing` leaves those that `OpDownloader::finished` gives up.

`CookieStoreProofs`: `CookieTypeCorrectness`, `SitesAreIsolated`, and, for a Qt that
leaves domains as they are (`~DotAdded`), `StoredCookiesAreFound`,
`ExpiredCookiesAreRemoved` and `LookupsSpareTheRest`. A row remembers the host that
set it, and its domain is one of that host's (`RowsAreOwn`); the last three need
that no lookup comes between the cookies of one request (`NoLookupMeanwhile`) and
that the row written last is in the table until it expires (`LastWritten`).

Only model-checked: the liveness properties (`EvictedAppsAreReaped`,
`EmbeddingEnds`, `EverythingArrives`, `WaitsReturn`, `QueueIsServed`,
`EveryFetchEnds`, `DownloadsEnd`), since liveness under fairness and `ENABLED` are
out of the prover's reach (their safety part is proved); that `CanStep` and
`CanReap` are the guards they should be; what holds with `AioRefuses` or `DotAdded`;
and the runs that show a finding.

## 5. Findings

Shown by a run:

1. `kernel_null_app`: a pre-created or cached web app that dies takes the kernel
   down (`WebAppMgr.cpp:283`; `main.cpp:224` says it keeps running).
2. `kernel_signals`: `main.cpp:346` blocks no signal; a SIGCHLD inside
   `handleCloseWebApp` breaks the assertion at `WebAppMgr.cpp:362`.
3. `network_abort`: `Manager.cpp:111` handles an abort before its queued fetch,
   which then runs to its end (`Manager.cpp:101`: "process queued msg first").
4. `embedding_stuck`: a tab can have a web app, show no window and not be
   embedding one, in which case the assumption at `webview.cpp:118` fails and the
   next web app of the tab is never embedded (`webview.cpp:129`).

Kept as configurations that fail, outside the list of runs:

5. `MCWebAppMgrLinger.cfg` (`OnlyLingeringAreForced`): `main.cpp:299` kills the
   processes that were told to quit less than four seconds ago and spares those
   that linger.
6. `OpNetworkOrder.cfg` (`QueuedGoFirst`): `OpNetwork.cpp:106` dispatches new
   messages before queued ones after a wait.
7. `MCCookieStoreDot.cfg` (`ExpiredSeenAreRemoved` with `DotAdded`):
   `CookieStore.cpp:282` deletes an expired cookie under the domain that Qt has
   parsed; with the Qt of the comment at line 322 that is another key.
8. `MCRouter.cfg` with `AioRefuses = TRUE`: when `aio_write` is refused, the
   synchronous write overtakes what is still under way to that process, and
   `MessagesStayWhole` fails (`AIOHelper.cpp:152`).
9. `MCEmbeddingGone.cfg` (`WebAppsKeepTheirWindows`): a tab that is closed before
   its event loop has accepted the window of its web app takes the window along
   (`tabwidget.cpp:649-652`, `webview.cpp:86-92`); the kernel caches the web app all
   the same. The next tab that is given it embeds a window that does not exist
   (`webview.cpp:120`) and `m_embedding` stays true. When that tab is then given
   another web app it finds no window to discard, and waits for the old one
   (`webview.cpp:118`): it stays empty too.

## 6. Not modelled, and the plan

No `.ts` file is code of the program (see the head of this file); none is mapped.

What the modelled parts leave out:

- Embedding: web apps neither crash nor quit while a tab shows them (the death
  of an unlisted one ends the kernel, finding 1, and nobody tells the UI of a
  listed one); frames as web apps of their own (`OP_IFRAME`, off by default);
  further windows; container ids that X uses again; with `NextTab` used up no tab
  is opened any more. A web app whose `MSG_NEW_WEBAPP` no tab takes is
  listed for ever (`dropped`); `KernelAndTabsAgree` counts these apart.
- Download: writes to an open file succeed; replies have no error; no downloader
  is attached inside `finished()`; none has an empty URL, for which `init` would use
  a null reply. A downloader that comes after the last chunk and before the end
  stores nothing and says nothing; `DownloadsEnd` names this case. `FinishedIsStored`
  holds while a web app has fewer than `JobBase` (1024) downloads, after which job
  numbers of different web apps meet.
- Router: a crashed child's pipe reads as empty until its SIGCHLD comes; that
  reads as a `MSG_NEW_URL` for container 0, which is rejected again and again and
  meanwhile keeps the kernel from processes with higher ids. That nobody starves
  for ever is bounded by `MaxSends`, not shown. The messages that `handleEmbedFrame`
  and the kill list write to the UI, and replay mode, are not routed.
- Kernel: the gamble that `MSG_SET_URL` is read before `MSG_NEW_WEBAPP` has an
  effect (`WebAppMgr.cpp:228`) may be lost in the code; descriptors of dead web apps
  stay open (`WebAppMgr.cpp:285`).
- Network and cookies: contents of requests and replies, requests of other
  methods than GET and POST, failures of SQLite.

Components without a model, with the reason: `DomainName` (string handling;
its equivalence is a constant), the MIME sniffer (vendored, its result is not
used), the web app's page and view (they drive QtWebKit; what they send is
arbitrary in `WebAppMgr` and `Embedding`), the crawler's web app (an older copy of
`webapp/op2`), windows and dialogs, history, bookmarks and `AutoSaver` (widgets and
item models that share nothing with the processes), the crawler library (a
synchronized list), and `log_storage`, `plugin` and `msgdump`, which the kernel does
not start.

What would come next:

1. Frames with `OP_IFRAME`: `embedFrame` closes a new client once for each frame
   that is not its container (`webview.cpp:233`).
2. `KernelSignals`: SIGCHLD inside `handleNewUrl` and `handleEmbedFrame`.
3. `Network` and `Download` in one run, with the abort that overtakes its fetch.
4. A refinement of `Router` to a queue per pair of processes, so that
   `Embedding`, `Network` and `Download` could be put on top of it.
