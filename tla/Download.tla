------------------------------ MODULE Download ------------------------------
(***************************************************************************)
(* A download from the network process to the UI's list of downloads:      *)
(* replies and downloaders of the web apps (webapp/op2/OpNetworkReply.cpp, *)
(* OpNetworkAccessManager.cpp, OpDownloader.cpp), the storage process      *)
(* (storage/) and DownloadManager of the UI (op-ui/downloadmanager.cpp).   *)
(*                                                                         *)
(* The network process is what UrlStream says of it; Network implements    *)
(* that.  Its messages count as sent when the web app reads them: nobody   *)
(* else sees them on the way.  Data is counted in the chunks of            *)
(* MSG_RETURN_URL.  Storage and UI tell the first message of a download    *)
(* from the later ones by whether they know its id, never by its contents; *)
(* so does the model.                                                      *)
(*                                                                         *)
(* FAULT marks a slip in the definition below it, as in WebAppMgr.         *)
(***************************************************************************)
EXTENDS Integers, Sequences, FiniteSets

CONSTANTS
    WebApps,     \* ids of web-app processes
    Fetches,     \* records [app |-> ..., url |-> ...]: URL ids are unique within an app
    Names,       \* file names that servers and URLs suggest
    JobBase,     \* what storage multiplies the id of a web app by: 1024
    MaxChunks,   \* bound: data messages of an answer
    UiPipeBound  \* bound: storage waits while more messages to the UI are unread

ASSUME DownloadAssumption ==
    /\ WebApps \subseteq Nat
    /\ \A f \in Fetches : f.app \in WebApps
    /\ JobBase \in Nat
    /\ MaxChunks \in Nat
    /\ UiPipeBound \in Nat \ {0}

NoFile == -1

VARIABLES
    phase, chunks, \* UrlStream: what the web app has been sent for a fetch
    alive,         \* web apps that run
    state,         \* OpNetworkReply::m_state; "none" before createRequest
    known,         \* replies whose metadata has come
    written,       \* chunks fed into m_readBuffer (m_writeIdx)
    readUpTo,      \* chunks the downloader has read (m_readIdx)
    nextId,        \* OpDownloader::s_reqId of each web app
    fileId,        \* OpDownloader::m_reqId of the downloader of a reply, or NoFile
    sent,          \* OpDownloader::m_sent
    finished,      \* OpDownloader::m_finished
    attachedAt,    \* history: chunks in the buffer when the downloader came
    toStorage,     \* each web app's MSG_WRITE_FILE, not yet read
    writeQueue,    \* Storage::m_writeQueue: a partial function of downloads
    disk,          \* names of the files that exist
    toUi,          \* MSG_DOWNLOAD_INFO, not yet read
    items          \* DownloadManager::m_downloads: a partial function of job ids

stream == <<phase, chunks>>
reply == <<state, known, written>>
downloader == <<readUpTo, nextId, fileId, sent, finished, attachedAt>>
storage == <<writeQueue, disk>>
vars == <<stream, alive, reply, downloader, toStorage, storage, toUi, items>>

Stream == INSTANCE UrlStream

Ids == WebApps \X Nat          \* (web app, m_reqId), the key of m_writeQueue
Parts == [what : {"start"}, name : Names] \cup [what : {"data"}, from : Nat, to : Nat]
         \cup [what : {"end"}]
NoName == "unknown"            \* the base name storage falls back to
FileNames == (Names \cup {NoName}) \X Nat  \* base name and number, 0 for none
Files == [name : FileNames, open : BOOLEAN, content : Seq(Nat), failed : BOOLEAN]

TypeOK ==
    /\ phase \in [Fetches -> {"silent", "open", "ended"}]
    /\ chunks \in [Fetches -> 0..MaxChunks]
    /\ alive \in SUBSET WebApps
    /\ state \in [Fetches -> {"none", "Idle", "Finished", "Aborted"}]
    /\ known \in SUBSET Fetches
    /\ written \in [Fetches -> 0..MaxChunks] /\ attachedAt \in [Fetches -> 0..MaxChunks]
    /\ readUpTo \in [Fetches -> 0..MaxChunks]
    /\ nextId \in [WebApps -> Nat]
    /\ fileId \in [Fetches -> Nat \cup {NoFile}]
    /\ sent \in SUBSET Fetches /\ finished \in SUBSET Fetches
    /\ toStorage \in [WebApps -> Seq([file : Nat, part : Parts])]
    /\ DOMAIN writeQueue \subseteq Ids
    /\ \A d \in DOMAIN writeQueue : writeQueue[d] \in Files
    /\ disk \in SUBSET FileNames
    /\ toUi \in Seq([job : Nat, num : Nat])
    /\ DOMAIN items \subseteq Nat
    /\ \A j \in DOMAIN items : items[j] \in [received : Nat, finished : BOOLEAN]

Init ==
    /\ Stream!Init
    /\ alive = WebApps
    /\ state = [f \in Fetches |-> "none"]
    /\ known = {}
    /\ written = [f \in Fetches |-> 0] /\ attachedAt = [f \in Fetches |-> 0]
    /\ readUpTo = [f \in Fetches |-> 0]
    /\ nextId = [a \in WebApps |-> 0]
    /\ fileId = [f \in Fetches |-> NoFile]
    /\ sent = {} /\ finished = {}
    /\ toStorage = [a \in WebApps |-> <<>>]
    /\ writeQueue = <<>>
    /\ disk = {}
    /\ toUi = <<>>
    /\ items = <<>>

\* A partial function with one more, or one changed, entry
Put(fun, key, value) == [k \in DOMAIN fun \cup {key} |-> IF k = key THEN value ELSE fun[k]]

-----------------------------------------------------------------------------
\* OpDownloader.  What its slots write to the storage process, given whether
\* it has sent something, up to which chunk it has read, and its id.

Request(file, part) == [file |-> file, part |-> part]

StartOf(name) == [what |-> "start", name |-> name]

\* start: the name and size of the file
Starts(file, wasSent) ==
    IF wasSent THEN {<<>>} ELSE {<<Request(file, StartOf(n))>> : n \in Names}

\* downloadReadyRead with the chunks from..to in the buffer
DownloadReadyRead(file, wasSent, from, to) ==
    IF from > to THEN {<<>>}
    ELSE {s \o <<Request(file, [what |-> "data", from |-> from, to |-> to])>> :
             s \in Starts(file, wasSent)}

\* FAULT: the end is sent when the downloader has finished before, not else.
EndTwice(file, wasSent, over) ==
    IF wasSent /\ over THEN <<Request(file, [what |-> "end"])>> ELSE <<>>

\* slot finished
End(file, wasSent, over) ==
    IF wasSent /\ ~over THEN <<Request(file, [what |-> "end"])>> ELSE <<>>

\* A downloader for reply f.  Data that is in the buffer by now waits for the
\* next readyRead; if the reply has finished there will be none.
Attach(f) ==
    /\ fileId[f] = NoFile
    /\ fileId' = [fileId EXCEPT ![f] = nextId[f.app]]
    /\ nextId' = [nextId EXCEPT ![f.app] = @ + 1]
    /\ attachedAt' = [attachedAt EXCEPT ![f] = written[f]]
    /\ IF state[f] = "Finished"
       THEN /\ \E s \in Starts(nextId[f.app], FALSE),
                  d \in DownloadReadyRead(nextId[f.app], TRUE, 1, written[f]) :
                 toStorage' = [toStorage EXCEPT ![f.app] =
                                  @ \o s \o d \o End(nextId[f.app], TRUE, FALSE)]
            /\ readUpTo' = [readUpTo EXCEPT ![f] = written[f]]
            /\ sent' = sent \cup {f}
            /\ finished' = finished \cup {f}
       ELSE UNCHANGED <<toStorage, readUpTo, sent, finished>>

\* WebPage::handleUnsupportedContent: WebKit has seen the metadata and hands the
\* reply over, at once or some turns of the event loop later.
HandleUnsupportedContent(f) ==
    /\ f.app \in alive
    /\ f \in known
    /\ state[f] \in {"Idle", "Finished"}
    /\ Attach(f)
    /\ UNCHANGED <<stream, alive, reply, storage, toUi, items>>

\* createRequest for a page
CreateRequest(f) ==
    /\ f.app \in alive
    /\ state[f] = "none"
    /\ state' = [state EXCEPT ![f] = "Idle"]
    /\ UNCHANGED <<stream, alive, known, written, downloader, toStorage,
                   storage, toUi, items>>

\* WebView::downloadRequested: the user saves a link.
DownloadRequested(f) ==
    /\ f.app \in alive
    /\ state[f] = "none"
    /\ state' = [state EXCEPT ![f] = "Idle"]
    /\ Attach(f)
    /\ UNCHANGED <<stream, alive, known, written, storage, toUi, items>>

\* OpNetworkReply::abort by a page that is left; m_replyQueue forgets the reply.
Abort(f) ==
    /\ f.app \in alive
    /\ state[f] = "Idle"
    /\ fileId[f] = NoFile
    /\ state' = [state EXCEPT ![f] = "Aborted"]
    /\ UNCHANGED <<stream, alive, known, written, downloader, toStorage,
                   storage, toUi, items>>

-----------------------------------------------------------------------------
\* OpNetworkAccessManager and OpNetworkReply: a message about fetch f

FeedMetaData(f) ==
    /\ known' = known \cup {f}
    /\ UNCHANGED <<state, written, downloader, toStorage>>

\* FAULT: only what has come since the last readyRead is read.
NewestOnly(f) == <<written[f] + 1, written[f] + 1>>

\* FAULT: the buffer is read to its size, not to what was written.
PastTheEnd(f) == <<readUpTo[f] + 1, written[f] + 2>>

\* What readAll finds after one more chunk was fed
Unread(f) == <<readUpTo[f] + 1, written[f] + 1>>

FeedData(f) ==
    /\ written' = [written EXCEPT ![f] = @ + 1]
    /\ IF fileId[f] = NoFile
       THEN UNCHANGED <<downloader, toStorage>>
       ELSE /\ \E d \in DownloadReadyRead(fileId[f], f \in sent, Unread(f)[1], Unread(f)[2]) :
                 toStorage' = [toStorage EXCEPT ![f.app] = @ \o d]
            /\ readUpTo' = [readUpTo EXCEPT ![f] = Unread(f)[2]]
            /\ sent' = sent \cup {f}
            /\ UNCHANGED <<nextId, fileId, finished, attachedAt>>
    /\ UNCHANGED <<state, known>>

FeedEnd(f) ==
    /\ state' = [state EXCEPT ![f] = "Finished"]
    /\ IF fileId[f] = NoFile
       THEN UNCHANGED <<downloader, toStorage>>
       ELSE /\ toStorage' = [toStorage EXCEPT ![f.app] =
                                @ \o End(fileId[f], f \in sent, f \in finished)]
            /\ finished' = finished \cup {f}
            /\ UNCHANGED <<readUpTo, nextId, fileId, sent, attachedAt>>
    /\ UNCHANGED <<known, written>>

\* Messages for a reply that m_replyQueue has forgotten have no effect.
Dispatched(f, feed) ==
    IF state[f] = "Aborted" THEN UNCHANGED <<reply, downloader, toStorage>> ELSE feed

\* OpNetwork::dispatchMsg of the next message about f
HandleMessage(f) ==
    /\ f.app \in alive
    /\ state[f] # "none"
    /\ \/ Stream!Meta(f) /\ Dispatched(f, FeedMetaData(f))
       \/ Stream!Data(f) /\ chunks[f] < MaxChunks /\ Dispatched(f, FeedData(f))
       \/ Stream!End(f) /\ Dispatched(f, FeedEnd(f))
    /\ UNCHANGED <<alive, storage, toUi, items>>

\* A web app dies, or is evicted and quits: the kernel takes it out of procMap
\* and no longer reads what is in its pipe.
AppDies(a) ==
    /\ a \in alive
    /\ alive' = alive \ {a}
    /\ \E n \in 0..Len(toStorage[a]) :
          toStorage' = [toStorage EXCEPT ![a] = SubSeq(@, 1, n)]
    /\ UNCHANGED <<stream, reply, downloader, storage, toUi, items>>

-----------------------------------------------------------------------------
\* Storage::writeFile

NameIn(part) == IF part.what = "start" THEN part.name ELSE NoName

\* FAULT: an existing file is written again.
SameName(base) == <<base, 0>>

\* The first of name, name-1, name-2, ... that does not exist
ActualName(base) ==
    <<base, CHOOSE i \in 0..Cardinality(disk) :
                /\ <<base, i>> \notin disk
                /\ \A j \in 0..(i - 1) : <<base, j>> \in disk>>

Key(a, file) == <<a, file>>

\* FAULT: files of different web apps get one number.
JobOfFile(d) == d[2]

JobId(d) == d[1] * JobBase + d[2]

Chunks(part) == [i \in 1..(part.to - part.from + 1) |-> part.from + i - 1]

\* The first message of a download opens its file, which may fail.
OpenFile(d, part) ==
    \E ok \in BOOLEAN :
        /\ writeQueue' = Put(writeQueue, d,
              [name |-> ActualName(NameIn(part)), open |-> ok, content |-> <<>>,
               failed |-> ~ok])
        /\ disk' = IF ok THEN disk \cup {ActualName(NameIn(part))} ELSE disk
        /\ toUi' = Append(toUi, [job |-> JobId(d), num |-> 0])

WriteData(d, part) ==
    /\ writeQueue' = IF writeQueue[d].open
                     THEN [writeQueue EXCEPT ![d].content = @ \o Chunks(part)]
                     ELSE writeQueue
    /\ toUi' = Append(toUi, [job |-> JobId(d),
                             num |-> IF writeQueue[d].open THEN Len(Chunks(part)) ELSE 0])
    /\ UNCHANGED disk

CloseFile(d) ==
    /\ writeQueue' = [writeQueue EXCEPT ![d].open = FALSE]
    /\ toUi' = Append(toUi, [job |-> JobId(d), num |-> 0])
    /\ UNCHANGED disk

WriteFile(a) ==
    /\ toStorage[a] # <<>>
    /\ Len(toUi) < UiPipeBound
    /\ toStorage' = [toStorage EXCEPT ![a] = Tail(@)]
    /\ LET m == Head(toStorage[a])
           d == Key(a, m.file)
       IN \/ d \notin DOMAIN writeQueue /\ OpenFile(d, m.part)
          \/ d \in DOMAIN writeQueue /\ m.part.what # "end" /\ WriteData(d, m.part)
          \/ d \in DOMAIN writeQueue /\ m.part.what = "end" /\ CloseFile(d)
    /\ UNCHANGED <<stream, alive, reply, downloader, items>>

-----------------------------------------------------------------------------
\* DownloadManager::handleDownloadInfo: a job that is not in the list is added,
\* a number above 0 is progress, any other is the end.
HandleDownloadInfo ==
    /\ toUi # <<>>
    /\ toUi' = Tail(toUi)
    /\ LET m == Head(toUi) IN
          items' = IF m.job \notin DOMAIN items
                   THEN Put(items, m.job, [received |-> 0, finished |-> FALSE])
                   ELSE IF m.num > 0
                        THEN [items EXCEPT ![m.job].received = @ + m.num]
                        ELSE [items EXCEPT ![m.job].finished = TRUE]
    /\ UNCHANGED <<stream, alive, reply, downloader, toStorage, storage>>

-----------------------------------------------------------------------------
Next ==
    \/ \E f \in Fetches :
          \/ HandleMessage(f)
          \/ CreateRequest(f)
          \/ DownloadRequested(f)
          \/ HandleUnsupportedContent(f)
          \/ Abort(f)
    \/ \E a \in WebApps : AppDies(a) \/ WriteFile(a)
    \/ HandleDownloadInfo

Spec == Init /\ [][Next]_vars

\* Messages that have been sent are read: the kernel passes them on, and the
\* event loops of web app, storage and UI serve their pipes.  The network ends
\* an answer it has begun (EveryFetchEnds of Network).
Fairness ==
    /\ \A f \in Fetches : WF_vars(HandleMessage(f))
    /\ \A a \in WebApps : SF_vars(WriteFile(a))
    /\ WF_vars(HandleDownloadInfo)

FairSpec == Spec /\ Fairness

-----------------------------------------------------------------------------
\* Properties

\* A file holds the answer from its first chunk on, without gap or repetition,
\* and all of it once the download has closed it: whenever the downloader came,
\* and whatever other downloads there are.
FilesHoldTheAnswer ==
    \A f \in Fetches :
        LET d == <<f.app, fileId[f]>> IN
        d \in DOMAIN writeQueue =>
            /\ \A i \in DOMAIN writeQueue[d].content : writeQueue[d].content[i] = i
            /\ ~writeQueue[d].open /\ ~writeQueue[d].failed =>
                  Len(writeQueue[d].content) = chunks[f] /\ phase[f] = "ended"

\* No two downloads write the same file (the loop over QFile::exists).
NoSharedFile ==
    \A d, e \in DOMAIN writeQueue :
        d # e /\ ~writeQueue[d].failed /\ ~writeQueue[e].failed =>
            writeQueue[d].name # writeQueue[e].name

\* What the UI calls finished is stored: its file is closed and complete, or
\* could not be opened, and the progress shown is what was written.
FinishedIsStored ==
    \A d \in DOMAIN writeQueue :
        JobId(d) \in DOMAIN items /\ items[JobId(d)].finished =>
            /\ ~writeQueue[d].open
            /\ items[JobId(d)].received = Len(writeQueue[d].content)

\* A download that data reaches after its downloader came, or whose reply had
\* finished before, is stored to its end and shown as finished, unless its web
\* app dies.  The others, whose data was all there before the downloader and
\* whose end came after, are given up silently (OpDownloader::finished).
DownloadsEnd ==
    \A f \in Fetches :
        fileId[f] # NoFile
            ~> \/ f.app \notin alive
               \/ f \in finished \ sent /\ written[f] = attachedAt[f]
               \/ /\ JobId(<<f.app, fileId[f]>>) \in DOMAIN items
                  /\ items[JobId(<<f.app, fileId[f]>>)].finished
-----------------------------------------------------------------------------
\* The inductive invariant behind TypeOK, FilesHoldTheAnswer and NoSharedFile: for
\* each download, the messages on the way to the storage process go on from what the
\* file holds to what the downloader has read.

About(q, file) == {i \in DOMAIN q : q[i].file = file}
Of(q, file, what) == {i \in About(q, file) : q[i].part.what = what}

\* Data messages in q are in order and leave nothing out after stored chunks ...
GoOn(q, file, stored) ==
    /\ \A i \in Of(q, file, "data") :
          /\ q[i].part.from <= q[i].part.to
          /\ \/ q[i].part.from = stored + 1
             \/ \E j \in Of(q, file, "data") : j < i /\ q[j].part.to = q[i].part.from - 1
    /\ \A i, j \in Of(q, file, "data") : i < j => q[i].part.to < q[j].part.from

\* ... and come to chunk r.
Reach(q, file, stored, r) ==
    /\ \A i \in Of(q, file, "data") : q[i].part.to <= r
    /\ r = stored \/ \E i \in Of(q, file, "data") : q[i].part.to = r

\* The start comes first, unless the file is open already, and the end last.
StartFirstEndLast(q, file, opened) ==
    \A i \in About(q, file) :
        /\ IF q[i].part.what = "start"
           THEN ~opened /\ \A j \in About(q, file) : i <= j
           ELSE opened \/ \E j \in Of(q, file, "start") : j < i
        /\ q[i].part.what = "end" => \A j \in About(q, file) : j <= i

Entry(f) == <<f.app, fileId[f]>>
Stored(f) == IF Entry(f) \in DOMAIN writeQueue THEN Len(writeQueue[Entry(f)].content) ELSE 0
Status(f) ==
    IF Entry(f) \notin DOMAIN writeQueue THEN "none"
    ELSE IF writeQueue[Entry(f)].failed THEN "failed"
    ELSE IF writeQueue[Entry(f)].open THEN "open" ELSE "closed"

\* The messages about a file go on from what is stored to chunk r.  The pipe of
\* a web app that has died may have lost what was at its end.
GoesOn(q, file, status, stored, running, over, r) ==
    /\ StartFirstEndLast(q, file, status # "none")
    /\ running => status # "none" \/ Of(q, file, "start") # {}
    /\ Of(q, file, "end") # {} => over
    /\ status # "failed" =>
          /\ GoOn(q, file, stored)
          /\ running \/ Of(q, file, "end") # {} => Reach(q, file, stored, r)
    /\ status = "closed" => over /\ stored = r /\ About(q, file) = {}

DownloadsGoOn ==
    \A f \in sent : GoesOn(toStorage[f.app], fileId[f], Status(f), Stored(f),
                           f.app \in alive, f \in finished, readUpTo[f])

RepliesFollowTheStream ==
    \A f \in Fetches :
        /\ state[f] = "none" => written[f] = 0 /\ chunks[f] = 0 /\ phase[f] = "silent"
        /\ state[f] = "Idle" => phase[f] # "ended"
        /\ state[f] = "Finished" => phase[f] = "ended"
        /\ state[f] # "Aborted" => written[f] = chunks[f]

DownloadersFollowReplies ==
    \A f \in Fetches :
        /\ fileId[f] = NoFile => f \notin sent \cup finished
        /\ fileId[f] # NoFile => /\ state[f] \in {"Idle", "Finished"}
                                 /\ state[f] = "Finished" <=> f \in finished
                                 /\ fileId[f] < nextId[f.app]
        /\ f \in sent => readUpTo[f] = written[f]
        /\ f \notin sent => readUpTo[f] = 0

FileIdsDiffer ==
    \A f, g \in Fetches : fileId[f] # NoFile /\ f.app = g.app /\ fileId[f] = fileId[g] => f = g

\* Storage hears of, and knows, nothing but downloads.
RequestsAreOwn ==
    /\ \A a \in WebApps : \A i \in DOMAIN toStorage[a] :
          \E f \in sent : f.app = a /\ fileId[f] = toStorage[a][i].file
    /\ \A d \in DOMAIN writeQueue : \E f \in sent : Entry(f) = d

FilesAreInOrder ==
    /\ IsFiniteSet(disk)
    /\ \A d \in DOMAIN writeQueue :
          /\ \A i \in DOMAIN writeQueue[d].content : writeQueue[d].content[i] = i
          /\ writeQueue[d].failed => ~writeQueue[d].open /\ writeQueue[d].content = <<>>
          /\ ~writeQueue[d].failed => writeQueue[d].name \in disk

IInv ==
    /\ TypeOK
    /\ RepliesFollowTheStream
    /\ DownloadersFollowReplies
    /\ FileIdsDiffer
    /\ RequestsAreOwn
    /\ DownloadsGoOn
    /\ FilesAreInOrder
    /\ NoSharedFile
-----------------------------------------------------------------------------
\* The inductive invariant behind FinishedIsStored, which needs IInv too, and
\* that the ids of files stay below JobBase: what the UI shows of a download and
\* what is on the way to it add up to what is stored.

\* No web app has numbered more downloads than storage leaves numbers for.
NumbersFit == \A a \in WebApps : nextId[a] <= JobBase

OfJob(q, job) == {i \in DOMAIN q : q[i].job = job}

\* Someone who has seen `shown' chunks of a job counts up to `total' by q.
AddsUp(q, job, shown, total) ==
    \E count \in [0..Len(q) -> 0..total] :
        /\ count[0] = shown
        /\ \A i \in DOMAIN q :
              count[i] = count[i - 1] + IF q[i].job = job THEN q[i].num ELSE 0
        /\ \A i \in 0..Len(q) : (\A k \in OfJob(q, job) : k <= i) => count[i] = total

\* The first message about a job, with number 0, has it listed; another 0 is the
\* end of a file that was stored.  About a file that could not be opened there
\* are no other numbers.
Follows(q, job, list, shown, status, total) ==
    /\ list = "unlisted" =>
          /\ shown = 0
          /\ \E i \in OfJob(q, job) : q[i].num = 0 /\ \A k \in OfJob(q, job) : i <= k
    /\ status = "failed" => shown = 0 /\ \A i \in OfJob(q, job) : q[i].num = 0
    /\ status # "failed" =>
          /\ AddsUp(q, job, shown, total)
          /\ \A i \in OfJob(q, job) : q[i].num = 0 =>
                \/ list = "unlisted" /\ \A k \in OfJob(q, job) : i <= k
                \/ status = "closed" /\ \A k \in OfJob(q, job) : k <= i
          /\ list = "finished" => status = "closed" /\ OfJob(q, job) = {}

Shown(job) == IF job \in DOMAIN items THEN items[job].received ELSE 0
Listed(job) == IF job \notin DOMAIN items THEN "unlisted"
               ELSE IF items[job].finished THEN "finished" ELSE "running"
StatusOf(d) == IF writeQueue[d].failed THEN "failed"
               ELSE IF writeQueue[d].open THEN "open" ELSE "closed"

JobsAreStored ==
    /\ \A i \in DOMAIN toUi : \E d \in DOMAIN writeQueue : JobId(d) = toUi[i].job
    /\ \A j \in DOMAIN items : \E d \in DOMAIN writeQueue : JobId(d) = j

UiInv ==
    /\ JobsAreStored
    /\ \A d \in DOMAIN writeQueue :
          Follows(toUi, JobId(d), Listed(JobId(d)), Shown(JobId(d)), StatusOf(d),
                  Len(writeQueue[d].content))
-----------------------------------------------------------------------------
\* What DownloadsEnd says of a moment: nothing is stuck.

\* A file that storage knows is in the UI's list, or on the way to it.
KnownAreListed ==
    \A d \in DOMAIN writeQueue : JobId(d) \in DOMAIN items \/ OfJob(toUi, JobId(d)) # {}

\* Behind the first message about a job there is a 0 in q, or in what was read.
WillFinish(q, job, list) ==
    \/ list = "finished"
    \/ list = "running" /\ \E i \in OfJob(q, job) : q[i].num = 0
    \/ \E i, k \in OfJob(q, job) : k < i /\ q[i].num = 0

\* The end of a download that has sent something is on its way to storage, or on
\* its way to the UI, or shown.
EndsArrive ==
    \A f \in sent \cap finished :
        f.app \in alive =>
            \/ Of(toStorage[f.app], fileId[f], "end") # {}
            \/ WillFinish(toUi, JobId(Entry(f)), Listed(JobId(Entry(f))))

\* A downloader that has sent nothing has seen no data since it came.
UnsentSawNothing ==
    \A f \in Fetches : fileId[f] # NoFile /\ f \notin sent => written[f] = attachedAt[f]

EndInv == KnownAreListed /\ EndsArrive /\ UnsentSawNothing

\* A web app has a message to read, or to wait for, and so have storage and the
\* UI: the guards of the actions that FairSpec is about.
CanStep ==
    \/ \E f \in Fetches : f.app \in alive /\ state[f] # "none" /\ phase[f] # "ended"
    \/ \E a \in WebApps : toStorage[a] # <<>> /\ Len(toUi) < UiPipeBound
    \/ toUi # <<>>

\* When there is nothing to do, every download of a web app that lives is shown as
\* finished, but for those that OpDownloader::finished gives up.
NothingIsStuck ==
    ~CanStep =>
        \A f \in Fetches :
            fileId[f] # NoFile /\ f.app \in alive =>
               \/ f \in finished \ sent /\ written[f] = attachedAt[f]
               \/ /\ JobId(Entry(f)) \in DOMAIN items
                  /\ items[JobId(Entry(f))].finished
=============================================================================
