---------------------------- MODULE CookieStore ----------------------------
(***************************************************************************)
(* The cookie process (cookie/CookieManager.cpp, cookie/CookieStore.cpp):  *)
(* one table of cookies that the network process and the web apps fill for *)
(* a URL and read for a URL.  Requests are handled one after the other;    *)
(* the loop over the cookies of one request is taken step by step.         *)
(*                                                                         *)
(* A host is the sequence of its labels, a domain says besides whether it  *)
(* starts with a dot, a path is its segments and whether it ends with a    *)
(* slash.  Everything is in lower case.  What a lookup returns is a set:   *)
(* the sort by length of the path is left out.  FAULT marks a slip in the  *)
(* definition below it, as in WebAppMgr.                                   *)
(***************************************************************************)
EXTENDS Integers, SequencesExt

CONSTANTS
    Urls,        \* [https : BOOLEAN, host : labels, path : [segs, slash]]
    NoUrl,       \* none of them
    Lists,       \* the lists of cookies that requests carry
    NoAttr,      \* a cookie without domain or without path
    DotAdded,    \* Qt puts a dot before every domain it parses (as 4.5.2 does)
    Session,     \* the expiration of a session cookie
    MaxTime,     \* bound: how far the clock goes
    MaxRows      \* bound: requests to set cookies come while there are fewer rows

Domains == [dot : BOOLEAN, labels : Seq(STRING)]
Paths == [segs : Seq(STRING), slash : BOOLEAN]
Cookies == [name : STRING, value : Nat, secure : BOOLEAN, exp : Int \cup {Session},
            path : Paths \cup {NoAttr}, domain : Domains \cup {NoAttr}]

ASSUME ClockAssumption ==
    /\ Session \notin Int
    /\ MaxTime \in Nat
    /\ MaxRows \in Nat
    /\ DotAdded \in BOOLEAN

ASSUME RequestAssumption ==
    /\ NoUrl \notin Urls
    /\ Urls \subseteq [https : BOOLEAN, host : Seq(STRING) \ {<<>>}, path : Paths]
    /\ NoAttr \notin Domains \cup Paths
    /\ Lists \subseteq Seq(Cookies)

\* `by' is a history field: the host that has set the cookie.
Rows == [domain : Domains, path : Paths, name : STRING, value : Nat, exp : Int \cup {Session},
         secure : BOOLEAN, by : Seq(STRING)]

VARIABLES
    rows,      \* the table, keyed by domain, path and name
    now,       \* the clock
    todo,      \* the cookies of a request that are still to be stored
    origin,    \* the URL of that request
    started,   \* its `now': the time when the loop began
    looked,    \* the URL of the last request answered, if it was a lookup
    reply,     \* what that lookup returned
    written    \* history: the last row inserted and its URL, until the next request

vars == <<rows, now, todo, origin, started, looked, reply, written>>

Key(r) == <<r.domain, r.path, r.name>>

\* FAULT: the dot is put there by every version of Qt.
WithDot(domain) == IF domain # NoAttr THEN [domain EXCEPT !.dot = TRUE] ELSE domain

\* Qt's parser, by which every domain passes on its way in and out
Parsed(domain) ==
    IF DotAdded /\ domain # NoAttr THEN [domain EXCEPT !.dot = TRUE] ELSE domain

Expired(r, at) == r.exp # Session /\ at > r.exp

-----------------------------------------------------------------------------
\* setCookiesFromUrl

\* checkPath: prefixes are taken segment by segment, a slash is added to both.
CheckPath(path, url) == IsPrefix(path.segs, url.path.segs)

\* The URL's path up to its last slash
DefaultPath(url) ==
    IF url.path.slash THEN url.path
    ELSE [segs |-> Front(url.path.segs), slash |-> TRUE]

\* checkDomain: the host, its dotted form, or a dot and a proper suffix of it
CheckDomain(domain, host) ==
    \/ domain.labels = host
    \/ domain.dot /\ IsStrictSuffix(domain.labels, host)

PathOf(cookie, url) == IF cookie.path = NoAttr THEN DefaultPath(url) ELSE cookie.path

\* The domain a cookie is stored under: a given one that is not the host gets a dot.
DomainOf(cookie, url) ==
    LET domain == Parsed(cookie.domain) IN
    CASE domain = NoAttr                           -> [dot |-> FALSE, labels |-> url.host]
      [] domain = [dot |-> FALSE, labels |-> url.host] -> domain
      [] OTHER                                     -> [domain EXCEPT !.dot = TRUE]

Accepted(cookie, url) ==
    /\ cookie.path # NoAttr => CheckPath(cookie.path, url)
    /\ CheckDomain(DomainOf(cookie, url), url.host)

Row(cookie, url) ==
    [domain |-> DomainOf(cookie, url), path |-> PathOf(cookie, url), name |-> cookie.name,
     value |-> cookie.value, exp |-> cookie.exp, secure |-> cookie.secure, by |-> url.host]

\* FAULT: only a cookie with the same expiration is replaced.
DeletedIfSame(table, r) == {s \in table : Key(s) # Key(r) \/ s.exp # r.exp}

\* deleteCookie
Deleted(table, r) == {s \in table : Key(s) # Key(r)}

\* A request with cookies: MSG_COOKIE_SET or MSG_DOM_COOKIE_SET
SetCookies(url, list) ==
    /\ todo = <<>>
    /\ Cardinality(rows) < MaxRows
    /\ todo' = list /\ origin' = url /\ started' = now
    /\ looked' = NoUrl /\ reply' = {} /\ written' = {}
    /\ UNCHANGED <<rows, now>>

\* One turn of the loop
StoreCookie ==
    /\ todo # <<>>
    /\ todo' = Tail(todo)
    /\ LET cookie == Head(todo)
           row == Row(cookie, origin)
       IN  IF ~Accepted(cookie, origin)
           THEN UNCHANGED <<rows, written>>
           ELSE IF Expired(row, started)
           THEN /\ rows' = Deleted(rows, row)
                /\ written' = {}
           ELSE /\ rows' = Deleted(rows, row) \cup {row}
                /\ written' = {[row |-> row, url |-> origin]}
    /\ UNCHANGED <<now, origin, started, looked, reply>>

-----------------------------------------------------------------------------
\* cookiesForUrl

\* FAULT: the loop goes on down to a single label.
DomainsDownToOne(host) ==
    {[dot |-> d, labels |-> host] : d \in BOOLEAN}
    \cup {[dot |-> TRUE, labels |-> SubSeq(host, i, Len(host))] : i \in 2..Len(host)}

\* qualifiedDomains: the host, its dotted form, and each suffix of at least two
\* labels with a dot
QualifiedDomains(host) ==
    {[dot |-> d, labels |-> host] : d \in BOOLEAN}
    \cup {[dot |-> TRUE, labels |-> SubSeq(host, i, Len(host))] : i \in 2..(Len(host) - 1)}

Matching(table, url) ==
    {r \in table : /\ r.domain \in QualifiedDomains(url.host)
                   /\ CheckPath(r.path, url)
                   /\ r.secure => url.https}

\* What cookiesForUrl returns at a time
Found(table, url, at) == {r \in Matching(table, url) : ~Expired(r, at)}

\* FAULT: deleteCookie by domain and name
RemovedByName(table, dead) ==
    {s \in table : \A r \in dead : s.domain # r.domain \/ s.name # r.name}

\* deleteCookie for each expired cookie that the lookup came across, with the
\* domain as Qt has parsed it from the `content' column
Removed(table, dead) ==
    {s \in table : \A r \in dead : Key(s) # Key([r EXCEPT !.domain = Parsed(@)])}

\* MSG_COOKIE_GET or MSG_DOM_COOKIE_GET.  The clock is read once, after the
\* query and before the loop.
CookiesForUrl(url) ==
    /\ todo = <<>>
    /\ reply' = Found(rows, url, now)
    /\ looked' = url
    /\ rows' = Removed(rows, Matching(rows, url) \ Found(rows, url, now))
    /\ UNCHANGED <<now, todo, origin, started, written>>

-----------------------------------------------------------------------------
Tick ==
    /\ now < MaxTime
    /\ now' = now + 1
    /\ looked' = NoUrl /\ reply' = {}
    /\ UNCHANGED <<rows, todo, origin, started, written>>

Init ==
    /\ rows = {} /\ now = 0
    /\ todo = <<>> /\ origin = NoUrl /\ started = 0
    /\ looked = NoUrl /\ reply = {} /\ written = {}

Next ==
    \/ \E url \in Urls, list \in Lists : SetCookies(url, list)
    \/ StoreCookie
    \/ \E url \in Urls : CookiesForUrl(url)
    \/ Tick

Spec == Init /\ [][Next]_vars

FairSpec == Spec /\ WF_vars(StoreCookie)

-----------------------------------------------------------------------------
\* Properties

TypeOK ==
    /\ now \in 0..MaxTime /\ started \in 0..now
    /\ todo \in Seq(Cookies)
    /\ origin \in Urls \cup {NoUrl} /\ (todo # <<>> => origin \in Urls)
    /\ looked \in Urls \cup {NoUrl}
    /\ rows \in SUBSET Rows /\ reply \in SUBSET Rows
    /\ \A r, s \in rows : Key(r) = Key(s) => r = s
    /\ written \in SUBSET [row : Rows, url : Urls]

\* A lookup returns a cookie only to the host that has set it, or below a
\* domain of at least two labels which both hosts share, or to the host
\* whose full name is the domain.
SharedDomain(r, host) ==
    \/ r.by = host
    \/ /\ IsSuffix(r.domain.labels, r.by) /\ IsSuffix(r.domain.labels, host)
       /\ Len(r.domain.labels) >= 2 \/ r.domain.labels = host

CookiesStayInTheirSite ==
    looked # NoUrl => \A r \in reply : SharedDomain(r, looked.host)

\* A cookie that was stored is found again for the URL that has set it, until
\* it expires or is replaced, whatever was looked up since then.  Excepted are
\* secure cookies of http URLs and domains of one label, which no lookup visits.
WritesAreFound ==
    \A w \in written :
        \/ w.row.secure /\ ~w.url.https
        \/ Len(w.row.domain.labels) < 2 /\ w.row.domain.labels # w.url.host
        \/ Expired(w.row, now)
        \/ w.row \in Found(rows, w.url, now)

\* A lookup takes nothing out of the table but expired cookies.
LookupsRemoveOnlyExpired ==
    [][looked' # NoUrl => \A r \in rows \ rows' : Expired(r, now)]_vars

\* CookieStore.cpp:281 "remove expired cookie from database": an expired
\* cookie that a lookup has come across is not in the table any more.
ExpiredSeenAreRemoved ==
    looked # NoUrl => \A r \in Matching(rows, looked) : ~Expired(r, now)

-----------------------------------------------------------------------------
\* The inductive invariant behind these properties

\* A row lies in a domain of the host that has set it.
RowsAreOwn == \A r \in rows : CheckDomain(r.domain, r.by)

\* Nobody has looked anything up since a request began that is not stored yet.
NoLookupMeanwhile == todo # <<>> => looked = NoUrl

\* The row written last is one of its URL, and in the table until it expires.
LastWritten(w) ==
    /\ CheckDomain(w.row.domain, w.url.host) /\ CheckPath(w.row.path, w.url)
    /\ w.row \in rows \/ Expired(w.row, now)

IInv ==
    /\ TypeOK
    /\ RowsAreOwn
    /\ CookiesStayInTheirSite

\* ... and where Qt leaves domains as they are
ExactInv ==
    /\ IInv
    /\ NoLookupMeanwhile
    /\ \A w \in written : LastWritten(w)
    /\ ExpiredSeenAreRemoved
=============================================================================
