-------------------------- MODULE CookieStoreProofs --------------------------
(***************************************************************************)
(* Proofs about CookieStore: types, that cookies stay in their site, and   *)
(* where Qt leaves domains as they are, that cookies are found until they  *)
(* expire and that lookups remove the expired ones and no others; for any  *)
(* hosts, URLs and requests.                                               *)
(***************************************************************************)
EXTENDS CookieStore, TLAPS

-----------------------------------------------------------------------------
\* Lemmas about the labels of hosts

\* The end of a host from label i on is a suffix.
LEMMA EndsAreSuffixes ==
    ASSUME NEW h \in Seq(STRING), NEW i \in 1..Len(h)
    PROVE  /\ IsSuffix(SubSeq(h, i, Len(h)), h)
           /\ Len(SubSeq(h, i, Len(h))) = Len(h) - i + 1
           /\ SubSeq(h, i, Len(h)) \in Seq(STRING)
<1> DEFINE s == SubSeq(h, i, Len(h))
           n == Len(h) - i + 1
<1>1. /\ s \in Seq(STRING) /\ Len(s) = n /\ n \in Nat /\ Len(h) \in Nat /\ n <= Len(h)
      /\ \A j \in 1..n : s[j] = h[i + j - 1]
  OBVIOUS
<1> HIDE DEF s, n
<1>2. /\ Reverse(s) \in Seq(STRING) /\ Len(Reverse(s)) = n
      /\ \A j \in 1..n : Reverse(s)[j] = s[n - j + 1]
  <2>1. Reverse(s) = [j \in 1..n |-> s[(n - j) + 1]]
    BY <1>1 DEF Reverse
  <2>2. \A j \in 1..n : (n - j) + 1 \in 1..n /\ s[(n - j) + 1] \in STRING
    BY <1>1
  <2>3. Reverse(s) \in [1..n -> STRING]
    BY <2>1, <2>2
  <2> QED
    BY <1>1, <2>1, <2>3
<1>3. /\ Reverse(h) \in Seq(STRING) /\ Len(Reverse(h)) = Len(h)
      /\ \A j \in 1..Len(h) : Reverse(h)[j] = h[Len(h) - j + 1]
  <2>1. Reverse(h) = [j \in 1..Len(h) |-> h[(Len(h) - j) + 1]]
    BY DEF Reverse
  <2>2. \A j \in 1..Len(h) : (Len(h) - j) + 1 \in 1..Len(h) /\ h[(Len(h) - j) + 1] \in STRING
    BY <1>1
  <2>3. Reverse(h) \in [1..Len(h) -> STRING]
    BY <2>1, <2>2
  <2> QED
    BY <1>1, <2>1, <2>3
<1>4. \A j \in 1..n : Reverse(s)[j] = Reverse(h)[j]
  <2> TAKE j \in 1..n
  <2>1. n - j + 1 \in 1..n /\ i + (n - j + 1) - 1 = Len(h) - j + 1 /\ j \in 1..Len(h)
    BY <1>1 DEF n
  <2> QED
    BY <1>1, <1>2, <1>3, <2>1
<1>5. SubSeq(Reverse(s), 1, n) = SubSeq(Reverse(h), 1, n)
  <2>1. /\ SubSeq(Reverse(s), 1, n) \in Seq(STRING) /\ Len(SubSeq(Reverse(s), 1, n)) = n
        /\ SubSeq(Reverse(h), 1, n) \in Seq(STRING) /\ Len(SubSeq(Reverse(h), 1, n)) = n
        /\ \A j \in 1..n : /\ SubSeq(Reverse(s), 1, n)[j] = Reverse(s)[j]
                           /\ SubSeq(Reverse(h), 1, n)[j] = Reverse(h)[j]
    BY <1>1, <1>2, <1>3
  <2> QED
    BY <1>4, <2>1
<1>6. IsSuffix(s, h)
  BY <1>1, <1>2, <1>3, <1>5 DEF IsSuffix, IsPrefix
<1> QED
  BY <1>1, <1>6 DEF s, n

\* A proper suffix is such an end, and not the host itself.
LEMMA SuffixesAreEnds ==
    ASSUME NEW h \in Seq(STRING), NEW s \in Seq(STRING), IsStrictSuffix(s, h), Len(s) >= 1
    PROVE  \E i \in 2..Len(h) : s = SubSeq(h, i, Len(h)) /\ Len(s) = Len(h) - i + 1
<1> DEFINE n == Len(s)
           m == Len(h)
           i == m - n + 1
<1>1. n \in Nat /\ m \in Nat /\ s # h
  BY DEF IsStrictSuffix
<1>2. /\ Reverse(s) \in Seq(STRING) /\ Len(Reverse(s)) = n
      /\ \A j \in 1..n : Reverse(s)[j] = s[n - j + 1]
  <2>1. Reverse(s) = [j \in 1..n |-> s[(n - j) + 1]]
    BY DEF Reverse
  <2>2. \A j \in 1..n : (n - j) + 1 \in 1..n /\ s[(n - j) + 1] \in STRING
    OBVIOUS
  <2>3. Reverse(s) \in [1..n -> STRING]
    BY <2>1, <2>2
  <2> QED
    BY <1>1, <2>1, <2>3
<1>3. /\ Reverse(h) \in Seq(STRING) /\ Len(Reverse(h)) = m
      /\ \A j \in 1..m : Reverse(h)[j] = h[m - j + 1]
  <2>1. Reverse(h) = [j \in 1..m |-> h[(m - j) + 1]]
    BY DEF Reverse
  <2>2. \A j \in 1..m : (m - j) + 1 \in 1..m /\ h[(m - j) + 1] \in STRING
    OBVIOUS
  <2>3. Reverse(h) \in [1..m -> STRING]
    BY <2>1, <2>2
  <2> QED
    BY <1>1, <2>1, <2>3
<1>4. n <= m /\ SubSeq(Reverse(s), 1, n) = SubSeq(Reverse(h), 1, n)
  BY <1>2, <1>3 DEF IsStrictSuffix, IsSuffix, IsPrefix
<1>5. \A j \in 1..n : s[n - j + 1] = h[m - j + 1]
  <2> TAKE j \in 1..n
  <2>1. SubSeq(Reverse(s), 1, n)[j] = Reverse(s)[j] /\ SubSeq(Reverse(h), 1, n)[j] = Reverse(h)[j]
    BY <1>1, <1>2, <1>3, <1>4
  <2> QED
    BY <1>1, <1>2, <1>3, <1>4, <2>1
<1>6. \A k \in 1..n : s[k] = h[i + k - 1]
  <2> TAKE k \in 1..n
  <2>1. n - k + 1 \in 1..n /\ n - (n - k + 1) + 1 = k /\ m - (n - k + 1) + 1 = i + k - 1
    BY <1>1
  <2> QED
    BY <1>5, <2>1
<1>7. i \in 1..m /\ n = m - i + 1
  BY <1>1, <1>4
<1> HIDE DEF i, n, m
<1>8. s = SubSeq(h, i, m)
  <2>1. /\ SubSeq(h, i, m) \in Seq(STRING) /\ Len(SubSeq(h, i, m)) = m - i + 1
        /\ \A k \in 1..(m - i + 1) : SubSeq(h, i, m)[k] = h[i + k - 1]
    BY <1>7 DEF m
  <2> QED
    BY <1>6, <1>7, <2>1 DEF n
<1>9. i # 1
  <2> SUFFICES ASSUME i = 1
               PROVE  s = h
    BY <1>1
  <2> QED
    BY <1>8 DEF m
<1> QED
  BY <1>7, <1>8, <1>9 DEF n, m

\* What qualifiedDomains holds for a host
LEMMA QualifiedFacts ==
    ASSUME NEW h \in Seq(STRING), h # <<>>, NEW d \in QualifiedDomains(h)
    PROVE  /\ IsSuffix(d.labels, h)
           /\ Len(d.labels) >= 2 \/ d.labels = h
<1>1. Len(h) \in Nat /\ 1 \in 1..Len(h) /\ SubSeq(h, 1, Len(h)) = h
  OBVIOUS
<1>2. CASE d.labels = h
  BY <1>1, <1>2, EndsAreSuffixes
<1>3. CASE \E i \in 2..(Len(h) - 1) : d.labels = SubSeq(h, i, Len(h))
  <2>1. PICK i \in 2..(Len(h) - 1) : d.labels = SubSeq(h, i, Len(h))
    BY <1>3
  <2>2. i \in 1..Len(h) /\ Len(h) - i + 1 >= 2
    BY <1>1, <2>1
  <2> QED
    BY <2>1, <2>2, EndsAreSuffixes
<1> QED
  BY <1>2, <1>3 DEF QualifiedDomains

\* A domain that checkDomain lets pass is a suffix of the host ...
LEMMA CheckedIsSuffix ==
    ASSUME NEW h \in Seq(STRING), h # <<>>, NEW d, CheckDomain(d, h)
    PROVE  IsSuffix(d.labels, h)
<1>1. Len(h) \in Nat /\ 1 \in 1..Len(h) /\ SubSeq(h, 1, Len(h)) = h
  OBVIOUS
<1>2. IsSuffix(h, h)
  BY <1>1, EndsAreSuffixes
<1> QED
  BY <1>2 DEF CheckDomain, IsStrictSuffix

\* ... and one that lookups for the host visit, if it has two labels.
LEMMA CheckedIsVisited ==
    ASSUME NEW h \in Seq(STRING), NEW d \in Domains, CheckDomain(d, h),
           Len(d.labels) >= 2 \/ d.labels = h
    PROVE  d \in QualifiedDomains(h)
<1>1. d = [dot |-> d.dot, labels |-> d.labels] /\ d.dot \in BOOLEAN /\ d.labels \in Seq(STRING)
  BY DEF Domains
<1>2. CASE d.labels = h
  BY <1>1, <1>2 DEF QualifiedDomains
<1>3. CASE d.labels # h
  <2>1. d.dot = TRUE /\ IsStrictSuffix(d.labels, h) /\ Len(d.labels) >= 2
    BY <1>1, <1>3 DEF CheckDomain
  <2>2. PICK i \in 2..Len(h) : d.labels = SubSeq(h, i, Len(h)) /\ Len(d.labels) = Len(h) - i + 1
    BY <1>1, <2>1, SuffixesAreEnds
  <2>3. i \in 2..(Len(h) - 1)
    BY <2>1, <2>2
  <2> QED
    BY <1>1, <2>1, <2>2, <2>3 DEF QualifiedDomains
<1> QED
  BY <1>2, <1>3

-----------------------------------------------------------------------------
\* Lemmas about rows

LEMMA UrlFacts ==
    ASSUME NEW url \in Urls
    PROVE  /\ url.host \in Seq(STRING) /\ url.host # <<>>
           /\ url.path \in Paths /\ url.https \in BOOLEAN /\ url # NoUrl
BY RequestAssumption

LEMMA Dotted ==
    ASSUME NEW d \in Domains
    PROVE  [d EXCEPT !.dot = TRUE] \in Domains
BY DEF Domains

LEMMA DomainType ==
    ASSUME NEW cookie \in Cookies, NEW url \in Urls
    PROVE  DomainOf(cookie, url) \in Domains
<1> DEFINE d == Parsed(cookie.domain)
<1>1. d \in Domains \cup {NoAttr}
  BY Dotted DEF Parsed, Cookies
<1> HIDE DEF d
<1>2. [dot |-> FALSE, labels |-> url.host] \in Domains
  BY UrlFacts DEF Domains
<1> QED
  BY <1>1, <1>2, Dotted DEF DomainOf, d

LEMMA PathFacts ==
    ASSUME NEW cookie \in Cookies, NEW url \in Urls
    PROVE  /\ PathOf(cookie, url) \in Paths
           /\ Accepted(cookie, url) => CheckPath(PathOf(cookie, url), url)
<1> DEFINE segs == url.path.segs
<1>1. /\ url.path \in Paths /\ segs \in Seq(STRING)
      /\ url.path.slash \in BOOLEAN /\ Len(segs) \in Nat
  BY UrlFacts DEF Paths
<1> HIDE DEF segs
<1>2. Front(segs) \in Seq(STRING) /\ IsPrefix(Front(segs), segs)
  <2>1. CASE Len(segs) = 0
    <3>1. Front(segs) = <<>> /\ Len(Front(segs)) = 0
      BY <1>1, <2>1 DEF Front
    <3>2. SubSeq(Front(segs), 1, 0) = <<>> /\ SubSeq(segs, 1, 0) = <<>>
      BY <1>1, <3>1
    <3> QED
      BY <1>1, <2>1, <3>1, <3>2 DEF IsPrefix
  <2>2. CASE Len(segs) > 0
    <3> DEFINE n == Len(segs) - 1
    <3>1. /\ n \in Nat /\ Front(segs) \in Seq(STRING) /\ Len(Front(segs)) = n
          /\ Front(segs) = SubSeq(segs, 1, n)
      <4>1. n \in Nat /\ 1 \in 1..Len(segs) /\ n <= Len(segs) /\ Front(segs) = SubSeq(segs, 1, n)
        BY <1>1, <2>2 DEF Front
      <4> HIDE DEF n
      <4> QED
        BY <1>1, <4>1
    <3>2. n <= Len(segs)
      BY <1>1
    <3> HIDE DEF n
    <3>3. SubSeq(Front(segs), 1, n) = Front(segs)
      BY <3>1
    <3> QED
      BY <3>1, <3>2, <3>3 DEF IsPrefix
  <2> QED
    BY <1>1, <2>1, <2>2
<1>3. IsPrefix(segs, segs)
  BY <1>1 DEF IsPrefix
<1>4. DefaultPath(url) \in Paths /\ CheckPath(DefaultPath(url), url)
  <2>1. CASE url.path.slash
    BY <1>1, <1>3, <2>1 DEF DefaultPath, CheckPath, segs
  <2>2. CASE ~url.path.slash
    <3>1. DefaultPath(url) = [segs |-> Front(segs), slash |-> TRUE]
      BY <2>2 DEF DefaultPath, segs
    <3> QED
      BY <1>2, <3>1 DEF Paths, CheckPath, segs
  <2> QED
    BY <2>1, <2>2
<1>5. cookie.path \in Paths \cup {NoAttr}
  BY DEF Cookies
<1> QED
  BY <1>4, <1>5 DEF PathOf, Accepted

LEMMA RowFacts ==
    ASSUME NEW cookie \in Cookies, NEW url \in Urls
    PROVE  /\ Row(cookie, url) \in Rows
           /\ Row(cookie, url).by = url.host /\ Row(cookie, url).domain = DomainOf(cookie, url)
           /\ Row(cookie, url).path = PathOf(cookie, url)
<1>1. DomainOf(cookie, url) \in Domains /\ PathOf(cookie, url) \in Paths
      /\ url.host \in Seq(STRING)
  BY DomainType, PathFacts, UrlFacts
<1>2. /\ cookie.name \in STRING /\ cookie.value \in Nat /\ cookie.secure \in BOOLEAN
      /\ cookie.exp \in Int \cup {Session}
  BY DEF Cookies
<1> QED
  BY <1>1, <1>2 DEF Row, Rows

\* Taking a key out and putting a row of that key in leaves keys unique.
LEMMA ReplaceKeepsKeys ==
    ASSUME NEW table, \A r, s \in table : Key(r) = Key(s) => r = s, NEW row
    PROVE  \A r, s \in Deleted(table, row) \cup {row} : Key(r) = Key(s) => r = s
BY DEF Deleted

-----------------------------------------------------------------------------
\* Types and sites

LEMMA FirstCookie ==
    ASSUME NEW list \in Seq(Cookies), list # <<>>
    PROVE  Head(list) \in Cookies /\ Tail(list) \in Seq(Cookies)
OBVIOUS

LEMMA TypeInit == Init => TypeOK
<1> SUFFICES ASSUME Init
             PROVE  TypeOK
  OBVIOUS
<1>1. <<>> \in Seq(Cookies) /\ now \in 0..MaxTime /\ started \in 0..now
  BY ClockAssumption DEF Init
<1> QED
  BY <1>1 DEF Init, TypeOK

LEMMA TypeNext == TypeOK /\ [Next]_vars => TypeOK'
<1> SUFFICES ASSUME TypeOK, [Next]_vars
             PROVE  TypeOK'
  OBVIOUS
<1>1. ASSUME NEW url \in Urls, NEW list \in Lists, SetCookies(url, list)
      PROVE  TypeOK'
  <2>1. list \in Seq(Cookies) /\ now \in 0..now
    BY RequestAssumption, ClockAssumption DEF TypeOK
  <2> QED
    BY <1>1, <2>1 DEF SetCookies, TypeOK
<1>2. ASSUME StoreCookie
      PROVE  TypeOK'
  <2> DEFINE cookie == Head(todo)
             row == Row(cookie, origin)
  <2>1. /\ todo # <<>> /\ cookie \in Cookies /\ todo' \in Seq(Cookies) /\ origin \in Urls
        /\ UNCHANGED <<now, origin, started, looked, reply>>
    BY <1>2, FirstCookie DEF StoreCookie, TypeOK
  <2>2. row \in Rows
    BY <2>1, RowFacts
  <2>3. \/ UNCHANGED <<rows, written>>
        \/ rows' = Deleted(rows, row) /\ written' = {}
        \/ /\ rows' = Deleted(rows, row) \cup {row}
           /\ written' = {[row |-> row, url |-> origin]}
    BY <1>2 DEF StoreCookie
  <2> HIDE DEF row, cookie
  <2>4. rows' \in SUBSET Rows /\ written' \in SUBSET [row : Rows, url : Urls]
    BY <2>1, <2>2, <2>3 DEF TypeOK, Deleted
  <2>5. \A r, s \in rows' : Key(r) = Key(s) => r = s
    <3>1. \A r, s \in Deleted(rows, row) \cup {row} : Key(r) = Key(s) => r = s
      BY ReplaceKeepsKeys DEF TypeOK
    <3>2. rows' \subseteq rows \/ rows' \subseteq Deleted(rows, row) \cup {row}
      BY <2>3
    <3> QED
      BY <3>1, <3>2 DEF TypeOK
  <2>6. (\A r, s \in rows : Key(r) = Key(s) => r = s)'
    BY <2>5 DEF Key
  <2> QED
    BY <2>1, <2>4, <2>6 DEF TypeOK
<1>3. ASSUME NEW url \in Urls, CookiesForUrl(url)
      PROVE  TypeOK'
  <2>1. /\ rows' \subseteq rows /\ reply' \subseteq rows /\ looked' = url
        /\ UNCHANGED <<now, todo, origin, started, written>>
    BY <1>3 DEF CookiesForUrl, Removed, Found, Matching
  <2>2. \A r, s \in rows' : Key(r) = Key(s) => r = s
    BY <2>1 DEF TypeOK
  <2>3. (\A r, s \in rows : Key(r) = Key(s) => r = s)'
    BY <2>2 DEF Key
  <2> QED
    BY <2>1, <2>3 DEF TypeOK
<1>4. ASSUME Tick
      PROVE  TypeOK'
  <2>1. /\ now' \in 0..MaxTime /\ started' \in 0..now' /\ looked' = NoUrl /\ reply' = {}
        /\ UNCHANGED <<rows, todo, origin, written>>
    BY <1>4, ClockAssumption DEF Tick, TypeOK
  <2>2. (\A r, s \in rows : Key(r) = Key(s) => r = s)'
    BY <2>1 DEF TypeOK, Key
  <2> QED
    BY <2>1, <2>2 DEF TypeOK
<1>5. CASE UNCHANGED vars
  <2>1. (\A r, s \in rows : Key(r) = Key(s) => r = s)'
    BY <1>5 DEF TypeOK, Key, vars
  <2> QED
    BY <1>5, <2>1 DEF vars, TypeOK
<1> QED
  BY <1>1, <1>2, <1>3, <1>4, <1>5 DEF Next

\* What a lookup finds belongs to the site of its host.
LEMMA FoundIsShared ==
    ASSUME TypeOK, RowsAreOwn, NEW url \in Urls, NEW at, NEW r \in Found(rows, url, at)
    PROVE  SharedDomain(r, url.host)
<1>1. r \in rows /\ r.domain \in QualifiedDomains(url.host)
  BY DEF Found, Matching
<1>2. url.host \in Seq(STRING) /\ url.host # <<>>
  BY UrlFacts
<1>3. IsSuffix(r.domain.labels, url.host)
      /\ (Len(r.domain.labels) >= 2 \/ r.domain.labels = url.host)
  BY <1>1, <1>2, QualifiedFacts
<1>4. r.by \in Seq(STRING) /\ CheckDomain(r.domain, r.by)
  BY <1>1 DEF TypeOK, Rows, RowsAreOwn
<1>5. IsSuffix(r.domain.labels, r.by) \/ r.by = url.host
  <2>1. CASE r.by = <<>>
    <3>1. IsSuffix(r.by, r.by)
      <4>1. Reverse(<<>>) = <<>>
        BY DEF Reverse
      <4> QED
        BY <2>1, <4>1 DEF IsSuffix, IsPrefix
    <3> QED
      BY <1>4, <3>1 DEF CheckDomain, IsStrictSuffix
  <2>2. CASE r.by # <<>>
    BY <1>4, <2>2, CheckedIsSuffix
  <2> QED
    BY <2>1, <2>2
<1> QED
  BY <1>3, <1>5 DEF SharedDomain

LEMMA SitesInit == Init => IInv
BY TypeInit DEF Init, IInv, RowsAreOwn, CookiesStayInTheirSite

LEMMA SitesNext == IInv /\ [Next]_vars => IInv'
<1> SUFFICES ASSUME IInv, [Next]_vars
             PROVE  IInv'
  OBVIOUS
<1>0. TypeOK /\ TypeOK'
  BY TypeNext DEF IInv
<1>1. ASSUME NEW url \in Urls, NEW list \in Lists, SetCookies(url, list)
      PROVE  RowsAreOwn' /\ CookiesStayInTheirSite'
  BY <1>1 DEF SetCookies, IInv, RowsAreOwn, CookiesStayInTheirSite
<1>2. ASSUME StoreCookie
      PROVE  RowsAreOwn' /\ CookiesStayInTheirSite'
  <2> DEFINE cookie == Head(todo)
             row == Row(cookie, origin)
  <2>1. todo # <<>> /\ cookie \in Cookies /\ origin \in Urls /\ UNCHANGED <<looked, reply>>
    BY <1>0, <1>2, FirstCookie DEF StoreCookie, TypeOK
  <2>2. row.by = origin.host /\ row.domain = DomainOf(cookie, origin)
    BY <2>1, RowFacts
  <2>3. \/ rows' \subseteq rows
        \/ Accepted(cookie, origin) /\ rows' \subseteq rows \cup {row}
    BY <1>2 DEF StoreCookie, Deleted
  <2> HIDE DEF row
  <2>4. Accepted(cookie, origin) => CheckDomain(row.domain, row.by)
    BY <2>2 DEF Accepted
  <2>5. RowsAreOwn'
    BY <2>3, <2>4 DEF RowsAreOwn, IInv
  <2>6. CookiesStayInTheirSite'
    BY <2>1 DEF IInv, CookiesStayInTheirSite
  <2> QED
    BY <2>5, <2>6
<1>3. ASSUME NEW url \in Urls, CookiesForUrl(url)
      PROVE  RowsAreOwn' /\ CookiesStayInTheirSite'
  <2>1. rows' \subseteq rows /\ reply' = Found(rows, url, now) /\ looked' = url
    BY <1>3 DEF CookiesForUrl, Removed
  <2>2. RowsAreOwn'
    BY <2>1 DEF RowsAreOwn, IInv
  <2>3. \A r \in reply' : SharedDomain(r, url.host)
    BY <2>1, FoundIsShared DEF IInv
  <2> QED
    BY <2>1, <2>2, <2>3 DEF CookiesStayInTheirSite
<1>4. CASE Tick
  BY <1>0, <1>4 DEF Tick, IInv, RowsAreOwn, CookiesStayInTheirSite
<1>5. CASE UNCHANGED vars
  BY <1>0, <1>5 DEF vars, IInv, RowsAreOwn, CookiesStayInTheirSite
<1> QED
  BY <1>0, <1>1, <1>2, <1>3, <1>4, <1>5 DEF Next, IInv

\* Every variable keeps its type, and no two rows of the table share domain,
\* path and name (TypeOK).
THEOREM CookieTypeCorrectness == Spec => []TypeOK
<1>1. Init => TypeOK
  BY TypeInit
<1>2. TypeOK /\ [Next]_vars => TypeOK'
  BY TypeNext
<1> QED
  BY <1>1, <1>2, PTL DEF Spec

\* A cookie is handed out only to the host that has set it, below a domain of at
\* least two labels that both share, or to the host that is the domain, although
\* setCookiesFromUrl and cookiesForUrl compute domains in different ways
\* (CookiesStayInTheirSite).
THEOREM SitesAreIsolated == Spec => []CookiesStayInTheirSite
<1>1. Init => IInv
  BY SitesInit
<1>2. IInv /\ [Next]_vars => IInv'
  BY SitesNext
<1>3. IInv => CookiesStayInTheirSite
  BY DEF IInv
<1> QED
  BY <1>1, <1>2, <1>3, PTL DEF Spec

-----------------------------------------------------------------------------
\* Where Qt leaves domains as they are

\* Only expired cookies that match are taken out, and all of them.
LEMMA RemovesTheExpired ==
    ASSUME ~DotAdded, TypeOK, NEW url \in Urls, CookiesForUrl(url)
    PROVE  /\ rows' \subseteq rows
           /\ \A r \in rows \ rows' : r \in Matching(rows, url) /\ Expired(r, now)
           /\ \A r \in rows' : r \in Matching(rows, url) => ~Expired(r, now)
<1> DEFINE dead == Matching(rows, url) \ Found(rows, url, now)
<1>1. \A r \in rows : Key([r EXCEPT !.domain = Parsed(@)]) = Key(r)
  BY DEF Parsed, Key, TypeOK, Rows
<1>2. dead \subseteq rows /\ \A r \in rows : r \in dead <=> r \in Matching(rows, url)
                                                          /\ Expired(r, now)
  BY DEF Found, Matching
<1> HIDE DEF dead
<1>3. rows' = {s \in rows : \A r \in dead : Key(s) # Key(r)}
  BY <1>1, <1>2 DEF CookiesForUrl, Removed, dead
<1> QED
  BY <1>2, <1>3 DEF TypeOK

\* A row that setCookiesFromUrl has written is one that lookups of its URL find.
LEMMA WrittenIsFound ==
    ASSUME TypeOK, NEW w \in [row : Rows, url : Urls], LastWritten(w)
    PROVE  \/ w.row.secure /\ ~w.url.https
           \/ Len(w.row.domain.labels) < 2 /\ w.row.domain.labels # w.url.host
           \/ Expired(w.row, now)
           \/ w.row \in Found(rows, w.url, now)
<1> SUFFICES ASSUME ~(w.row.secure /\ ~w.url.https), ~Expired(w.row, now),
                    ~(Len(w.row.domain.labels) < 2 /\ w.row.domain.labels # w.url.host)
             PROVE  w.row \in Found(rows, w.url, now)
  OBVIOUS
<1>1. /\ w.row \in rows /\ w.url \in Urls /\ w.row.domain \in Domains
      /\ CheckDomain(w.row.domain, w.url.host) /\ CheckPath(w.row.path, w.url)
  BY DEF LastWritten, Rows
<1>2. Len(w.row.domain.labels) \in Nat
  BY <1>1 DEF Domains
<1>3. w.row.domain \in QualifiedDomains(w.url.host)
  <2>1. Len(w.row.domain.labels) >= 2 \/ w.row.domain.labels = w.url.host
    BY <1>2
  <2> QED
    BY <1>1, <2>1, UrlFacts, CheckedIsVisited
<1> QED
  BY <1>1, <1>3 DEF Found, Matching

LEMMA ExactInit == Init => ExactInv
BY SitesInit DEF Init, ExactInv, NoLookupMeanwhile, ExpiredSeenAreRemoved

LEMMA ExpiryIsForGood ==
    ASSUME NEW r \in Rows, NEW t \in Int, Expired(r, t)
    PROVE  Expired(r, t + 1)
BY DEF Expired, Rows

LEMMA ExactNext ==
    ASSUME ~DotAdded
    PROVE  ExactInv /\ [Next]_vars => ExactInv'
<1> SUFFICES ASSUME ExactInv, [Next]_vars
             PROVE  ExactInv'
  OBVIOUS
<1>0. IInv' /\ TypeOK /\ TypeOK' /\ now \in Int
  BY SitesNext, TypeNext, ClockAssumption DEF ExactInv, IInv, TypeOK
<1>1. ASSUME NEW url \in Urls, NEW list \in Lists, SetCookies(url, list)
      PROVE  ExactInv'
  BY <1>0, <1>1 DEF SetCookies, ExactInv, NoLookupMeanwhile, ExpiredSeenAreRemoved
<1>2. ASSUME StoreCookie
      PROVE  ExactInv'
  <2> DEFINE cookie == Head(todo)
             row == Row(cookie, origin)
  <2>1. /\ todo # <<>> /\ cookie \in Cookies /\ origin \in Urls /\ looked = NoUrl
        /\ UNCHANGED <<now, looked>>
    BY <1>0, <1>2, FirstCookie DEF StoreCookie, TypeOK, ExactInv, NoLookupMeanwhile
  <2>2. /\ row.domain = DomainOf(cookie, origin) /\ row.path = PathOf(cookie, origin)
        /\ Accepted(cookie, origin) => CheckPath(PathOf(cookie, origin), origin)
    BY <2>1, RowFacts, PathFacts
  <2>3. \/ UNCHANGED <<rows, written>>
        \/ written' = {}
        \/ /\ Accepted(cookie, origin)
           /\ row \in rows' /\ written' = {[row |-> row, url |-> origin]}
    BY <1>2 DEF StoreCookie
  <2> HIDE DEF row, cookie
  <2>4. \A w \in written' : LastWritten(w)'
    <3>1. CASE UNCHANGED <<rows, written>>
      BY <2>1, <3>1 DEF ExactInv, LastWritten
    <3>2. CASE written' = {}
      BY <3>2
    <3>3. CASE /\ Accepted(cookie, origin)
               /\ row \in rows' /\ written' = {[row |-> row, url |-> origin]}
      BY <2>2, <3>3 DEF LastWritten, Accepted
    <3> QED
      BY <2>3, <3>1, <3>2, <3>3
  <2>5. NoLookupMeanwhile' /\ ExpiredSeenAreRemoved'
    BY <2>1 DEF NoLookupMeanwhile, ExpiredSeenAreRemoved
  <2> QED
    BY <1>0, <2>4, <2>5 DEF ExactInv
<1>3. ASSUME NEW url \in Urls, CookiesForUrl(url)
      PROVE  ExactInv'
  <2>1. /\ rows' \subseteq rows
        /\ \A r \in rows \ rows' : r \in Matching(rows, url) /\ Expired(r, now)
        /\ \A r \in rows' : r \in Matching(rows, url) => ~Expired(r, now)
    BY <1>0, <1>3, RemovesTheExpired
  <2>2. todo' = <<>> /\ looked' = url /\ UNCHANGED <<now, written>>
    BY <1>3 DEF CookiesForUrl
  <2>3. \A w \in written' : LastWritten(w)'
    BY <2>1, <2>2 DEF ExactInv, LastWritten
  <2>4. ExpiredSeenAreRemoved'
    <3>1. \A r \in Matching(rows', url) : r \in Matching(rows, url) /\ r \in rows'
      BY <2>1 DEF Matching
    <3> QED
      BY <2>1, <2>2, <3>1 DEF ExpiredSeenAreRemoved
  <2> QED
    BY <1>0, <2>2, <2>3, <2>4 DEF ExactInv, NoLookupMeanwhile
<1>4. ASSUME Tick
      PROVE  ExactInv'
  <2>1. now' = now + 1 /\ looked' = NoUrl /\ UNCHANGED <<rows, todo, written>>
    BY <1>4 DEF Tick
  <2>2. \A w \in written : w.row \in Rows
    BY <1>0 DEF TypeOK
  <2>3. \A w \in written' : LastWritten(w)'
    BY <1>0, <2>1, <2>2, ExpiryIsForGood DEF ExactInv, LastWritten
  <2> QED
    BY <1>0, <2>1, <2>3 DEF ExactInv, NoLookupMeanwhile, ExpiredSeenAreRemoved
<1>5. CASE UNCHANGED vars
  <2>1. UNCHANGED <<rows, now, todo, looked, written>>
    BY <1>5 DEF vars
  <2>2. \A w \in written' : LastWritten(w)'
    BY <2>1 DEF ExactInv, LastWritten
  <2>3. NoLookupMeanwhile' /\ ExpiredSeenAreRemoved'
    BY <2>1 DEF ExactInv, NoLookupMeanwhile, ExpiredSeenAreRemoved
  <2> QED
    BY <1>0, <2>2, <2>3 DEF ExactInv
<1> QED
  BY <1>1, <1>2, <1>3, <1>4, <1>5 DEF Next

\* A cookie that was stored is found for its URL until it expires or is replaced,
\* whatever was looked up and removed since (WritesAreFound).
THEOREM StoredCookiesAreFound ==
    ASSUME ~DotAdded
    PROVE  Spec => []WritesAreFound
<1>1. Init => ExactInv
  BY ExactInit
<1>2. ExactInv /\ [Next]_vars => ExactInv'
  BY ExactNext
<1>3. ExactInv => WritesAreFound
  <2> SUFFICES ASSUME ExactInv, NEW w \in written
               PROVE  \/ w.row.secure /\ ~w.url.https
                      \/ Len(w.row.domain.labels) < 2 /\ w.row.domain.labels # w.url.host
                      \/ Expired(w.row, now)
                      \/ w.row \in Found(rows, w.url, now)
    BY DEF WritesAreFound
  <2>1. TypeOK /\ w \in [row : Rows, url : Urls] /\ LastWritten(w)
    BY DEF ExactInv, IInv, TypeOK
  <2> QED
    BY <2>1, WrittenIsFound
<1> QED
  BY <1>1, <1>2, <1>3, PTL DEF Spec

\* After a lookup no expired cookie that it came across is left in the table
\* (ExpiredSeenAreRemoved).
THEOREM ExpiredCookiesAreRemoved ==
    ASSUME ~DotAdded
    PROVE  Spec => []ExpiredSeenAreRemoved
<1>1. Init => ExactInv
  BY ExactInit
<1>2. ExactInv /\ [Next]_vars => ExactInv'
  BY ExactNext
<1>3. ExactInv => ExpiredSeenAreRemoved
  BY DEF ExactInv
<1> QED
  BY <1>1, <1>2, <1>3, PTL DEF Spec

\* A lookup takes nothing out of the table but expired cookies, although it
\* deletes by key (LookupsRemoveOnlyExpired).
THEOREM LookupsSpareTheRest ==
    ASSUME ~DotAdded
    PROVE  Spec => LookupsRemoveOnlyExpired
<1> DEFINE Spares == looked' # NoUrl => \A r \in rows \ rows' : Expired(r, now)
<1>1. Init => ExactInv
  BY ExactInit
<1>2. ExactInv /\ [Next]_vars => ExactInv'
  BY ExactNext
<1>3. ExactInv /\ [Next]_vars => [Spares]_vars
  <2> SUFFICES ASSUME ExactInv, Next
               PROVE  Spares
    OBVIOUS
  <2>1. ASSUME NEW url \in Urls, CookiesForUrl(url)
        PROVE  Spares
    <3>1. \A r \in rows \ rows' : Expired(r, now)
      BY <2>1, RemovesTheExpired DEF ExactInv, IInv
    <3> QED
      BY <3>1
  <2>2. CASE StoreCookie
    BY <2>2 DEF StoreCookie, ExactInv, NoLookupMeanwhile
  <2>3. CASE Tick \/ \E url \in Urls, list \in Lists : SetCookies(url, list)
    BY <2>3 DEF Tick, SetCookies
  <2> QED
    BY <2>1, <2>2, <2>3 DEF Next
<1> QED
  BY <1>1, <1>2, <1>3, PTL DEF Spec, LookupsRemoveOnlyExpired
=============================================================================
