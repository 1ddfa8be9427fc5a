--------------------------- MODULE DownloadProofs ---------------------------
(***************************************************************************)
(* Downloads, for any web apps, fetches, names and sizes: a file holds the *)
(* answer without gap or repetition, and all of it once it is closed; no   *)
(* two downloads write one file.  The argument is about the messages on    *)
(* the way to the storage process: those about one download go on from     *)
(* what its file holds to what its downloader has read, whatever messages  *)
(* about other downloads come between them.  What the UI calls finished is *)
(* stored, and no download of a web app that lives stays unfinished for    *)
(* good.                                                                   *)
(***************************************************************************)
EXTENDS Download, FiniteSetTheorems, SequenceTheorems, WellFoundedInduction, TLAPS

-----------------------------------------------------------------------------
\* The name of a new file

LEMMA NatMinimum ==
    ASSUME NEW S \in SUBSET Nat, S # {}
    PROVE  \E x \in S : \A y \in S : x <= y
<1>1. IsWellFoundedOn(OpToRel(<, Nat), Nat)
  BY NatLessThanWellFounded, Zenon
<1>2. PICK x \in S : \A y \in S : ~ (<<y, x>> \in OpToRel(<, Nat))
  BY <1>1, WFMin, Zenon
<1>3. \A y \in S : ~ (y < x)
  BY <1>2 DEF OpToRel
<1> QED
  BY <1>3

\* One of the numbers 0..n is free if there are n files, and one is the first:
\* the loop over QFile::exists ends, with a name that no file has.
LEMMA ActualNameIsFree ==
    ASSUME IsFiniteSet(disk), NEW base \in Names \cup {NoName}
    PROVE  ActualName(base) \in FileNames /\ ActualName(base) \notin disk
<1> DEFINE n == Cardinality(disk)
           Numbered == [i \in 0..n |-> <<base, i>>]
           Free == {i \in 0..n : <<base, i>> \notin disk}
           First(i) == <<base, i>> \notin disk /\ \A j \in 0..(i - 1) : <<base, j>> \in disk
<1>1. n \in Nat
  BY FS_CardinalityType
<1>2. Free # {}
  <2> SUFFICES ASSUME \A i \in 0..n : <<base, i>> \in disk PROVE FALSE
    OBVIOUS
  <2>1. Numbered \in Injection(0..n, disk)
    BY DEF Injection, IsInjective
  <2>2. Cardinality(0..n) <= Cardinality(disk)
    BY <2>1, FS_Injection
  <2>3. Cardinality(0..n) = n + 1
    BY <1>1, FS_Interval
  <2> QED
    BY <1>1, <2>2, <2>3
<1>3. Free \in SUBSET Nat
  BY <1>1
<1>4. PICK i \in Free : \A j \in Free : i <= j
  <2> HIDE DEF Free
  <2> QED
    BY <1>2, <1>3, NatMinimum
<1>5. First(i)
  BY <1>1, <1>4
<1> DEFINE number == CHOOSE k \in 0..n : First(k)
<1>6. number \in 0..n /\ First(number)
  <2> HIDE DEF First
  <2> QED
    BY <1>4, <1>5
<1>7. ActualName(base) = <<base, number>>
  BY DEF ActualName
<1>8. number \in Nat /\ <<base, number>> \notin disk
  BY <1>1, <1>6
<1> HIDE DEF number
<1> QED
  BY <1>7, <1>8 DEF FileNames

-----------------------------------------------------------------------------
\* The pipe to the storage process

Requests == [file : Nat, part : Parts]

\* What a request is determines which fields it has.
LEMMA PartFacts ==
    ASSUME NEW part \in Parts
    PROVE  /\ part.what \in {"start", "data", "end"}
           /\ part.what = "start" => part.name \in Names
           /\ part.what = "data" => part.from \in Nat /\ part.to \in Nat
BY DEF Parts

\* The messages of q, seen as a function
LEMMA PipeFacts ==
    ASSUME NEW q \in Seq(Requests)
    PROVE  /\ Len(q) \in Nat
           /\ DOMAIN q = 1..Len(q)
           /\ \A i \in DOMAIN q : q[i] \in Requests /\ q[i].file \in Nat /\ q[i].part \in Parts
<1>1. Len(q) \in Nat /\ DOMAIN q = 1..Len(q)
  OBVIOUS
<1>2. \A i \in DOMAIN q : q[i] \in Requests
  BY <1>1, ElementOfSeq
<1> QED
  BY <1>1, <1>2 DEF Requests

LEMMA OneMore ==
    ASSUME NEW q \in Seq(Requests), NEW m \in Requests
    PROVE  LET t == Append(q, m) IN
           /\ t \in Seq(Requests)
           /\ Len(q) \in Nat /\ DOMAIN q = 1..Len(q)
           /\ DOMAIN t = 1..(Len(q) + 1)
           /\ t[Len(q) + 1] = m
           /\ \A i \in DOMAIN q : t[i] = q[i]
<1>1. Append(q, m) \in Seq(Requests) /\ Len(Append(q, m)) = Len(q) + 1
  BY AppendProperties
<1>2. DOMAIN Append(q, m) = 1..(Len(q) + 1) /\ DOMAIN q = 1..Len(q) /\ Len(q) \in Nat
  BY <1>1, LenProperties
<1> QED
  BY <1>1, <1>2, AppendProperties

LEMMA SomeMore ==
    ASSUME NEW q \in Seq(Requests), NEW s \in Seq(Requests)
    PROVE  LET t == q \o s IN
           /\ t \in Seq(Requests)
           /\ \A i \in DOMAIN q : i \in DOMAIN t /\ t[i] = q[i]
           /\ \A i \in DOMAIN t : i \in DOMAIN q \/ \E j \in DOMAIN s : t[i] = s[j]
<1> DEFINE t == q \o s
<1>1. /\ DOMAIN q = 1..Len(q) /\ Len(q) \in Nat
      /\ DOMAIN s = 1..Len(s) /\ Len(s) \in Nat
  BY LenProperties
<1>2. t \in Seq(Requests) /\ Len(t) = Len(q) + Len(s)
  BY ConcatProperties
<1>3. DOMAIN t = 1..(Len(q) + Len(s))
  BY <1>2, LenProperties
<1>4. \A i \in 1..(Len(q) + Len(s)) : t[i] = IF i <= Len(q) THEN q[i] ELSE s[i - Len(q)]
  BY ConcatProperties
<1> HIDE DEF t
<1>5. \A i \in DOMAIN q : i \in DOMAIN t /\ t[i] = q[i]
  BY <1>1, <1>3, <1>4
<1>6. \A i \in DOMAIN t : i \in DOMAIN q \/ \E j \in DOMAIN s : t[i] = s[j]
  <2> TAKE i \in DOMAIN t
  <2>1. CASE i <= Len(q)
    BY <1>1, <1>3, <2>1
  <2>2. CASE ~(i <= Len(q))
    <3>1. i - Len(q) \in DOMAIN s /\ t[i] = s[i - Len(q)]
      BY <1>1, <1>3, <1>4, <2>2
    <3> QED
      BY <3>1
  <2> QED
    BY <2>1, <2>2
<1> QED
  BY <1>2, <1>5, <1>6 DEF t

LEMMA OneLess ==
    ASSUME NEW q \in Seq(Requests), q # <<>>
    PROVE  LET t == Tail(q) IN
           /\ t \in Seq(Requests)
           /\ Len(q) \in Nat \ {0} /\ DOMAIN q = 1..Len(q)
           /\ DOMAIN t = 1..(Len(q) - 1)
           /\ Head(q) = q[1] /\ q[1] \in Requests
           /\ \A i \in DOMAIN t : t[i] = q[i + 1]
<1>1. Len(q) \in Nat \ {0} /\ DOMAIN q = 1..Len(q) /\ Head(q) = q[1]
  OBVIOUS
<1>2. Tail(q) \in Seq(Requests) /\ Len(Tail(q)) = Len(q) - 1
  BY HeadTailProperties
<1>3. DOMAIN Tail(q) = 1..(Len(q) - 1)
  BY <1>2, LenProperties
<1>4. q[1] \in Requests
  BY <1>1, ElementOfSeq
<1> QED
  BY <1>1, <1>2, <1>3, <1>4, HeadTailProperties

LEMMA ABeginning ==
    ASSUME NEW q \in Seq(Requests), NEW n \in 0..Len(q)
    PROVE  LET t == SubSeq(q, 1, n) IN
           /\ t \in Seq(Requests)
           /\ DOMAIN t = 1..n /\ DOMAIN t \subseteq DOMAIN q
           /\ \A i \in DOMAIN t : t[i] = q[i]
<1>1. DOMAIN q = 1..Len(q) /\ Len(q) \in Nat /\ n \in Nat
  OBVIOUS
<1>2. \A i \in 1..n : q[i] \in Requests
  BY <1>1, ElementOfSeq
<1>3. /\ SubSeq(q, 1, n) \in Seq(Requests)
      /\ Len(SubSeq(q, 1, n)) = n
      /\ \A i \in 1..n : SubSeq(q, 1, n)[i] = q[i]
  BY <1>1, <1>2, SubSeqProperties
<1> QED
  BY <1>1, <1>3, LenProperties
-----------------------------------------------------------------------------
\* A message is added

LEMMA AddOther ==
    ASSUME NEW q \in Seq(Requests), NEW m \in Seq(Requests), NEW file,
           \A i \in DOMAIN m : m[i].file # file
    PROVE  LET t == q \o m IN
           /\ About(t, file) = About(q, file)
           /\ \A w : Of(t, file, w) = Of(q, file, w)
           /\ \A o \in BOOLEAN : StartFirstEndLast(q, file, o) => StartFirstEndLast(t, file, o)
           /\ \A s : GoOn(q, file, s) => GoOn(t, file, s)
           /\ \A s, r : Reach(q, file, s, r) => Reach(t, file, s, r)
<1> DEFINE t == q \o m
<1>1. /\ \A i \in DOMAIN q : i \in DOMAIN t /\ t[i] = q[i]
      /\ \A i \in DOMAIN t : i \in DOMAIN q \/ t[i].file # file
  BY SomeMore
<1> HIDE DEF t
<1>2. About(t, file) = About(q, file) /\ \A i \in About(q, file) : t[i] = q[i]
  BY <1>1 DEF About
<1>3. \A w : Of(t, file, w) = Of(q, file, w) /\ \A i \in Of(q, file, w) : t[i] = q[i]
  BY <1>2 DEF Of
<1>4. ASSUME NEW o \in BOOLEAN, StartFirstEndLast(q, file, o)
      PROVE  StartFirstEndLast(t, file, o)
  BY <1>2, <1>3, <1>4 DEF StartFirstEndLast
<1>5. ASSUME NEW s, GoOn(q, file, s) PROVE GoOn(t, file, s)
  BY <1>3, <1>5 DEF GoOn
<1>6. ASSUME NEW s, NEW r, Reach(q, file, s, r) PROVE Reach(t, file, s, r)
  BY <1>3, <1>6 DEF Reach
<1> QED
  BY <1>2, <1>3, <1>4, <1>5, <1>6 DEF t

\* The start of a download that nobody has heard of
LEMMA AddStart ==
    ASSUME NEW q \in Seq(Requests), NEW m \in Requests, NEW file,
           m.file = file, m.part.what = "start", About(q, file) = {}
    PROVE  LET t == Append(q, m) IN
           /\ Of(t, file, "start") # {}
           /\ Of(t, file, "end") = {}
           /\ StartFirstEndLast(t, file, FALSE)
           /\ \A s : GoOn(t, file, s) /\ Reach(t, file, s, s)
<1> DEFINE t == Append(q, m)
<1>1. /\ DOMAIN q = 1..Len(q) /\ DOMAIN t = 1..(Len(q) + 1) /\ Len(q) \in Nat
      /\ t[Len(q) + 1] = m
      /\ \A i \in DOMAIN q : t[i] = q[i]
  BY OneMore
<1> HIDE DEF t
<1>2. About(t, file) = {Len(q) + 1}
  BY <1>1 DEF About
<1>3. /\ Of(t, file, "start") = {Len(q) + 1}
      /\ Of(t, file, "data") = {} /\ Of(t, file, "end") = {}
  BY <1>1, <1>2 DEF Of
<1>4. StartFirstEndLast(t, file, FALSE)
  BY <1>1, <1>2, <1>3 DEF StartFirstEndLast
<1>5. \A s : GoOn(t, file, s) /\ Reach(t, file, s, s)
  BY <1>3 DEF GoOn, Reach
<1> QED
  BY <1>3, <1>4, <1>5 DEF t

\* Data goes on after chunk r.
LEMMA AddData ==
    ASSUME NEW q \in Seq(Requests), NEW m \in Requests, NEW file, NEW o \in BOOLEAN,
           NEW r \in Nat, m.file = file, m.part.what = "data",
           m.part.from = r + 1, m.part.to \in Nat, r + 1 <= m.part.to,
           StartFirstEndLast(q, file, o), Of(q, file, "end") = {},
           o \/ Of(q, file, "start") # {}
    PROVE  LET t == Append(q, m) IN
           /\ o \/ Of(t, file, "start") # {}
           /\ Of(t, file, "end") = {}
           /\ StartFirstEndLast(t, file, o)
           /\ \A s \in Nat : GoOn(q, file, s) /\ Reach(q, file, s, r)
                                => GoOn(t, file, s) /\ Reach(t, file, s, m.part.to)
<1> DEFINE t == Append(q, m)
           n == Len(q) + 1
<1>1. /\ DOMAIN q = 1..Len(q) /\ DOMAIN t = 1..n /\ Len(q) \in Nat
      /\ t[n] = m
      /\ \A i \in DOMAIN q : t[i] = q[i] /\ q[i].part \in Parts
  BY OneMore, PipeFacts
<1> HIDE DEF t
<1>2. /\ About(t, file) = About(q, file) \cup {n}
      /\ \A i \in About(q, file) : t[i] = q[i] /\ i < n /\ i \in Nat
  BY <1>1 DEF About
<1>3. /\ Of(t, file, "start") = Of(q, file, "start") /\ Of(t, file, "end") = {}
      /\ Of(t, file, "data") = Of(q, file, "data") \cup {n}
      /\ \A i \in Of(q, file, "data") : t[i] = q[i] /\ i < n /\ i \in Nat
      /\ \A i \in Of(q, file, "start") : i < n
      /\ \A i \in About(q, file) : q[i].part.what # "end"
  BY <1>1, <1>2 DEF Of
<1>4. StartFirstEndLast(t, file, o)
  <2> SUFFICES ASSUME NEW i \in About(t, file)
               PROVE  /\ IF t[i].part.what = "start"
                         THEN ~o /\ \A j \in About(t, file) : i <= j
                         ELSE o \/ \E j \in Of(t, file, "start") : j < i
                      /\ t[i].part.what = "end" => \A j \in About(t, file) : j <= i
    BY DEF StartFirstEndLast
  <2>1. CASE i = n
    BY <1>1, <1>3, <2>1
  <2>2. CASE i \in About(q, file)
    BY <1>2, <1>3, <2>2 DEF StartFirstEndLast
  <2> QED
    BY <1>2, <2>1, <2>2
<1>5. ASSUME NEW s \in Nat, GoOn(q, file, s), Reach(q, file, s, r)
      PROVE  GoOn(t, file, s) /\ Reach(t, file, s, m.part.to)
  <2>1. \A i \in Of(q, file, "data") :
           q[i].part.from \in Nat /\ q[i].part.to \in Nat /\ q[i].part.to <= r
    BY <1>1, <1>5, PartFacts DEF Of, About, Reach
  <2>2. r = s \/ \E j \in Of(q, file, "data") : q[j].part.to = r
    BY <1>5 DEF Reach
  <2>3. Reach(t, file, s, m.part.to)
    BY <1>1, <1>3, <2>1 DEF Reach
  <2>4. \A i \in Of(t, file, "data") :
           /\ t[i].part.from <= t[i].part.to
           /\ \/ t[i].part.from = s + 1
              \/ \E j \in Of(t, file, "data") : j < i /\ t[j].part.to = t[i].part.from - 1
    <3> TAKE i \in Of(t, file, "data")
    <3>1. CASE i = n
      BY <1>1, <1>3, <2>2, <3>1
    <3>2. CASE i \in Of(q, file, "data")
      BY <1>3, <1>5, <3>2 DEF GoOn
    <3> QED
      BY <1>3, <3>1, <3>2
  <2>5. \A i, j \in Of(t, file, "data") : i < j => t[i].part.to < t[j].part.from
    <3> SUFFICES ASSUME NEW i \in Of(t, file, "data"), NEW j \in Of(t, file, "data"), i < j
                 PROVE  t[i].part.to < t[j].part.from
      OBVIOUS
    <3>1. i \in Of(q, file, "data")
      BY <1>1, <1>3
    <3>2. t[i].part.to \in Nat /\ t[i].part.to <= r
      BY <1>3, <2>1, <3>1
    <3>3. CASE j = n
      <4>1. t[j].part.from = r + 1
        BY <1>1, <3>3
      <4> QED
        BY <3>2, <4>1
    <3>4. CASE j \in Of(q, file, "data")
      BY <1>3, <1>5, <3>1, <3>4 DEF GoOn
    <3> QED
      BY <1>3, <3>3, <3>4
  <2> QED
    BY <2>3, <2>4, <2>5 DEF GoOn
<1> QED
  BY <1>3, <1>4, <1>5 DEF t

LEMMA AddEnd ==
    ASSUME NEW q \in Seq(Requests), NEW m \in Requests, NEW file, NEW o \in BOOLEAN,
           m.file = file, m.part.what = "end",
           StartFirstEndLast(q, file, o), Of(q, file, "end") = {},
           o \/ Of(q, file, "start") # {}
    PROVE  LET t == Append(q, m) IN
           /\ o \/ Of(t, file, "start") # {}
           /\ StartFirstEndLast(t, file, o)
           /\ \A s : GoOn(q, file, s) => GoOn(t, file, s)
           /\ \A s, r : Reach(q, file, s, r) => Reach(t, file, s, r)
<1> DEFINE t == Append(q, m)
           n == Len(q) + 1
<1>1. /\ DOMAIN q = 1..Len(q) /\ DOMAIN t = 1..n /\ Len(q) \in Nat
      /\ t[n] = m
      /\ \A i \in DOMAIN q : t[i] = q[i]
  BY OneMore
<1> HIDE DEF t
<1>2. /\ About(t, file) = About(q, file) \cup {n}
      /\ \A i \in About(q, file) : t[i] = q[i] /\ i < n /\ i \in Nat
  BY <1>1 DEF About
<1>3. /\ Of(t, file, "start") = Of(q, file, "start")
      /\ Of(t, file, "data") = Of(q, file, "data")
      /\ \A i \in Of(q, file, "data") : t[i] = q[i]
      /\ \A i \in Of(q, file, "start") : i < n
      /\ \A i \in About(q, file) : q[i].part.what # "end"
  BY <1>1, <1>2 DEF Of
<1>4. StartFirstEndLast(t, file, o)
  <2> SUFFICES ASSUME NEW i \in About(t, file)
               PROVE  /\ IF t[i].part.what = "start"
                         THEN ~o /\ \A j \in About(t, file) : i <= j
                         ELSE o \/ \E j \in Of(t, file, "start") : j < i
                      /\ t[i].part.what = "end" => \A j \in About(t, file) : j <= i
    BY DEF StartFirstEndLast
  <2>1. CASE i = n
    BY <1>1, <1>2, <1>3, <2>1
  <2>2. CASE i \in About(q, file)
    BY <1>2, <1>3, <2>2 DEF StartFirstEndLast
  <2> QED
    BY <1>2, <2>1, <2>2
<1>5. ASSUME NEW s, GoOn(q, file, s) PROVE GoOn(t, file, s)
  BY <1>3, <1>5 DEF GoOn
<1>6. ASSUME NEW s, NEW r, Reach(q, file, s, r) PROVE Reach(t, file, s, r)
  BY <1>3, <1>6 DEF Reach
<1> QED
  BY <1>3, <1>4, <1>5, <1>6 DEF t
-----------------------------------------------------------------------------
\* The storage process takes the first message

\* The positions of the data messages move down by one, and none is lost.
LEMMA ShiftedData ==
    ASSUME NEW q, NEW t, NEW file,
           \A i \in Of(q, file, "data") :
              i \in Nat /\ i - 1 \in Of(t, file, "data") /\ t[i - 1] = q[i],
           \A i \in Of(t, file, "data") :
              i \in Nat /\ i + 1 \in Of(q, file, "data") /\ t[i] = q[i + 1]
    PROVE  /\ \A s : GoOn(q, file, s) => GoOn(t, file, s)
           /\ \A s, r : Reach(q, file, s, r) => Reach(t, file, s, r)
<1>1. ASSUME NEW s, GoOn(q, file, s) PROVE GoOn(t, file, s)
  <2>1. \A i \in Of(t, file, "data") :
           /\ t[i].part.from <= t[i].part.to
           /\ \/ t[i].part.from = s + 1
              \/ \E j \in Of(t, file, "data") : j < i /\ t[j].part.to = t[i].part.from - 1
    <3> TAKE i \in Of(t, file, "data")
    <3>1. i + 1 \in Of(q, file, "data") /\ t[i] = q[i + 1] /\ i \in Nat
      OBVIOUS
    <3>2. ASSUME NEW j \in Of(q, file, "data"), j < i + 1
          PROVE  j - 1 \in Of(t, file, "data") /\ j - 1 < i /\ t[j - 1] = q[j]
      <4>1. j \in Nat /\ i \in Nat
        BY <3>1
      <4> QED
        BY <3>2, <4>1
    <3> QED
      BY <1>1, <3>1, <3>2 DEF GoOn
  <2>2. \A i, j \in Of(t, file, "data") : i < j => t[i].part.to < t[j].part.from
    <3> TAKE i, j \in Of(t, file, "data")
    <3>1. /\ i + 1 \in Of(q, file, "data") /\ t[i] = q[i + 1] /\ i \in Nat
          /\ j + 1 \in Of(q, file, "data") /\ t[j] = q[j + 1] /\ j \in Nat
      OBVIOUS
    <3> QED
      BY <1>1, <3>1 DEF GoOn
  <2> QED
    BY <2>1, <2>2 DEF GoOn
<1>2. ASSUME NEW s, NEW r, Reach(q, file, s, r) PROVE Reach(t, file, s, r)
  BY <1>2 DEF Reach
<1> QED
  BY <1>1, <1>2

LEMMA TakeOther ==
    ASSUME NEW q \in Seq(Requests), q # <<>>, NEW file, Head(q).file # file
    PROVE  LET t == Tail(q) IN
           /\ \A w : Of(t, file, w) # {} <=> Of(q, file, w) # {}
           /\ About(t, file) # {} <=> About(q, file) # {}
           /\ \A o \in BOOLEAN : StartFirstEndLast(q, file, o) => StartFirstEndLast(t, file, o)
           /\ \A s : GoOn(q, file, s) => GoOn(t, file, s)
           /\ \A s, r : Reach(q, file, s, r) => Reach(t, file, s, r)
<1> DEFINE t == Tail(q)
<1>1. /\ DOMAIN q = 1..Len(q) /\ DOMAIN t = 1..(Len(q) - 1) /\ Len(q) \in Nat \ {0}
      /\ q[1].file # file
      /\ \A i \in DOMAIN t : t[i] = q[i + 1]
  BY OneLess
<1> HIDE DEF t
<1>2. \A i \in About(q, file) :
         i - 1 \in About(t, file) /\ t[i - 1] = q[i] /\ i \in Nat
  <2> TAKE i \in About(q, file)
  <2>1. i \in 1..Len(q) /\ q[i].file = file /\ i # 1
    BY <1>1 DEF About
  <2>2. i - 1 \in DOMAIN t /\ (i - 1) + 1 = i
    BY <1>1, <2>1
  <2>3. t[i - 1] = q[i]
    BY <1>1, <2>2
  <2> QED
    BY <2>1, <2>2, <2>3 DEF About
<1>3. \A i \in About(t, file) :
         i + 1 \in About(q, file) /\ t[i] = q[i + 1] /\ i \in Nat
  BY <1>1 DEF About
<1>4. /\ \A w : \A i \in Of(q, file, w) : i \in About(q, file) /\ i - 1 \in Of(t, file, w)
      /\ \A w : \A i \in Of(t, file, w) : i \in About(t, file) /\ i + 1 \in Of(q, file, w)
  BY <1>2, <1>3 DEF Of
<1>5. \A w : Of(t, file, w) # {} <=> Of(q, file, w) # {}
  BY <1>4
<1>6. About(t, file) # {} <=> About(q, file) # {}
  BY <1>2, <1>3
<1>7. ASSUME NEW o \in BOOLEAN, StartFirstEndLast(q, file, o)
      PROVE  StartFirstEndLast(t, file, o)
  <2> SUFFICES ASSUME NEW i \in About(t, file)
               PROVE  /\ IF t[i].part.what = "start"
                         THEN ~o /\ \A j \in About(t, file) : i <= j
                         ELSE o \/ \E j \in Of(t, file, "start") : j < i
                      /\ t[i].part.what = "end" => \A j \in About(t, file) : j <= i
    BY DEF StartFirstEndLast
  <2>1. /\ i + 1 \in About(q, file) /\ q[i + 1] = t[i] /\ i \in Nat
        /\ \A j \in About(t, file) : j + 1 \in About(q, file) /\ j \in Nat
    BY <1>3
  <2>2. /\ IF t[i].part.what = "start"
           THEN ~o /\ \A j \in About(q, file) : i + 1 <= j
           ELSE o \/ \E j \in Of(q, file, "start") : j < i + 1
        /\ t[i].part.what = "end" => \A j \in About(q, file) : j <= i + 1
    BY <1>7, <2>1 DEF StartFirstEndLast
  <2>3. ASSUME NEW j \in Of(q, file, "start"), j < i + 1
        PROVE  j - 1 \in Of(t, file, "start") /\ j - 1 < i
    <3>1. j \in Nat /\ j - 1 \in Of(t, file, "start")
      BY <1>2, <1>4
    <3> QED
      BY <2>1, <2>3, <3>1
  <2> QED
    BY <2>1, <2>2, <2>3
<1>8. /\ \A s : GoOn(q, file, s) => GoOn(t, file, s)
      /\ \A s, r : Reach(q, file, s, r) => Reach(t, file, s, r)
  <2>1. \A i \in Of(q, file, "data") :
           i \in Nat /\ i - 1 \in Of(t, file, "data") /\ t[i - 1] = q[i]
    BY <1>2, <1>4
  <2>2. \A i \in Of(t, file, "data") :
           i \in Nat /\ i + 1 \in Of(q, file, "data") /\ t[i] = q[i + 1]
    BY <1>3, <1>4
  <2> QED
    BY <2>1, <2>2, ShiftedData
<1> QED
  BY <1>5, <1>6, <1>7, <1>8 DEF t

Kinds == {"start", "data", "end"}

\* t is q without its first message, which is about the file: the positions of
\* the others move down by one.
Shifted(q, t, file) ==
    /\ 1 \in About(q, file)
    /\ q[1].part.what \in Kinds => 1 \in Of(q, file, q[1].part.what)
    /\ \A i \in About(t, file) :
          i \in Nat \ {0} /\ t[i] = q[i + 1] /\ i + 1 \in About(q, file)
    /\ \A i \in About(q, file) :
          i \in Nat \ {0} /\ (i # 1 => i - 1 \in About(t, file) /\ q[i] = t[i - 1])
    /\ \A w \in Kinds : \A i \in Of(t, file, w) :
          i + 1 \in Of(q, file, w) /\ i \in About(t, file) /\ t[i].part.what = w
    /\ \A w \in Kinds : \A i \in Of(q, file, w) :
          /\ i \in About(q, file) /\ q[i].part.what = w
          /\ i # 1 => i - 1 \in Of(t, file, w)

LEMMA TakeOwn ==
    ASSUME NEW q \in Seq(Requests), q # <<>>, NEW file, Head(q).file = file,
           NEW t, t = Tail(q)
    PROVE  Head(q) = q[1] /\ Shifted(q, t, file)
<1>1. /\ DOMAIN q = 1..Len(q) /\ DOMAIN t = 1..(Len(q) - 1) /\ Len(q) \in Nat \ {0}
      /\ Head(q) = q[1]
      /\ \A i \in DOMAIN t : t[i] = q[i + 1]
  BY OneLess
<1>2. 1 \in About(q, file)
  BY <1>1 DEF About
<1>3. \A i \in About(t, file) :
         i \in Nat \ {0} /\ t[i] = q[i + 1] /\ i + 1 \in About(q, file)
  BY <1>1 DEF About
<1>4. \A i \in About(q, file) :
         i \in Nat \ {0} /\ (i # 1 => i - 1 \in About(t, file) /\ q[i] = t[i - 1])
  <2> TAKE i \in About(q, file)
  <2>1. i \in 1..Len(q) /\ q[i].file = file
    BY <1>1 DEF About
  <2>2. ASSUME i # 1 PROVE i - 1 \in DOMAIN t /\ (i - 1) + 1 = i
    BY <1>1, <2>1, <2>2
  <2>3. ASSUME i # 1 PROVE t[i - 1] = q[i]
    BY <1>1, <2>2, <2>3
  <2> QED
    BY <2>1, <2>2, <2>3 DEF About
<1>5. 1 \in Of(q, file, q[1].part.what)
  BY <1>2 DEF Of
<1>6. \A w \in Kinds : \A i \in Of(t, file, w) :
         i + 1 \in Of(q, file, w) /\ i \in About(t, file) /\ t[i].part.what = w
  BY <1>3 DEF Of
<1>7. \A w \in Kinds : \A i \in Of(q, file, w) :
         /\ i \in About(q, file) /\ q[i].part.what = w
         /\ i # 1 => i - 1 \in Of(t, file, w)
  BY <1>4 DEF Of
<1> QED
  BY <1>1, <1>2, <1>3, <1>4, <1>5, <1>6, <1>7 DEF Shifted

LEMMA ShiftedKind ==
    ASSUME NEW q, NEW t, NEW file, Shifted(q, t, file), NEW w \in Kinds
    PROVE  /\ \A i \in Of(q, file, w) :
                 /\ i \in Nat \ {0} /\ q[i].part.what = w /\ i \in About(q, file)
                 /\ i # 1 => i - 1 \in Of(t, file, w) /\ t[i - 1] = q[i]
           /\ \A i \in Of(t, file, w) :
                 i \in Nat \ {0} /\ i + 1 \in Of(q, file, w) /\ t[i] = q[i + 1]
<1>1. ASSUME NEW i \in Of(q, file, w)
      PROVE  /\ i \in Nat \ {0} /\ q[i].part.what = w /\ i \in About(q, file)
             /\ i # 1 => i - 1 \in Of(t, file, w) /\ t[i - 1] = q[i]
  <2>1. i \in About(q, file) /\ q[i].part.what = w /\ (i # 1 => i - 1 \in Of(t, file, w))
    BY DEF Shifted
  <2> QED
    BY <2>1 DEF Shifted
<1>2. ASSUME NEW i \in Of(t, file, w)
      PROVE  i \in Nat \ {0} /\ i + 1 \in Of(q, file, w) /\ t[i] = q[i + 1]
  <2>1. i + 1 \in Of(q, file, w) /\ i \in About(t, file)
    BY DEF Shifted
  <2> QED
    BY <2>1 DEF Shifted
<1> QED
  BY <1>1, <1>2

\* An end stays the last message, and the end of t was one of q.
LEMMA EndsStayLast ==
    ASSUME NEW q, NEW t, NEW file, NEW o \in BOOLEAN,
           Shifted(q, t, file), StartFirstEndLast(q, file, o)
    PROVE  /\ Of(t, file, "end") # {} => Of(q, file, "end") # {}
           /\ \A i \in About(t, file) :
                 /\ t[i].part.what # "start"
                 /\ t[i].part.what = "end" => \A j \in About(t, file) : j <= i
<1>1. Of(t, file, "end") # {} => Of(q, file, "end") # {}
  BY DEF Shifted, Kinds
<1>2. ASSUME NEW i \in About(t, file)
      PROVE  /\ t[i].part.what # "start"
             /\ t[i].part.what = "end" => \A j \in About(t, file) : j <= i
  <2>1. /\ i + 1 \in About(q, file) /\ t[i] = q[i + 1] /\ i \in Nat \ {0}
        /\ 1 \in About(q, file)
    BY DEF Shifted
  <2>2. t[i].part.what # "start"
    <3> SUFFICES ASSUME t[i].part.what = "start" PROVE FALSE
      OBVIOUS
    <3>1. i + 1 <= 1
      BY <2>1 DEF StartFirstEndLast
    <3> QED
      BY <2>1, <3>1
  <2>3. ASSUME t[i].part.what = "end", NEW j \in About(t, file) PROVE j <= i
    <3>1. j + 1 \in About(q, file) /\ j \in Nat
      BY DEF Shifted
    <3>2. j + 1 <= i + 1
      BY <2>1, <2>3, <3>1 DEF StartFirstEndLast
    <3> QED
      BY <2>1, <3>1, <3>2
  <2> QED
    BY <2>2, <2>3
<1> QED
  BY <1>1, <1>2

\* It opens the file.
LEMMA TakeStart ==
    ASSUME NEW q, NEW t, NEW file, Shifted(q, t, file), StartFirstEndLast(q, file, FALSE)
    PROVE  /\ q[1].part.what = "start"
           /\ StartFirstEndLast(t, file, TRUE)
           /\ Of(t, file, "end") # {} => Of(q, file, "end") # {}
           /\ \A s : GoOn(q, file, s) => GoOn(t, file, s)
           /\ \A s, r : Reach(q, file, s, r) => Reach(t, file, s, r)
<1>1. q[1].part.what = "start"
  <2> SUFFICES ASSUME q[1].part.what # "start" PROVE FALSE
    OBVIOUS
  <2>1. PICK j \in Of(q, file, "start") : j < 1
    BY DEF StartFirstEndLast, Shifted
  <2>2. j \in Nat \ {0}
    BY ShiftedKind DEF Kinds
  <2> QED
    BY <2>1, <2>2
<1>2. StartFirstEndLast(t, file, TRUE)
  BY EndsStayLast DEF StartFirstEndLast
<1>3. \A i \in Of(q, file, "data") :
         i \in Nat /\ i - 1 \in Of(t, file, "data") /\ t[i - 1] = q[i]
  <2> TAKE i \in Of(q, file, "data")
  <2>1. /\ i \in Nat \ {0} /\ q[i].part.what = "data"
        /\ i # 1 => i - 1 \in Of(t, file, "data") /\ t[i - 1] = q[i]
    BY ShiftedKind DEF Kinds
  <2>2. i # 1
    BY <1>1, <2>1
  <2> QED
    BY <2>1, <2>2
<1>4. \A i \in Of(t, file, "data") :
         i \in Nat /\ i + 1 \in Of(q, file, "data") /\ t[i] = q[i + 1]
  BY ShiftedKind DEF Kinds
<1>5. Of(t, file, "end") # {} => Of(q, file, "end") # {}
  BY EndsStayLast
<1> QED
  BY <1>1, <1>2, <1>3, <1>4, <1>5, ShiftedData

\* It is data: the file now holds what it holds up to.
LEMMA TakeData ==
    ASSUME NEW q, NEW t, NEW file, Shifted(q, t, file), StartFirstEndLast(q, file, TRUE),
           q[1].part.what \in Kinds \ {"end"},
           \A i \in Of(q, file, "data") : q[i].part.from \in Nat /\ q[i].part.to \in Nat
    PROVE  /\ q[1].part.what = "data"
           /\ StartFirstEndLast(t, file, TRUE)
           /\ Of(t, file, "end") # {} => Of(q, file, "end") # {}
           /\ \A s \in Nat : GoOn(q, file, s) =>
                 /\ q[1].part.from = s + 1 /\ s + 1 <= q[1].part.to
                 /\ GoOn(t, file, q[1].part.to)
           /\ \A s, r \in Nat : GoOn(q, file, s) /\ Reach(q, file, s, r) =>
                 Reach(t, file, q[1].part.to, r)
<1>1. 1 \in About(q, file) /\ (q[1].part.what \in Kinds => 1 \in Of(q, file, q[1].part.what))
  BY DEF Shifted
<1>2. q[1].part.what = "data" /\ 1 \in Of(q, file, "data")
  <2>1. q[1].part.what # "start"
    BY <1>1 DEF StartFirstEndLast
  <2>2. q[1].part.what = "data"
    BY <2>1 DEF Kinds
  <2> QED
    BY <1>1, <2>2 DEF Kinds
<1>3. q[1].part.from \in Nat /\ q[1].part.to \in Nat
  BY <1>2
<1>4. StartFirstEndLast(t, file, TRUE) /\ (Of(t, file, "end") # {} => Of(q, file, "end") # {})
  BY EndsStayLast DEF StartFirstEndLast
<1>5. \A i \in Of(q, file, "data") : /\ i \in Nat \ {0}
                                     /\ i # 1 => i - 1 \in Of(t, file, "data") /\ t[i - 1] = q[i]
  BY ShiftedKind DEF Kinds
<1>6. \A i \in Of(t, file, "data") :
         i \in Nat \ {0} /\ i + 1 \in Of(q, file, "data") /\ t[i] = q[i + 1]
  BY ShiftedKind DEF Kinds
<1>7. ASSUME NEW s \in Nat, GoOn(q, file, s)
      PROVE  /\ q[1].part.from = s + 1 /\ s + 1 <= q[1].part.to
             /\ GoOn(t, file, q[1].part.to)
  <2>1. q[1].part.from = s + 1 /\ s + 1 <= q[1].part.to
    <3>1. \A j \in Of(q, file, "data") : ~(j < 1)
      BY <1>5
    <3> QED
      BY <1>2, <1>7, <3>1 DEF GoOn
  <2>2. \A i \in Of(t, file, "data") :
           /\ t[i].part.from <= t[i].part.to
           /\ \/ t[i].part.from = q[1].part.to + 1
              \/ \E j \in Of(t, file, "data") : j < i /\ t[j].part.to = t[i].part.from - 1
    <3> TAKE i \in Of(t, file, "data")
    <3>1. i \in Nat \ {0} /\ i + 1 \in Of(q, file, "data") /\ t[i] = q[i + 1]
      BY <1>6
    <3>2. t[i].part.from \in Nat /\ t[i].part.to \in Nat
      BY <3>1
    <3>3. q[1].part.to < t[i].part.from
      <4>1. 1 < i + 1
        BY <3>1
      <4>2. q[1].part.to < q[i + 1].part.from
        BY <1>2, <1>7, <3>1, <4>1 DEF GoOn
      <4> QED
        BY <3>1, <4>2
    <3>4. PICK j \in Of(q, file, "data") : j < i + 1 /\ q[j].part.to = t[i].part.from - 1
      <4>1. t[i].part.from # s + 1
        BY <1>3, <2>1, <3>2, <3>3
      <4> QED
        BY <1>7, <3>1, <4>1 DEF GoOn
    <3>5. t[i].part.from <= t[i].part.to
      BY <1>7, <3>1 DEF GoOn
    <3>6. CASE j = 1
      BY <1>3, <3>2, <3>4, <3>5, <3>6
    <3>7. CASE j # 1
      <4>1. j - 1 \in Of(t, file, "data") /\ t[j - 1] = q[j] /\ j - 1 < i
        BY <1>5, <3>1, <3>4, <3>7
      <4> QED
        BY <3>4, <3>5, <4>1
    <3> QED
      BY <3>6, <3>7
  <2>3. \A i, j \in Of(t, file, "data") : i < j => t[i].part.to < t[j].part.from
    <3> TAKE i, j \in Of(t, file, "data")
    <3>1. /\ i \in Nat \ {0} /\ i + 1 \in Of(q, file, "data") /\ t[i] = q[i + 1]
          /\ j \in Nat \ {0} /\ j + 1 \in Of(q, file, "data") /\ t[j] = q[j + 1]
      BY <1>6
    <3> QED
      BY <1>7, <3>1 DEF GoOn
  <2> QED
    BY <2>1, <2>2, <2>3 DEF GoOn
<1>8. ASSUME NEW s \in Nat, NEW r \in Nat, GoOn(q, file, s), Reach(q, file, s, r)
      PROVE  Reach(t, file, q[1].part.to, r)
  <2>1. \A i \in Of(t, file, "data") : t[i].part.to <= r
    BY <1>6, <1>8 DEF Reach
  <2>2. q[1].part.to <= r /\ s + 1 <= q[1].part.to
    BY <1>2, <1>7, <1>8 DEF Reach
  <2>3. PICK i \in Of(q, file, "data") : q[i].part.to = r
    BY <1>3, <1>8, <2>2 DEF Reach
  <2> QED
    BY <1>5, <2>1, <2>3 DEF Reach
<1> QED
  BY <1>2, <1>4, <1>7, <1>8

\* It is the end, and nothing is left.
LEMMA TakeEnd ==
    ASSUME NEW q, NEW t, NEW file, Shifted(q, t, file), NEW o \in BOOLEAN,
           StartFirstEndLast(q, file, o), q[1].part.what = "end"
    PROVE  /\ About(t, file) = {}
           /\ Of(q, file, "end") # {}
           /\ \A s, r : Reach(q, file, s, r) => r = s
<1>1. 1 \in About(q, file) /\ \A i \in About(q, file) : i \in Nat \ {0}
  BY DEF Shifted
<1>2. \A i \in About(q, file) : i = 1
  BY <1>1 DEF StartFirstEndLast
<1>3. About(t, file) = {}
  <2> SUFFICES ASSUME NEW i \in About(t, file) PROVE FALSE
    OBVIOUS
  <2>1. i \in Nat \ {0} /\ i + 1 \in About(q, file)
    BY DEF Shifted
  <2> QED
    BY <1>2, <2>1
<1>4. Of(q, file, "end") # {} /\ Of(q, file, "data") = {}
  BY <1>1, <1>2 DEF Of
<1> QED
  BY <1>3, <1>4 DEF Reach

\* What is left in the pipe of a web app that dies
LEMMA KeepBeginning ==
    ASSUME NEW q \in Seq(Requests), NEW n \in 0..Len(q), NEW file
    PROVE  LET t == SubSeq(q, 1, n) IN
           /\ About(t, file) \subseteq About(q, file)
           /\ Of(t, file, "end") # {} => Of(q, file, "end") # {}
           /\ \A o \in BOOLEAN : StartFirstEndLast(q, file, o) => StartFirstEndLast(t, file, o)
           /\ \A s : GoOn(q, file, s) => GoOn(t, file, s)
           /\ \A o \in BOOLEAN : \A s, r :
                 /\ StartFirstEndLast(q, file, o) /\ Of(t, file, "end") # {}
                 /\ Reach(q, file, s, r)
                 => Reach(t, file, s, r)
<1> DEFINE t == SubSeq(q, 1, n)
<1>1. /\ DOMAIN q = 1..Len(q) /\ DOMAIN t = 1..n /\ Len(q) \in Nat
      /\ \A i \in DOMAIN t : i \in DOMAIN q /\ t[i] = q[i]
  BY ABeginning, PipeFacts
<1> HIDE DEF t
<1>2. /\ \A i \in About(t, file) : i \in About(q, file) /\ t[i] = q[i] /\ i \in 1..n
      /\ \A i \in About(q, file) : i \in Nat \ {0} /\ (i <= n => i \in About(t, file))
  BY <1>1 DEF About
<1>3. \A w \in Kinds : /\ \A i \in Of(t, file, w) : i \in About(t, file) /\ i \in Of(q, file, w)
                       /\ \A i \in Of(q, file, w) : /\ i \in About(q, file)
                                                    /\ i <= n => i \in Of(t, file, w)
  BY <1>2 DEF Of
<1>4. /\ \A i \in Of(t, file, "data") : i \in Of(q, file, "data") /\ t[i] = q[i] /\ i \in 1..n
      /\ \A i \in Of(t, file, "end") : i \in Of(q, file, "end") /\ t[i] = q[i] /\ i \in 1..n
      /\ \A i \in Of(q, file, "start") :
            i \in Nat /\ i \in About(q, file) /\ (i <= n => i \in Of(t, file, "start"))
      /\ \A i \in Of(q, file, "data") :
            i \in Nat /\ i \in About(q, file) /\ (i <= n => i \in Of(t, file, "data"))
  BY <1>2, <1>3 DEF Kinds
<1>5. ASSUME NEW o \in BOOLEAN, StartFirstEndLast(q, file, o)
      PROVE  StartFirstEndLast(t, file, o)
  <2> SUFFICES ASSUME NEW i \in About(t, file)
               PROVE  /\ IF t[i].part.what = "start"
                         THEN ~o /\ \A j \in About(t, file) : i <= j
                         ELSE o \/ \E j \in Of(t, file, "start") : j < i
                      /\ t[i].part.what = "end" => \A j \in About(t, file) : j <= i
    BY DEF StartFirstEndLast
  <2>1. i \in About(q, file) /\ t[i] = q[i] /\ i \in 1..n
    BY <1>2
  <2>2. /\ IF t[i].part.what = "start"
           THEN ~o /\ \A j \in About(q, file) : i <= j
           ELSE o \/ \E j \in Of(q, file, "start") : j < i
        /\ t[i].part.what = "end" => \A j \in About(q, file) : j <= i
    BY <1>5, <2>1 DEF StartFirstEndLast
  <2>3. \A j \in Of(q, file, "start") : j < i => j \in Of(t, file, "start")
    BY <1>1, <1>4, <2>1
  <2> QED
    BY <1>2, <2>2, <2>3
<1>6. ASSUME NEW s, GoOn(q, file, s) PROVE GoOn(t, file, s)
  <2>1. \A i \in Of(t, file, "data") :
           /\ t[i].part.from <= t[i].part.to
           /\ \/ t[i].part.from = s + 1
              \/ \E j \in Of(t, file, "data") : j < i /\ t[j].part.to = t[i].part.from - 1
    <3> TAKE i \in Of(t, file, "data")
    <3>1. i \in Of(q, file, "data") /\ t[i] = q[i] /\ i \in 1..n
      BY <1>4
    <3>2. \A j \in Of(q, file, "data") : j < i => j \in Of(t, file, "data") /\ t[j] = q[j]
      BY <1>1, <1>4, <3>1
    <3> QED
      BY <1>6, <3>1, <3>2 DEF GoOn
  <2> QED
    BY <1>4, <1>6, <2>1 DEF GoOn
<1>7. ASSUME NEW o \in BOOLEAN, NEW s, NEW r,
             StartFirstEndLast(q, file, o), Of(t, file, "end") # {}, Reach(q, file, s, r)
      PROVE  Reach(t, file, s, r)
  <2>1. PICK e \in Of(t, file, "end") : TRUE
    BY <1>7
  <2>2. e \in About(q, file) /\ q[e].part.what = "end" /\ e \in 1..n
    BY <1>4 DEF Of
  <2>3. \A i \in About(q, file) : i <= e
    BY <1>7, <2>2 DEF StartFirstEndLast
  <2>4. \A i \in Of(q, file, "data") : i \in Of(t, file, "data") /\ t[i] = q[i]
    <3> TAKE i \in Of(q, file, "data")
    <3>1. i \in Nat /\ i <= e /\ e <= n
      BY <1>4, <2>2, <2>3
    <3>2. i \in Of(t, file, "data")
      BY <1>1, <1>4, <2>2, <3>1
    <3> QED
      BY <1>4, <3>2
  <2> QED
    BY <1>4, <1>7, <2>4 DEF Reach
<1>8. About(t, file) \subseteq About(q, file)
  BY <1>2
<1>9. Of(t, file, "end") # {} => Of(q, file, "end") # {}
  BY <1>4
<1> QED
  BY <1>5, <1>6, <1>7, <1>8, <1>9 DEF t

-----------------------------------------------------------------------------
\* GoesOn, message by message

Statuses == {"none", "open", "closed", "failed"}

LEMMA DataFacts ==
    ASSUME NEW q \in Seq(Requests), NEW file
    PROVE  \A i \in Of(q, file, "data") : q[i].part.from \in Nat /\ q[i].part.to \in Nat
<1> TAKE i \in Of(q, file, "data")
<1>1. i \in DOMAIN q /\ q[i].part.what = "data"
  BY DEF Of, About
<1>2. q[i].part \in Parts
  BY <1>1, PipeFacts
<1> QED
  BY <1>1, <1>2, PartFacts

LEMMA GoesOnPastOthers ==
    ASSUME NEW q \in Seq(Requests), NEW m \in Seq(Requests), NEW file,
           \A i \in DOMAIN m : m[i].file # file,
           NEW status \in Statuses, NEW stored, NEW running \in BOOLEAN,
           NEW over \in BOOLEAN, NEW r,
           GoesOn(q, file, status, stored, running, over, r)
    PROVE  GoesOn(q \o m, file, status, stored, running, over, r)
<1> DEFINE t == q \o m
<1>1. /\ About(t, file) = About(q, file)
      /\ \A w : Of(t, file, w) = Of(q, file, w)
      /\ \A o \in BOOLEAN : StartFirstEndLast(q, file, o) => StartFirstEndLast(t, file, o)
      /\ GoOn(q, file, stored) => GoOn(t, file, stored)
      /\ Reach(q, file, stored, r) => Reach(t, file, stored, r)
  BY AddOther
<1> HIDE DEF t
<1>2. Of(t, file, "start") = Of(q, file, "start") /\ Of(t, file, "end") = Of(q, file, "end")
  BY <1>1
<1> QED
  BY <1>1, <1>2 DEF GoesOn, t

LEMMA GoesOnFromStart ==
    ASSUME NEW q \in Seq(Requests), NEW m \in Requests, NEW file,
           m.file = file, m.part.what = "start", About(q, file) = {},
           NEW running \in BOOLEAN, NEW over \in BOOLEAN
    PROVE  GoesOn(Append(q, m), file, "none", 0, running, over, 0)
BY AddStart DEF GoesOn

LEMMA GoesOnWithData ==
    ASSUME NEW q \in Seq(Requests), NEW m \in Requests, NEW file,
           NEW status \in Statuses, NEW stored \in Nat, NEW r \in Nat,
           m.file = file, m.part.what = "data",
           m.part.from = r + 1, m.part.to \in Nat, r + 1 <= m.part.to,
           GoesOn(q, file, status, stored, TRUE, FALSE, r)
    PROVE  GoesOn(Append(q, m), file, status, stored, TRUE, FALSE, m.part.to)
<1> DEFINE t == Append(q, m)
<1>1. /\ StartFirstEndLast(q, file, status # "none")
      /\ Of(q, file, "end") = {}
      /\ status # "none" \/ Of(q, file, "start") # {}
      /\ status # "closed"
      /\ status # "failed" => GoOn(q, file, stored) /\ Reach(q, file, stored, r)
  BY DEF GoesOn
<1>2. /\ status # "none" \/ Of(t, file, "start") # {}
      /\ Of(t, file, "end") = {}
      /\ StartFirstEndLast(t, file, status # "none")
      /\ GoOn(q, file, stored) /\ Reach(q, file, stored, r)
            => GoOn(t, file, stored) /\ Reach(t, file, stored, m.part.to)
  BY <1>1, AddData
<1> HIDE DEF t
<1> QED
  BY <1>1, <1>2 DEF GoesOn, t

LEMMA GoesOnToTheEnd ==
    ASSUME NEW q \in Seq(Requests), NEW m \in Requests, NEW file,
           NEW status \in Statuses, NEW stored \in Nat, NEW r \in Nat,
           m.file = file, m.part.what = "end",
           GoesOn(q, file, status, stored, TRUE, FALSE, r)
    PROVE  GoesOn(Append(q, m), file, status, stored, TRUE, TRUE, r)
<1> DEFINE t == Append(q, m)
<1>1. /\ StartFirstEndLast(q, file, status # "none")
      /\ Of(q, file, "end") = {}
      /\ status # "none" \/ Of(q, file, "start") # {}
      /\ status # "closed"
      /\ status # "failed" => GoOn(q, file, stored) /\ Reach(q, file, stored, r)
  BY DEF GoesOn
<1>2. /\ status # "none" \/ Of(t, file, "start") # {}
      /\ StartFirstEndLast(t, file, status # "none")
      /\ GoOn(q, file, stored) => GoOn(t, file, stored)
      /\ Reach(q, file, stored, r) => Reach(t, file, stored, r)
  BY <1>1, AddEnd
<1> HIDE DEF t
<1> QED
  BY <1>1, <1>2 DEF GoesOn, t

LEMMA GoesOnInWhatIsLeft ==
    ASSUME NEW q \in Seq(Requests), NEW n \in 0..Len(q), NEW file,
           NEW status \in Statuses, NEW stored, NEW running \in BOOLEAN,
           NEW over \in BOOLEAN, NEW r,
           GoesOn(q, file, status, stored, running, over, r)
    PROVE  GoesOn(SubSeq(q, 1, n), file, status, stored, FALSE, over, r)
<1> DEFINE t == SubSeq(q, 1, n)
           o == status # "none"
<1>1. /\ About(t, file) \subseteq About(q, file)
      /\ Of(t, file, "end") # {} => Of(q, file, "end") # {}
      /\ StartFirstEndLast(q, file, o) => StartFirstEndLast(t, file, o)
      /\ GoOn(q, file, stored) => GoOn(t, file, stored)
      /\ StartFirstEndLast(q, file, o) /\ Of(t, file, "end") # {} /\ Reach(q, file, stored, r)
            => Reach(t, file, stored, r)
  BY KeepBeginning
<1> HIDE DEF t
<1> QED
  BY <1>1 DEF GoesOn, t

LEMMA GoesOnBehindOthers ==
    ASSUME NEW q \in Seq(Requests), q # <<>>, NEW file, Head(q).file # file,
           NEW status \in Statuses, NEW stored, NEW running \in BOOLEAN,
           NEW over \in BOOLEAN, NEW r,
           GoesOn(q, file, status, stored, running, over, r)
    PROVE  GoesOn(Tail(q), file, status, stored, running, over, r)
<1> DEFINE t == Tail(q)
           o == status # "none"
<1>1. /\ Of(t, file, "start") # {} <=> Of(q, file, "start") # {}
      /\ Of(t, file, "end") # {} <=> Of(q, file, "end") # {}
      /\ About(t, file) # {} <=> About(q, file) # {}
      /\ StartFirstEndLast(q, file, o) => StartFirstEndLast(t, file, o)
      /\ GoOn(q, file, stored) => GoOn(t, file, stored)
      /\ Reach(q, file, stored, r) => Reach(t, file, stored, r)
  BY TakeOther
<1> HIDE DEF t
<1> QED
  BY <1>1 DEF GoesOn, t

\* What storage makes of the first message about a file: it opens the file, or
\* fails to ...
LEMMA GoesOnWhenOpened ==
    ASSUME NEW q \in Seq(Requests), q # <<>>, NEW file, Head(q).file = file,
           NEW running \in BOOLEAN, NEW over \in BOOLEAN, NEW r,
           GoesOn(q, file, "none", 0, running, over, r)
    PROVE  /\ Head(q).part.what = "start"
           /\ GoesOn(Tail(q), file, "open", 0, running, over, r)
           /\ GoesOn(Tail(q), file, "failed", 0, running, over, r)
<1> DEFINE t == Tail(q)
<1>1. Head(q) = q[1] /\ Shifted(q, t, file)
  BY TakeOwn
<1>2. StartFirstEndLast(q, file, FALSE)
  BY DEF GoesOn
<1> HIDE DEF t
<1>3. /\ q[1].part.what = "start"
      /\ StartFirstEndLast(t, file, TRUE)
      /\ Of(t, file, "end") # {} => Of(q, file, "end") # {}
      /\ \A s : GoOn(q, file, s) => GoOn(t, file, s)
      /\ \A s, u : Reach(q, file, s, u) => Reach(t, file, s, u)
  BY <1>1, <1>2, TakeStart
<1> QED
  BY <1>1, <1>3 DEF GoesOn, t

\* ... writes data to it, or drops it ...
LEMMA GoesOnWhenWritten ==
    ASSUME NEW q \in Seq(Requests), q # <<>>, NEW file, Head(q).file = file,
           NEW status \in Statuses \ {"none"}, NEW stored \in Nat,
           NEW running \in BOOLEAN, NEW over \in BOOLEAN, NEW r \in Nat,
           GoesOn(q, file, status, stored, running, over, r), Head(q).part.what # "end"
    PROVE  /\ Head(q).part.what = "data"
           /\ Head(q).part.from \in Nat /\ Head(q).part.to \in Nat
           /\ status # "closed"
           /\ status = "open" =>
                 /\ Head(q).part.from = stored + 1 /\ stored + 1 <= Head(q).part.to
                 /\ GoesOn(Tail(q), file, "open", Head(q).part.to, running, over, r)
           /\ status = "failed" => GoesOn(Tail(q), file, "failed", stored, running, over, r)
<1> DEFINE t == Tail(q)
<1>1. Head(q) = q[1] /\ Shifted(q, t, file)
  BY TakeOwn
<1>2. q[1].part.what \in Kinds \ {"end"}
  <2>1. q[1].part \in Parts
    BY OneLess DEF Requests
  <2> QED
    BY <1>1, <2>1, PartFacts DEF Kinds
<1>3. StartFirstEndLast(q, file, TRUE)
  BY DEF GoesOn
<1>4. \A i \in Of(q, file, "data") : q[i].part.from \in Nat /\ q[i].part.to \in Nat
  BY DataFacts
<1> HIDE DEF t
<1>5. /\ q[1].part.what = "data"
      /\ StartFirstEndLast(t, file, TRUE)
      /\ Of(t, file, "end") # {} => Of(q, file, "end") # {}
      /\ GoOn(q, file, stored) =>
            /\ q[1].part.from = stored + 1 /\ stored + 1 <= q[1].part.to
            /\ GoOn(t, file, q[1].part.to)
      /\ GoOn(q, file, stored) /\ Reach(q, file, stored, r) => Reach(t, file, q[1].part.to, r)
  BY <1>1, <1>2, <1>3, <1>4, TakeData
<1>6. 1 \in About(q, file) /\ 1 \in Of(q, file, "data")
  BY <1>1, <1>5 DEF Shifted, Kinds
<1>7. status # "closed"
  BY <1>6 DEF GoesOn
<1>8. q[1].part.from \in Nat /\ q[1].part.to \in Nat
  BY <1>4, <1>6
<1>9. ASSUME status = "open"
      PROVE  /\ q[1].part.from = stored + 1 /\ stored + 1 <= q[1].part.to
             /\ GoesOn(t, file, "open", q[1].part.to, running, over, r)
  BY <1>5, <1>9 DEF GoesOn
<1>10. ASSUME status = "failed" PROVE GoesOn(t, file, "failed", stored, running, over, r)
  BY <1>5, <1>10 DEF GoesOn
<1> QED
  BY <1>1, <1>5, <1>7, <1>8, <1>9, <1>10 DEF t

\* ... and closes it, when it holds all of the answer.
LEMMA GoesOnWhenClosed ==
    ASSUME NEW q \in Seq(Requests), q # <<>>, NEW file, Head(q).file = file,
           NEW status \in Statuses \ {"none"}, NEW stored \in Nat,
           NEW running \in BOOLEAN, NEW over \in BOOLEAN, NEW r \in Nat,
           GoesOn(q, file, status, stored, running, over, r), Head(q).part.what = "end"
    PROVE  /\ status \in {"open", "failed"}
           /\ status = "open" => GoesOn(Tail(q), file, "closed", stored, running, over, r)
           /\ status = "failed" => GoesOn(Tail(q), file, "failed", stored, running, over, r)
<1> DEFINE t == Tail(q)
<1>1. Head(q) = q[1] /\ Shifted(q, t, file)
  BY TakeOwn
<1>2. StartFirstEndLast(q, file, TRUE)
  BY DEF GoesOn
<1> HIDE DEF t
<1>3. /\ About(t, file) = {}
      /\ Of(q, file, "end") # {}
      /\ \A s, u : Reach(q, file, s, u) => u = s
  BY <1>1, <1>2, TakeEnd
<1>4. 1 \in About(q, file)
  BY <1>1 DEF Shifted
<1>5. status \in {"open", "failed"} /\ over
  BY <1>3, <1>4 DEF GoesOn, Statuses
<1>6. /\ Of(t, file, "end") = {} /\ Of(t, file, "data") = {}
      /\ StartFirstEndLast(t, file, TRUE)
      /\ GoOn(t, file, stored) /\ Reach(t, file, stored, stored)
  BY <1>3 DEF Of, StartFirstEndLast, GoOn, Reach
<1>7. ASSUME status = "open" PROVE GoesOn(t, file, "closed", stored, running, over, r)
  <2>1. r = stored
    BY <1>3, <1>7 DEF GoesOn
  <2> QED
    BY <1>3, <1>5, <1>6, <2>1 DEF GoesOn
<1>8. ASSUME status = "failed" PROVE GoesOn(t, file, "failed", stored, running, over, r)
  BY <1>5, <1>6 DEF GoesOn
<1> QED
  BY <1>5, <1>7, <1>8 DEF t

-----------------------------------------------------------------------------
\* The state

LEMMA FetchFacts ==
    ASSUME TypeOK, NEW f \in Fetches
    PROVE  /\ f.app \in WebApps /\ f.app \in Nat
           /\ toStorage[f.app] \in Seq(Requests)
           /\ fileId[f] \in Nat \cup {NoFile}
           /\ readUpTo[f] \in Nat /\ readUpTo[f] \in 0..MaxChunks
           /\ written[f] \in Nat /\ written[f] \in 0..MaxChunks
           /\ chunks[f] \in Nat /\ chunks[f] \in 0..MaxChunks
           /\ nextId[f.app] \in Nat
           /\ MaxChunks \in Nat
           /\ Status(f) \in Statuses
           /\ Stored(f) \in Nat
<1>1. f.app \in WebApps /\ WebApps \subseteq Nat /\ MaxChunks \in Nat
  BY DownloadAssumption
<1>2. /\ toStorage[f.app] \in Seq(Requests)
      /\ fileId[f] \in Nat \cup {NoFile}
      /\ readUpTo[f] \in 0..MaxChunks /\ written[f] \in 0..MaxChunks
      /\ chunks[f] \in 0..MaxChunks
      /\ nextId[f.app] \in Nat
  BY <1>1 DEF TypeOK, Requests
<1>3. Status(f) \in Statuses
  BY DEF Status, Statuses
<1>4. Stored(f) \in Nat
  <2>1. CASE Entry(f) \in DOMAIN writeQueue
    <3>1. writeQueue[Entry(f)].content \in Seq(Nat)
      BY <2>1 DEF TypeOK, Files
    <3> QED
      BY <2>1, <3>1 DEF Stored
  <2>2. CASE Entry(f) \notin DOMAIN writeQueue
    BY <2>2 DEF Stored
  <2> QED
    BY <2>1, <2>2
<1>5. f.app \in Nat
  BY <1>1
<1>6. \A x \in 0..MaxChunks : x \in Nat
  BY <1>1
<1>7. readUpTo[f] \in Nat /\ written[f] \in Nat /\ chunks[f] \in Nat
  BY <1>2, <1>6
<1> QED
  BY <1>1, <1>2, <1>3, <1>4, <1>5, <1>7

LEMMA SentFacts ==
    ASSUME TypeOK, DownloadersFollowReplies, NEW f \in sent
    PROVE  /\ f \in Fetches /\ fileId[f] \in Nat /\ fileId[f] # NoFile
           /\ fileId[f] < nextId[f.app]
<1>1. f \in Fetches
  BY DEF TypeOK
<1> QED
  BY <1>1, FetchFacts DEF DownloadersFollowReplies

\* Nothing that the storage process sees or does has changed.
LEMMA NothingSent ==
    ASSUME IInv,
           UNCHANGED <<sent, toStorage, writeQueue, disk, alive>>,
           \A f \in sent : /\ fileId'[f] = fileId[f] /\ readUpTo'[f] = readUpTo[f]
                           /\ f \in finished' <=> f \in finished
    PROVE  RequestsAreOwn' /\ DownloadsGoOn' /\ FilesAreInOrder' /\ NoSharedFile'
<1>1. \A f \in sent : /\ Entry(f)' = Entry(f)
                      /\ Status(f)' = Status(f) /\ Stored(f)' = Stored(f)
  BY DEF Entry, Status, Stored
<1>2. RequestsAreOwn'
  BY <1>1 DEF IInv, RequestsAreOwn
<1>3. DownloadsGoOn'
  <2> SUFFICES ASSUME NEW f \in sent
               PROVE  GoesOn(toStorage[f.app], fileId'[f], Status(f)', Stored(f)',
                             f.app \in alive, f \in finished', readUpTo'[f])
    BY DEF DownloadsGoOn
  <2>1. GoesOn(toStorage[f.app], fileId[f], Status(f), Stored(f),
               f.app \in alive, f \in finished, readUpTo[f])
    BY DEF IInv, DownloadsGoOn
  <2>2. (f \in finished') = (f \in finished)
    OBVIOUS
  <2> QED
    BY <1>1, <2>1, <2>2
<1>4. FilesAreInOrder' /\ NoSharedFile'
  BY DEF IInv, FilesAreInOrder, NoSharedFile
<1> QED
  BY <1>2, <1>3, <1>4

\* All of s is about one file.
AllAbout(s, file) == \A i \in DOMAIN s : s[i].file = file

\* The downloader of f sends s, and s goes on with what is on the way.
Sends(f, s) ==
    /\ toStorage' = [toStorage EXCEPT ![f.app] = @ \o s]
    /\ sent' = sent \cup {f}
    /\ writeQueue' = writeQueue /\ disk' = disk /\ alive' = alive
    /\ \A g \in Fetches \ {f} : /\ fileId'[g] = fileId[g] /\ readUpTo'[g] = readUpTo[g]
                                /\ g \in finished' <=> g \in finished
    /\ f \in sent => fileId'[f] = fileId[f]
    /\ \A g \in sent \ {f} : g.app = f.app => fileId[g] # fileId'[f]
    /\ AllAbout(s, fileId'[f])
    /\ GoesOn(toStorage[f.app] \o s, fileId'[f], Status(f)', Stored(f)',
              f.app \in alive, f \in finished', readUpTo'[f])

LEMMA SomethingSent ==
    ASSUME IInv, NEW f \in Fetches, NEW s \in Seq(Requests), Sends(f, s)
    PROVE  /\ toStorage' \in [WebApps -> Seq(Requests)]
           /\ RequestsAreOwn' /\ DownloadsGoOn' /\ FilesAreInOrder' /\ NoSharedFile'
<1>0. /\ toStorage' = [toStorage EXCEPT ![f.app] = @ \o s]
      /\ sent' = sent \cup {f}
      /\ writeQueue' = writeQueue /\ disk' = disk /\ alive' = alive
      /\ \A g \in Fetches \ {f} : /\ fileId'[g] = fileId[g] /\ readUpTo'[g] = readUpTo[g]
                                  /\ g \in finished' <=> g \in finished
      /\ f \in sent => fileId'[f] = fileId[f]
      /\ \A g \in sent \ {f} : g.app = f.app => fileId[g] # fileId'[f]
      /\ \A i \in DOMAIN s : s[i].file = fileId'[f]
  BY DEF Sends, AllAbout
<1> DEFINE q == toStorage[f.app]
<1>1. /\ TypeOK /\ DownloadersFollowReplies /\ RequestsAreOwn /\ DownloadsGoOn
      /\ f.app \in WebApps /\ q \in Seq(Requests)
      /\ toStorage \in [WebApps -> Seq(Requests)]
  BY FetchFacts DEF IInv, TypeOK, Requests
<1>2. /\ q \o s \in Seq(Requests)
      /\ \A i \in DOMAIN q : i \in DOMAIN (q \o s) /\ (q \o s)[i] = q[i]
      /\ \A i \in DOMAIN (q \o s) : i \in DOMAIN q \/ \E j \in DOMAIN s : (q \o s)[i] = s[j]
  BY <1>1, SomeMore
<1>3. /\ toStorage' \in [WebApps -> Seq(Requests)]
      /\ toStorage'[f.app] = q \o s
      /\ \A a \in WebApps \ {f.app} : toStorage'[a] = toStorage[a]
  BY <1>0, <1>1, <1>2
<1>4. \A g \in sent \ {f} : /\ g \in Fetches
                            /\ Entry(g)' = Entry(g)
                            /\ Status(g)' = Status(g) /\ Stored(g)' = Stored(g)
  BY <1>0, <1>1, SentFacts DEF Entry, Status, Stored
<1>5. f \in sent => Entry(f)' = Entry(f)
  BY <1>0 DEF Entry
<1>6. RequestsAreOwn'
  <2>1. ASSUME NEW a \in WebApps, NEW i \in DOMAIN toStorage'[a]
        PROVE  \E g \in sent' : g.app = a /\ fileId'[g] = toStorage'[a][i].file
    <3>1. ASSUME NEW g \in sent, g.app = a, fileId[g] = toStorage'[a][i].file
          PROVE  g \in sent' /\ g.app = a /\ fileId'[g] = toStorage'[a][i].file
      <4>1. g \in Fetches
        BY <1>1, SentFacts
      <4>2. fileId'[g] = fileId[g]
        BY <1>0, <4>1
      <4> QED
        BY <1>0, <3>1, <4>2
    <3>2. CASE a # f.app
      <4>1. PICK g \in sent : g.app = a /\ fileId[g] = toStorage[a][i].file
        BY <1>1, <1>3, <2>1, <3>2 DEF RequestsAreOwn
      <4> QED
        BY <1>3, <3>1, <3>2, <4>1
    <3>3. CASE a = f.app /\ i \in DOMAIN q
      <4>1. PICK g \in sent : g.app = a /\ fileId[g] = q[i].file
        BY <1>1, <3>3 DEF RequestsAreOwn
      <4> QED
        BY <1>2, <1>3, <3>1, <3>3, <4>1
    <3>4. CASE a = f.app /\ i \notin DOMAIN q
      <4>1. i \in DOMAIN (q \o s)
        BY <1>3, <2>1, <3>4
      <4>2. PICK j \in DOMAIN s : (q \o s)[i] = s[j]
        BY <1>2, <3>4, <4>1
      <4>3. toStorage'[a][i].file = fileId'[f]
        BY <1>0, <1>3, <3>4, <4>2
      <4> QED
        BY <1>0, <3>4, <4>3
    <3> QED
      BY <3>2, <3>3, <3>4
  <2>2. ASSUME NEW d \in DOMAIN writeQueue PROVE \E g \in sent' : Entry(g)' = d
    <3>1. PICK g \in sent : Entry(g) = d
      BY <1>1 DEF RequestsAreOwn
    <3> QED
      BY <1>0, <1>4, <1>5, <3>1
  <2> QED
    BY <1>0, <2>1, <2>2 DEF RequestsAreOwn
<1>7. DownloadsGoOn'
  <2> SUFFICES ASSUME NEW g \in sent'
               PROVE  GoesOn(toStorage'[g.app], fileId'[g], Status(g)', Stored(g)',
                             g.app \in alive, g \in finished', readUpTo'[g])
    BY <1>0 DEF DownloadsGoOn
  <2>1. CASE g = f
    <3>1. GoesOn(q \o s, fileId'[f], Status(f)', Stored(f)', f.app \in alive, f \in finished',
                 readUpTo'[f])
      BY DEF Sends
    <3> QED
      BY <1>3, <2>1, <3>1
  <2>2. CASE g # f
    <3>1. g \in sent /\ g \in Fetches
      BY <1>0, <1>4, <2>2
    <3>2. GoesOn(toStorage[g.app], fileId[g], Status(g), Stored(g),
                 g.app \in alive, g \in finished, readUpTo[g])
      BY <1>1, <3>1 DEF DownloadsGoOn
    <3>3. /\ fileId'[g] = fileId[g] /\ readUpTo'[g] = readUpTo[g]
          /\ (g \in finished') = (g \in finished)
          /\ Status(g)' = Status(g) /\ Stored(g)' = Stored(g)
      BY <1>0, <1>4, <2>2, <3>1
    <3>4. CASE g.app # f.app
      <4>1. g.app \in WebApps
        BY <3>1, DownloadAssumption
      <4>2. toStorage'[g.app] = toStorage[g.app]
        BY <1>3, <3>4, <4>1
      <4> QED
        BY <3>2, <3>3, <4>2
    <3>5. CASE g.app = f.app
      <4>1. \A i \in DOMAIN s : s[i].file # fileId[g]
        BY <1>0, <2>2, <3>1, <3>5
      <4> DEFINE runs == g.app \in alive
                 ends == g \in finished
      <4>2. Status(g) \in Statuses /\ runs \in BOOLEAN /\ ends \in BOOLEAN
        BY <1>1, <3>1, FetchFacts
      <4>3. GoesOn(q, fileId[g], Status(g), Stored(g), runs, ends, readUpTo[g])
        BY <3>2, <3>5
      <4>4. GoesOn(q \o s, fileId[g], Status(g), Stored(g), runs, ends, readUpTo[g])
        <5> HIDE DEF runs, ends, q
        <5> QED
          BY <1>1, <4>1, <4>2, <4>3, GoesOnPastOthers
      <4> QED
        BY <1>3, <3>3, <3>5, <4>4
    <3> QED
      BY <3>4, <3>5
  <2> QED
    BY <2>1, <2>2
<1>8. FilesAreInOrder' /\ NoSharedFile'
  BY <1>0 DEF IInv, FilesAreInOrder, NoSharedFile
<1> QED
  BY <1>3, <1>6, <1>7, <1>8

\* Storage has taken the first message of the pipe, which was about f.
LEMMA SomethingTaken ==
    ASSUME IInv, NEW f \in sent,
           toStorage[f.app] # <<>>, Head(toStorage[f.app]).file = fileId[f],
           toStorage' = [toStorage EXCEPT ![f.app] = Tail(@)],
           UNCHANGED <<sent, fileId, readUpTo, finished, alive>>,
           DOMAIN writeQueue' = DOMAIN writeQueue \cup {Entry(f)},
           \A d \in DOMAIN writeQueue \ {Entry(f)} : writeQueue'[d] = writeQueue[d],
           GoesOn(Tail(toStorage[f.app]), fileId[f], Status(f)', Stored(f)',
                  f.app \in alive, f \in finished, readUpTo[f])
    PROVE  /\ toStorage' \in [WebApps -> Seq(Requests)]
           /\ RequestsAreOwn' /\ DownloadsGoOn'
<1> DEFINE q == toStorage[f.app]
<1>1. /\ TypeOK /\ DownloadersFollowReplies /\ FileIdsDiffer
      /\ RequestsAreOwn /\ DownloadsGoOn
  BY DEF IInv
<1>2. f \in Fetches /\ f.app \in WebApps /\ q \in Seq(Requests)
  BY <1>1, SentFacts, FetchFacts
<1>3. toStorage \in [WebApps -> Seq(Requests)]
  BY <1>1 DEF TypeOK, Requests
<1>4. /\ Tail(q) \in Seq(Requests)
      /\ Len(q) \in Nat \ {0} /\ DOMAIN q = 1..Len(q)
      /\ DOMAIN Tail(q) = 1..(Len(q) - 1)
      /\ \A i \in DOMAIN Tail(q) : Tail(q)[i] = q[i + 1]
  BY <1>2, OneLess
<1>5. /\ toStorage' \in [WebApps -> Seq(Requests)]
      /\ toStorage'[f.app] = Tail(q)
      /\ \A a \in WebApps \ {f.app} : toStorage'[a] = toStorage[a]
  BY <1>2, <1>3, <1>4
<1>6. \A g \in sent : Entry(g)' = Entry(g)
  BY DEF Entry
<1>7. \A g \in sent \ {f} : /\ Entry(g) # Entry(f)
                            /\ Status(g)' = Status(g) /\ Stored(g)' = Stored(g)
  <2> TAKE g \in sent \ {f}
  <2>1. g \in Fetches /\ fileId[g] # NoFile
    BY <1>1, SentFacts
  <2>2. Entry(g) # Entry(f)
    BY <1>1, <1>2, <2>1 DEF FileIdsDiffer, Entry
  <2>3. /\ Entry(g)' = Entry(g)
        /\ Entry(g) \in DOMAIN writeQueue' <=> Entry(g) \in DOMAIN writeQueue
        /\ Entry(g) \in DOMAIN writeQueue => writeQueue'[Entry(g)] = writeQueue[Entry(g)]
    BY <1>6, <2>2
  <2>4. Status(g)' = Status(g) /\ Stored(g)' = Stored(g)
    BY <2>3 DEF Status, Stored
  <2> QED
    BY <2>2, <2>4
<1>8. RequestsAreOwn'
  <2>1. ASSUME NEW a \in WebApps, NEW i \in DOMAIN toStorage'[a]
        PROVE  \E g \in sent : g.app = a /\ fileId[g] = toStorage'[a][i].file
    <3>1. CASE a # f.app
      BY <1>1, <1>5, <2>1, <3>1 DEF RequestsAreOwn
    <3>2. CASE a = f.app
      <4>1. i + 1 \in DOMAIN q /\ toStorage'[a][i] = q[i + 1]
        BY <1>4, <1>5, <2>1, <3>2
      <4>2. \E g \in sent : g.app = f.app /\ fileId[g] = q[i + 1].file
        BY <1>1, <1>2, <4>1 DEF RequestsAreOwn
      <4> QED
        BY <3>2, <4>1, <4>2
    <3> QED
      BY <3>1, <3>2
  <2>2. ASSUME NEW d \in DOMAIN writeQueue' PROVE \E g \in sent : Entry(g) = d
    BY <1>1 DEF RequestsAreOwn
  <2> QED
    BY <1>6, <2>1, <2>2 DEF RequestsAreOwn
<1>9. DownloadsGoOn'
  <2> SUFFICES ASSUME NEW g \in sent
               PROVE  GoesOn(toStorage'[g.app], fileId[g], Status(g)', Stored(g)',
                             g.app \in alive, g \in finished, readUpTo[g])
    BY DEF DownloadsGoOn
  <2>1. CASE g = f
    BY <1>5, <2>1
  <2>2. CASE g # f
    <3>1. g \in Fetches /\ g.app \in WebApps /\ Status(g) \in Statuses
      BY <1>1, SentFacts, FetchFacts
    <3> DEFINE runs == g.app \in alive
               ends == g \in finished
    <3>2. GoesOn(toStorage[g.app], fileId[g], Status(g), Stored(g), runs, ends, readUpTo[g])
      BY <1>1 DEF DownloadsGoOn
    <3>3. CASE g.app # f.app
      BY <1>5, <1>7, <2>2, <3>1, <3>2, <3>3
    <3>4. CASE g.app = f.app
      <4>1. Head(q).file # fileId[g]
        BY <1>1, <1>2, <2>2, <3>1, <3>4, SentFacts DEF FileIdsDiffer
      <4>2. GoesOn(q, fileId[g], Status(g), Stored(g), runs, ends, readUpTo[g])
        BY <3>2, <3>4
      <4>3. q # <<>> /\ runs \in BOOLEAN /\ ends \in BOOLEAN
        OBVIOUS
      <4>4. GoesOn(Tail(q), fileId[g], Status(g), Stored(g), runs, ends, readUpTo[g])
        <5> HIDE DEF runs, ends, q
        <5> QED
          BY <1>2, <3>1, <4>1, <4>2, <4>3, GoesOnBehindOthers
      <4> QED
        BY <1>5, <1>7, <2>2, <3>4, <4>4
    <3> QED
      BY <3>3, <3>4
  <2> QED
    BY <2>1, <2>2
<1> QED
  BY <1>5, <1>8, <1>9

\* One file has been opened, written or closed.
LEMMA OneFileChanged ==
    ASSUME FilesAreInOrder, NoSharedFile, NEW d,
           DOMAIN writeQueue' = DOMAIN writeQueue \cup {d},
           \A e \in DOMAIN writeQueue \ {d} : writeQueue'[e] = writeQueue[e],
           IsFiniteSet(disk'), disk \subseteq disk',
           \A i \in DOMAIN writeQueue'[d].content : writeQueue'[d].content[i] = i,
           writeQueue'[d].failed => ~writeQueue'[d].open /\ writeQueue'[d].content = <<>>,
           ~writeQueue'[d].failed => writeQueue'[d].name \in disk',
           \/ ~writeQueue'[d].failed => writeQueue'[d].name \notin disk
           \/ /\ d \in DOMAIN writeQueue
              /\ writeQueue'[d].name = writeQueue[d].name
              /\ writeQueue'[d].failed = writeQueue[d].failed
    PROVE  FilesAreInOrder' /\ NoSharedFile'
<1>1. FilesAreInOrder'
  <2> SUFFICES ASSUME NEW e \in DOMAIN writeQueue'
               PROVE  /\ \A i \in DOMAIN writeQueue'[e].content : writeQueue'[e].content[i] = i
                      /\ writeQueue'[e].failed =>
                            ~writeQueue'[e].open /\ writeQueue'[e].content = <<>>
                      /\ ~writeQueue'[e].failed => writeQueue'[e].name \in disk'
    BY DEF FilesAreInOrder
  <2>1. CASE e = d
    BY <2>1
  <2>2. CASE e # d
    BY <2>2 DEF FilesAreInOrder
  <2> QED
    BY <2>1, <2>2
<1>2. ASSUME NEW e \in DOMAIN writeQueue \ {d}, ~writeQueue'[e].failed, ~writeQueue'[d].failed
      PROVE  writeQueue'[e].name # writeQueue'[d].name
  <2>1. ~writeQueue[e].failed /\ writeQueue'[e].name = writeQueue[e].name
    BY <1>2
  <2>2. writeQueue[e].name \in disk
    BY <2>1 DEF FilesAreInOrder
  <2>3. CASE writeQueue'[d].name \notin disk
    BY <2>1, <2>2, <2>3
  <2>4. CASE /\ d \in DOMAIN writeQueue
             /\ writeQueue'[d].name = writeQueue[d].name
             /\ writeQueue'[d].failed = writeQueue[d].failed
    BY <1>2, <2>1, <2>4 DEF NoSharedFile
  <2> QED
    BY <1>2, <2>3, <2>4
<1>3. NoSharedFile'
  <2> SUFFICES ASSUME NEW e \in DOMAIN writeQueue', NEW g \in DOMAIN writeQueue', e # g,
                      ~writeQueue'[e].failed, ~writeQueue'[g].failed
               PROVE  writeQueue'[e].name # writeQueue'[g].name
    BY DEF NoSharedFile
  <2>1. CASE e = d \/ g = d
    BY <1>2, <2>1
  <2>2. CASE e # d /\ g # d
    BY <2>2 DEF NoSharedFile
  <2> QED
    BY <2>1, <2>2
<1> QED
  BY <1>1, <1>3

LEMMA JobIdIsNat ==
    ASSUME NEW d \in Ids
    PROVE  JobId(d) \in Nat
<1>1. d[1] \in Nat /\ d[2] \in Nat /\ JobBase \in Nat
  BY DownloadAssumption DEF Ids
<1>2. \A x, y \in Nat : x * y \in Nat
  OBVIOUS
<1> QED
  BY <1>1, <1>2 DEF JobId

\* What OpenFile, WriteData and CloseFile do to the file of f
StepOf(f, what) ==
    /\ f \in sent
    /\ toStorage[f.app] # <<>>
    /\ Head(toStorage[f.app]).file = fileId[f]
    /\ CASE what = "open"  -> /\ Entry(f) \notin DOMAIN writeQueue
                              /\ OpenFile(Entry(f), Head(toStorage[f.app]).part)
         [] what = "write" -> /\ Entry(f) \in DOMAIN writeQueue
                              /\ Head(toStorage[f.app]).part.what # "end"
                              /\ WriteData(Entry(f), Head(toStorage[f.app]).part)
         [] what = "close" -> /\ Entry(f) \in DOMAIN writeQueue
                              /\ Head(toStorage[f.app]).part.what = "end"
                              /\ CloseFile(Entry(f))

\* What each of them establishes
StepDone(f) ==
    /\ DOMAIN writeQueue' = DOMAIN writeQueue \cup {Entry(f)}
    /\ \A d \in DOMAIN writeQueue \ {Entry(f)} : writeQueue'[d] = writeQueue[d]
    /\ writeQueue'[Entry(f)] \in Files
    /\ toUi' \in Seq([job : Nat, num : Nat])
    /\ disk' \in SUBSET FileNames
    /\ GoesOn(Tail(toStorage[f.app]), fileId[f], Status(f)', Stored(f)',
              f.app \in alive, f \in finished, readUpTo[f])
    /\ FilesAreInOrder' /\ NoSharedFile'

LEMMA FirstMessage ==
    ASSUME IInv, NEW f \in sent, toStorage[f.app] # <<>>
    PROVE  /\ f \in Fetches /\ Entry(f) \in Ids
           /\ toStorage[f.app] \in Seq(Requests)
           /\ Head(toStorage[f.app]) \in Requests
           /\ readUpTo[f] \in Nat /\ Status(f) \in Statuses /\ Stored(f) \in Nat
           /\ GoesOn(toStorage[f.app], fileId[f], Status(f), Stored(f),
                     f.app \in alive, f \in finished, readUpTo[f])
           /\ Entry(f) \in DOMAIN writeQueue =>
                 /\ writeQueue[Entry(f)] \in Files
                 /\ writeQueue[Entry(f)].content \in Seq(Nat)
                 /\ Status(f) # "none"
                 /\ Stored(f) = Len(writeQueue[Entry(f)].content)
                 /\ Status(f) = "open" <=> writeQueue[Entry(f)].open
                 /\ Status(f) = "failed" <=> writeQueue[Entry(f)].failed
           /\ toUi \in Seq([job : Nat, num : Nat])
<1>1. TypeOK /\ DownloadersFollowReplies /\ DownloadsGoOn /\ FilesAreInOrder
  BY DEF IInv
<1>2. /\ f \in Fetches /\ f.app \in WebApps
      /\ toStorage[f.app] \in Seq(Requests)
      /\ readUpTo[f] \in Nat /\ Status(f) \in Statuses /\ Stored(f) \in Nat
      /\ fileId[f] \in Nat
  BY <1>1, SentFacts, FetchFacts
<1>3. Entry(f) \in Ids
  BY <1>2 DEF Entry, Ids
<1>4. Head(toStorage[f.app]) \in Requests
  BY <1>2, OneLess
<1>5. Entry(f) \in DOMAIN writeQueue =>
         /\ writeQueue[Entry(f)] \in Files
         /\ Status(f) # "none"
         /\ Stored(f) = Len(writeQueue[Entry(f)].content)
         /\ Status(f) = "open" <=> writeQueue[Entry(f)].open
         /\ Status(f) = "failed" <=> writeQueue[Entry(f)].failed
  BY <1>1 DEF TypeOK, Status, Stored, FilesAreInOrder
<1>6. Entry(f) \in DOMAIN writeQueue => writeQueue[Entry(f)].content \in Seq(Nat)
  BY <1>5 DEF Files
<1> QED
  BY <1>1, <1>2, <1>3, <1>4, <1>5, <1>6 DEF DownloadsGoOn, TypeOK

LEMMA OpenFileDone ==
    ASSUME IInv, NEW f \in sent, StepOf(f, "open"), UNCHANGED fileId
    PROVE  StepDone(f)
<1> DEFINE q == toStorage[f.app]
           d == Entry(f)
           part == Head(q).part
           name == ActualName(NameIn(part))
           runs == f.app \in alive
           ends == f \in finished
<1>1. /\ q # <<>> /\ Head(q).file = fileId[f]
      /\ d \notin DOMAIN writeQueue /\ OpenFile(d, part)
  BY DEF StepOf
<1>2. /\ d \in Ids /\ q \in Seq(Requests) /\ part \in Parts
      /\ readUpTo[f] \in Nat
      /\ GoesOn(q, fileId[f], "none", 0, runs, ends, readUpTo[f])
      /\ toUi \in Seq([job : Nat, num : Nat])
  <2>1. Status(f) = "none" /\ Stored(f) = 0
    BY <1>1 DEF Status, Stored
  <2> QED
    BY <1>1, <2>1, FirstMessage DEF Requests
<1>3. /\ part.what = "start"
      /\ GoesOn(Tail(q), fileId[f], "open", 0, runs, ends, readUpTo[f])
      /\ GoesOn(Tail(q), fileId[f], "failed", 0, runs, ends, readUpTo[f])
  <2>1. runs \in BOOLEAN /\ ends \in BOOLEAN
    OBVIOUS
  <2> HIDE DEF q, runs, ends
  <2> QED
    BY <1>1, <1>2, <2>1, GoesOnWhenOpened DEF part
<1>4. TypeOK /\ FilesAreInOrder /\ NoSharedFile /\ IsFiniteSet(disk) /\ disk \in SUBSET FileNames
  BY DEF IInv, FilesAreInOrder, TypeOK
<1>5. name \in FileNames /\ name \notin disk
  <2>1. NameIn(part) \in Names \cup {NoName}
    BY <1>2, <1>3, PartFacts DEF NameIn
  <2> QED
    BY <1>4, <2>1, ActualNameIsFree
<1>6. PICK ok \in BOOLEAN :
         /\ writeQueue' = Put(writeQueue, d,
               [name |-> name, open |-> ok, content |-> <<>>, failed |-> ~ok])
         /\ disk' = IF ok THEN disk \cup {name} ELSE disk
         /\ toUi' = Append(toUi, [job |-> JobId(d), num |-> 0])
  BY <1>1 DEF OpenFile
<1> HIDE DEF name, part
<1>7. /\ DOMAIN writeQueue' = DOMAIN writeQueue \cup {d}
      /\ \A e \in DOMAIN writeQueue \ {d} : writeQueue'[e] = writeQueue[e]
      /\ writeQueue'[d] = [name |-> name, open |-> ok, content |-> <<>>, failed |-> ~ok]
  BY <1>6 DEF Put
<1>8. writeQueue'[d] \in Files
  <2>1. <<>> \in Seq(Nat)
    OBVIOUS
  <2> QED
    BY <1>5, <1>7, <2>1 DEF Files
<1>9. toUi' \in Seq([job : Nat, num : Nat])
  BY <1>2, <1>6, JobIdIsNat
<1>10. Status(f)' \in {"open", "failed"} /\ Stored(f)' = 0
  <2>1. Entry(f)' = d /\ d \in DOMAIN writeQueue'
    BY <1>7 DEF Entry
  <2>2. /\ writeQueue'[d].open = ok /\ writeQueue'[d].failed = ~ok
        /\ Len(writeQueue'[d].content) = 0
    BY <1>7
  <2>3. Stored(f)' = 0
    BY <2>1, <2>2 DEF Stored
  <2>4. Status(f)' \in {"open", "failed"}
    BY <2>1, <2>2 DEF Status
  <2> QED
    BY <2>3, <2>4
<1>11. GoesOn(Tail(q), fileId[f], Status(f)', Stored(f)', runs, ends, readUpTo[f])
  BY <1>3, <1>10
<1>12. IsFiniteSet(disk') /\ disk \subseteq disk' /\ disk' \in SUBSET FileNames
  BY <1>4, <1>5, <1>6, FS_AddElement
<1>13. FilesAreInOrder' /\ NoSharedFile'
  <2>1. /\ writeQueue'[d].name = name /\ writeQueue'[d].open = ok
        /\ writeQueue'[d].content = <<>> /\ writeQueue'[d].failed = ~ok
    BY <1>7
  <2>2. DOMAIN writeQueue'[d].content = {}
    BY <1>7
  <2>3. /\ \A i \in DOMAIN writeQueue'[d].content : writeQueue'[d].content[i] = i
        /\ writeQueue'[d].failed => ~writeQueue'[d].open /\ writeQueue'[d].content = <<>>
        /\ ~writeQueue'[d].failed => writeQueue'[d].name \in disk'
        /\ writeQueue'[d].name \notin disk
    BY <1>5, <1>6, <2>1, <2>2
  <2> HIDE DEF d
  <2> QED
    BY <1>4, <1>7, <1>12, <2>3, OneFileChanged
<1> QED
  BY <1>7, <1>8, <1>9, <1>11, <1>12, <1>13 DEF StepDone

LEMMA ChunksFacts ==
    ASSUME NEW part, part.from \in Nat, part.to \in Nat, part.from >= 1, part.from <= part.to
    PROVE  /\ Chunks(part) \in Seq(Nat)
           /\ Len(Chunks(part)) = part.to - part.from + 1
           /\ \A i \in 1..(part.to - part.from + 1) : Chunks(part)[i] = part.from + i - 1
<1> DEFINE n == part.to - part.from + 1
<1>1. n \in Nat
  OBVIOUS
<1>2. /\ DOMAIN Chunks(part) = 1..n
      /\ \A i \in 1..n : Chunks(part)[i] = part.from + i - 1 /\ part.from + i - 1 \in Nat
  BY DEF Chunks
<1>3. Chunks(part) \in [1..n -> Nat]
  BY <1>2 DEF Chunks
<1> HIDE DEF n
<1>4. Chunks(part) \in Seq(Nat)
  BY <1>1, <1>3, SeqDef
<1>5. Len(Chunks(part)) = n
  BY <1>1, <1>2, <1>4, LenProperties
<1> QED
  BY <1>2, <1>4, <1>5 DEF n

\* What is written to a file that holds chunks 1..s goes on with s + 1.
LEMMA ContentGoesOn ==
    ASSUME NEW c \in Seq(Nat), \A i \in DOMAIN c : c[i] = i,
           NEW part, part.from \in Nat, part.to \in Nat,
           part.from = Len(c) + 1, part.from <= part.to
    PROVE  LET e == c \o Chunks(part) IN
           e \in Seq(Nat) /\ Len(e) = part.to /\ \A i \in DOMAIN e : e[i] = i
<1> DEFINE e == c \o Chunks(part)
<1>1. Len(c) \in Nat /\ DOMAIN c = 1..Len(c)
  BY LenProperties
<1>2. /\ Chunks(part) \in Seq(Nat)
      /\ Len(Chunks(part)) = part.to - part.from + 1
      /\ \A i \in 1..(part.to - part.from + 1) : Chunks(part)[i] = part.from + i - 1
  BY <1>1, ChunksFacts
<1>3. /\ e \in Seq(Nat) /\ Len(e) = Len(c) + Len(Chunks(part))
      /\ \A i \in 1..(Len(c) + Len(Chunks(part))) :
            e[i] = IF i <= Len(c) THEN c[i] ELSE Chunks(part)[i - Len(c)]
  BY <1>2, ConcatProperties
<1>4. Len(e) = part.to
  BY <1>1, <1>2, <1>3
<1>5. DOMAIN e = 1..part.to
  BY <1>3, <1>4, LenProperties
<1> HIDE DEF e
<1>6. \A i \in 1..part.to : e[i] = i
  <2> TAKE i \in 1..part.to
  <2>1. e[i] = IF i <= Len(c) THEN c[i] ELSE Chunks(part)[i - Len(c)]
    BY <1>3, <1>4
  <2>2. CASE i <= Len(c)
    BY <1>1, <2>1, <2>2
  <2>3. CASE ~(i <= Len(c))
    <3>1. i - Len(c) \in 1..(part.to - part.from + 1)
      BY <1>1, <2>3
    <3>2. e[i] = part.from + (i - Len(c)) - 1
      BY <1>2, <2>1, <2>3, <3>1
    <3> QED
      BY <1>1, <3>2
  <2> QED
    BY <2>2, <2>3
<1> QED
  BY <1>3, <1>4, <1>5, <1>6 DEF e

\* The file of f is as before but for its content, or but for being open.
LEMMA WrittenOrClosed ==
    ASSUME IInv, NEW f \in sent, UNCHANGED <<fileId, disk>>,
           Entry(f) \in DOMAIN writeQueue,
           NEW c \in Seq(Nat), NEW o \in BOOLEAN,
           \A i \in DOMAIN c : c[i] = i,
           writeQueue[Entry(f)].failed => ~o /\ c = <<>>,
           DOMAIN writeQueue' = DOMAIN writeQueue,
           \A d \in DOMAIN writeQueue \ {Entry(f)} : writeQueue'[d] = writeQueue[d],
           writeQueue'[Entry(f)] = [name |-> writeQueue[Entry(f)].name, open |-> o, content |-> c,
                                    failed |-> writeQueue[Entry(f)].failed]
    PROVE  /\ writeQueue'[Entry(f)] \in Files
           /\ disk' \in SUBSET FileNames
           /\ FilesAreInOrder' /\ NoSharedFile'
           /\ Stored(f)' = Len(c)
           /\ Status(f)' = IF writeQueue[Entry(f)].failed THEN "failed"
                           ELSE IF o THEN "open" ELSE "closed"
<1> DEFINE d == Entry(f)
           old == writeQueue[d]
<1>1. /\ FilesAreInOrder /\ NoSharedFile /\ old \in Files
      /\ IsFiniteSet(disk) /\ disk \in SUBSET FileNames
  BY DEF IInv, TypeOK, FilesAreInOrder
<1>2. /\ writeQueue'[d].name = old.name /\ writeQueue'[d].open = o
      /\ writeQueue'[d].content = c /\ writeQueue'[d].failed = old.failed
  OBVIOUS
<1>3. writeQueue'[d] \in Files
  BY <1>1 DEF Files
<1>4. ~old.failed => old.name \in disk
  BY <1>1 DEF FilesAreInOrder
<1>5. FilesAreInOrder' /\ NoSharedFile'
  <2>1. /\ DOMAIN writeQueue' = DOMAIN writeQueue \cup {d}
        /\ IsFiniteSet(disk') /\ disk \subseteq disk'
        /\ \A i \in DOMAIN writeQueue'[d].content : writeQueue'[d].content[i] = i
        /\ writeQueue'[d].failed => ~writeQueue'[d].open /\ writeQueue'[d].content = <<>>
        /\ ~writeQueue'[d].failed => writeQueue'[d].name \in disk'
        /\ writeQueue'[d].name = writeQueue[d].name
        /\ writeQueue'[d].failed = writeQueue[d].failed
    BY <1>1, <1>2, <1>4
  <2> HIDE DEF d
  <2> QED
    BY <1>1, <2>1, OneFileChanged DEF d
<1>6. Entry(f)' = d /\ d \in DOMAIN writeQueue'
  BY DEF Entry
<1>7. Stored(f)' = Len(c)
  BY <1>2, <1>6 DEF Stored
<1>8. Status(f)' = IF old.failed THEN "failed" ELSE IF o THEN "open" ELSE "closed"
  BY <1>2, <1>6 DEF Status
<1> QED
  BY <1>1, <1>3, <1>5, <1>7, <1>8

LEMMA WriteDataDone ==
    ASSUME IInv, NEW f \in sent, StepOf(f, "write"), UNCHANGED fileId
    PROVE  StepDone(f)
<1> DEFINE q == toStorage[f.app]
           d == Entry(f)
           part == Head(q).part
           runs == f.app \in alive
           ends == f \in finished
           old == writeQueue[d]
<1>1. /\ q # <<>> /\ Head(q).file = fileId[f]
      /\ d \in DOMAIN writeQueue /\ part.what # "end" /\ WriteData(d, part)
  BY DEF StepOf
<1>2. /\ d \in Ids /\ q \in Seq(Requests)
      /\ readUpTo[f] \in Nat
      /\ GoesOn(q, fileId[f], Status(f), Stored(f), runs, ends, readUpTo[f])
      /\ toUi \in Seq([job : Nat, num : Nat])
      /\ old \in Files /\ old.content \in Seq(Nat)
      /\ Status(f) \in Statuses \ {"none"}
      /\ Stored(f) = Len(old.content) /\ Stored(f) \in Nat
      /\ Status(f) = "open" <=> old.open
      /\ Status(f) = "failed" <=> old.failed
  BY <1>1, FirstMessage
<1>3. /\ part.from \in Nat /\ part.to \in Nat
      /\ Status(f) # "closed"
      /\ Status(f) = "open" =>
            /\ part.from = Stored(f) + 1 /\ Stored(f) + 1 <= part.to
            /\ GoesOn(Tail(q), fileId[f], "open", part.to, runs, ends, readUpTo[f])
      /\ Status(f) = "failed" =>
            GoesOn(Tail(q), fileId[f], "failed", Stored(f), runs, ends, readUpTo[f])
  <2>1. runs \in BOOLEAN /\ ends \in BOOLEAN
    OBVIOUS
  <2> HIDE DEF q, runs, ends
  <2> QED
    BY <1>1, <1>2, <2>1, GoesOnWhenWritten DEF part
<1>4. /\ \A i \in DOMAIN old.content : old.content[i] = i
      /\ old.failed => ~old.open /\ old.content = <<>>
      /\ DOMAIN old = {"name", "open", "content", "failed"}
      /\ old = [name |-> old.name, open |-> old.open, content |-> old.content,
                failed |-> old.failed]
      /\ old.open \in BOOLEAN
  BY <1>1, <1>2 DEF IInv, FilesAreInOrder, Files
<1>5. disk' = disk
  BY <1>1 DEF WriteData
<1>6. JobId(d) \in Nat
  BY <1>2, JobIdIsNat
<1>7. CASE old.open
  <2> DEFINE c == old.content \o Chunks(part)
  <2>1. /\ Status(f) = "open" /\ ~old.failed
        /\ part.from = Len(old.content) + 1 /\ part.from <= part.to
    BY <1>2, <1>3, <1>4, <1>7
  <2>2. c \in Seq(Nat) /\ Len(c) = part.to /\ \A i \in DOMAIN c : c[i] = i
    BY <1>2, <1>3, <1>4, <2>1, ContentGoesOn
  <2>3. Len(Chunks(part)) \in Nat
    <3>1. part.from >= 1
      BY <1>2, <2>1
    <3>2. Chunks(part) \in Seq(Nat)
      BY <1>3, <2>1, <3>1, ChunksFacts
    <3> QED
      BY <3>2, LenProperties
  <2>4. /\ writeQueue' = [writeQueue EXCEPT ![d].content = c]
        /\ toUi' = Append(toUi, [job |-> JobId(d), num |-> Len(Chunks(part))])
    BY <1>1, <1>7 DEF WriteData
  <2> HIDE DEF c
  <2>5. toUi' \in Seq([job : Nat, num : Nat])
    <3>1. [job |-> JobId(d), num |-> Len(Chunks(part))] \in [job : Nat, num : Nat]
      BY <1>6, <2>3
    <3> QED
      BY <1>2, <2>4, <3>1, AppendProperties
  <2>6. /\ DOMAIN writeQueue' = DOMAIN writeQueue
        /\ \A e \in DOMAIN writeQueue \ {d} : writeQueue'[e] = writeQueue[e]
        /\ writeQueue'[d] = [name |-> old.name, open |-> TRUE, content |-> c,
                             failed |-> old.failed]
    BY <1>1, <1>2, <1>7, <2>4 DEF Files
  <2>7. /\ writeQueue'[d] \in Files
        /\ disk' \in SUBSET FileNames
        /\ FilesAreInOrder' /\ NoSharedFile'
        /\ Stored(f)' = Len(c)
        /\ Status(f)' = IF old.failed THEN "failed" ELSE IF TRUE THEN "open" ELSE "closed"
    BY <1>1, <1>5, <2>1, <2>2, <2>6, WrittenOrClosed
  <2>8. Status(f)' = "open" /\ Stored(f)' = part.to
    BY <2>1, <2>2, <2>7
  <2> QED
    BY <1>1, <1>3, <2>1, <2>5, <2>6, <2>7, <2>8 DEF StepDone
<1>8. CASE ~old.open
  <2>1. Status(f) = "failed" /\ old.failed /\ old.content = <<>>
    BY <1>2, <1>3, <1>4, <1>8 DEF Statuses
  <2>2. /\ writeQueue' = writeQueue
        /\ toUi' = Append(toUi, [job |-> JobId(d), num |-> 0])
    BY <1>1, <1>8 DEF WriteData
  <2>3. toUi' \in Seq([job : Nat, num : Nat])
    BY <1>2, <1>6, <2>2
  <2>4. Status(f)' = Status(f) /\ Stored(f)' = Stored(f)
    BY <2>2 DEF Status, Stored, Entry
  <2>5. FilesAreInOrder' /\ NoSharedFile' /\ disk' \in SUBSET FileNames
    BY <1>5, <2>2 DEF IInv, FilesAreInOrder, NoSharedFile, TypeOK
  <2> QED
    BY <1>1, <1>2, <1>3, <2>1, <2>2, <2>3, <2>4, <2>5 DEF StepDone
<1> QED
  BY <1>7, <1>8

LEMMA CloseFileDone ==
    ASSUME IInv, NEW f \in sent, StepOf(f, "close"), UNCHANGED fileId
    PROVE  StepDone(f)
<1> DEFINE q == toStorage[f.app]
           d == Entry(f)
           runs == f.app \in alive
           ends == f \in finished
           old == writeQueue[d]
           c == old.content
<1>1. /\ q # <<>> /\ Head(q).file = fileId[f] /\ Head(q).part.what = "end"
      /\ d \in DOMAIN writeQueue /\ CloseFile(d)
  BY DEF StepOf
<1>2. /\ d \in Ids /\ q \in Seq(Requests)
      /\ readUpTo[f] \in Nat
      /\ GoesOn(q, fileId[f], Status(f), Stored(f), runs, ends, readUpTo[f])
      /\ toUi \in Seq([job : Nat, num : Nat])
      /\ old \in Files /\ c \in Seq(Nat)
      /\ Status(f) \in Statuses \ {"none"}
      /\ Stored(f) = Len(c) /\ Stored(f) \in Nat
      /\ Status(f) = "open" <=> old.open
      /\ Status(f) = "failed" <=> old.failed
  BY <1>1, FirstMessage
<1>3. /\ Status(f) \in {"open", "failed"}
      /\ Status(f) = "open" =>
            GoesOn(Tail(q), fileId[f], "closed", Stored(f), runs, ends, readUpTo[f])
      /\ Status(f) = "failed" =>
            GoesOn(Tail(q), fileId[f], "failed", Stored(f), runs, ends, readUpTo[f])
  <2>1. runs \in BOOLEAN /\ ends \in BOOLEAN
    OBVIOUS
  <2> HIDE DEF q, runs, ends
  <2> QED
    BY <1>1, <1>2, <2>1, GoesOnWhenClosed
<1>4. /\ \A i \in DOMAIN c : c[i] = i
      /\ old.failed => ~FALSE /\ c = <<>>
  BY <1>1, <1>2 DEF IInv, FilesAreInOrder
<1>5. /\ writeQueue' = [writeQueue EXCEPT ![d].open = FALSE]
      /\ toUi' = Append(toUi, [job |-> JobId(d), num |-> 0])
      /\ disk' = disk
  BY <1>1 DEF CloseFile
<1>6. toUi' \in Seq([job : Nat, num : Nat])
  BY <1>2, <1>5, JobIdIsNat
<1>7. /\ DOMAIN writeQueue' = DOMAIN writeQueue
      /\ \A e \in DOMAIN writeQueue \ {d} : writeQueue'[e] = writeQueue[e]
      /\ writeQueue'[d] = [name |-> old.name, open |-> FALSE, content |-> c,
                           failed |-> old.failed]
  BY <1>1, <1>2, <1>5 DEF Files
<1>8. /\ writeQueue'[d] \in Files
      /\ disk' \in SUBSET FileNames
      /\ FilesAreInOrder' /\ NoSharedFile'
      /\ Stored(f)' = Len(c)
      /\ Status(f)' = IF old.failed THEN "failed" ELSE IF FALSE THEN "open" ELSE "closed"
  BY <1>1, <1>2, <1>4, <1>5, <1>7, WrittenOrClosed
<1>9. GoesOn(Tail(q), fileId[f], Status(f)', Stored(f)', runs, ends, readUpTo[f])
  BY <1>2, <1>3, <1>8
<1> QED
  BY <1>1, <1>6, <1>7, <1>8, <1>9 DEF StepDone

-----------------------------------------------------------------------------
\* The actions

LEMMA WriteFileKeeps ==
    ASSUME IInv, NEW a \in WebApps, WriteFile(a)
    PROVE  IInv'
<1> DEFINE m == Head(toStorage[a])
<1>1. /\ toStorage[a] # <<>>
      /\ toStorage' = [toStorage EXCEPT ![a] = Tail(@)]
      /\ \/ Key(a, m.file) \notin DOMAIN writeQueue /\ OpenFile(Key(a, m.file), m.part)
         \/ /\ Key(a, m.file) \in DOMAIN writeQueue /\ m.part.what # "end"
            /\ WriteData(Key(a, m.file), m.part)
         \/ /\ Key(a, m.file) \in DOMAIN writeQueue /\ m.part.what = "end"
            /\ CloseFile(Key(a, m.file))
      /\ UNCHANGED <<stream, alive, reply, downloader, items>>
  BY DEF WriteFile
<1>2. PICK f \in sent : f.app = a /\ fileId[f] = m.file
  <2>1. toStorage[a] \in Seq(Requests)
    BY DEF IInv, TypeOK, Requests
  <2>2. 1 \in DOMAIN toStorage[a] /\ m = toStorage[a][1]
    BY <1>1, <2>1, OneLess
  <2> QED
    BY <2>2 DEF IInv, RequestsAreOwn
<1>3. Key(a, m.file) = Entry(f)
  BY <1>2 DEF Key, Entry
<1>4. UNCHANGED <<phase, chunks, alive, state, known, written, readUpTo, nextId, fileId, sent,
                  finished, attachedAt, items>>
  BY <1>1 DEF stream, reply, downloader
<1>5. StepDone(f)
  <2>1. StepOf(f, "open") \/ StepOf(f, "write") \/ StepOf(f, "close")
    BY <1>1, <1>2, <1>3 DEF StepOf
  <2> QED
    BY <1>4, <2>1, OpenFileDone, WriteDataDone, CloseFileDone
<1>6. /\ toStorage' \in [WebApps -> Seq(Requests)]
      /\ RequestsAreOwn' /\ DownloadsGoOn'
  <2>1. /\ DOMAIN writeQueue' = DOMAIN writeQueue \cup {Entry(f)}
        /\ \A d \in DOMAIN writeQueue \ {Entry(f)} : writeQueue'[d] = writeQueue[d]
        /\ GoesOn(Tail(toStorage[f.app]), fileId[f], Status(f)', Stored(f)',
                  f.app \in alive, f \in finished, readUpTo[f])
    BY <1>5 DEF StepDone
  <2>2. /\ toStorage[f.app] # <<>> /\ Head(toStorage[f.app]).file = fileId[f]
        /\ toStorage' = [toStorage EXCEPT ![f.app] = Tail(@)]
    BY <1>1, <1>2
  <2>3. UNCHANGED <<sent, fileId, readUpTo, finished, alive>>
    BY <1>4
  <2> QED
    BY <2>1, <2>2, <2>3, SomethingTaken
<1>7. TypeOK'
  <2>1. TypeOK /\ Entry(f) \in Ids
    BY <1>1, <1>2, FirstMessage DEF IInv
  <2>2. DOMAIN writeQueue' \subseteq Ids /\ \A d \in DOMAIN writeQueue' : writeQueue'[d] \in Files
    BY <1>5, <2>1 DEF StepDone, TypeOK
  <2> QED
    BY <1>4, <1>5, <1>6, <2>1, <2>2 DEF StepDone, TypeOK, Requests
<1>8. RepliesFollowTheStream' /\ DownloadersFollowReplies' /\ FileIdsDiffer'
  BY <1>4 DEF IInv, RepliesFollowTheStream, DownloadersFollowReplies, FileIdsDiffer
<1> QED
  BY <1>5, <1>6, <1>7, <1>8 DEF IInv, StepDone

LEMMA HandleDownloadInfoKeeps ==
    ASSUME IInv, HandleDownloadInfo
    PROVE  IInv'
<1> DEFINE m == Head(toUi)
<1>1. /\ toUi # <<>> /\ toUi' = Tail(toUi)
      /\ items' = IF m.job \notin DOMAIN items
                  THEN Put(items, m.job, [received |-> 0, finished |-> FALSE])
                  ELSE IF m.num > 0
                       THEN [items EXCEPT ![m.job].received = @ + m.num]
                       ELSE [items EXCEPT ![m.job].finished = TRUE]
  BY DEF HandleDownloadInfo
<1>2. UNCHANGED <<phase, chunks, alive, state, known, written, readUpTo, nextId, fileId, sent,
                  finished, attachedAt, toStorage, writeQueue, disk>>
  BY DEF HandleDownloadInfo, stream, reply, downloader, storage
<1>3. TypeOK
  BY DEF IInv
<1>4. toUi' \in Seq([job : Nat, num : Nat]) /\ m.job \in Nat /\ m.num \in Nat
  <2>1. toUi \in Seq([job : Nat, num : Nat])
    BY <1>3 DEF TypeOK
  <2>2. Tail(toUi) \in Seq([job : Nat, num : Nat]) /\ m \in [job : Nat, num : Nat]
    BY <1>1, <2>1, HeadTailProperties
  <2> QED
    BY <1>1, <2>2
<1>5. /\ DOMAIN items' \subseteq Nat
      /\ \A j \in DOMAIN items' : items'[j] \in [received : Nat, finished : BOOLEAN]
  <2>1. /\ DOMAIN items \subseteq Nat
        /\ \A j \in DOMAIN items : items[j] \in [received : Nat, finished : BOOLEAN]
    BY <1>3 DEF TypeOK
  <2> HIDE DEF m
  <2>2. CASE m.job \notin DOMAIN items
    BY <1>1, <1>4, <2>1, <2>2 DEF Put
  <2>3. CASE m.job \in DOMAIN items /\ m.num > 0
    <3>1. /\ items[m.job].received \in Nat
          /\ items[m.job] \in [received : Nat, finished : BOOLEAN]
      BY <2>1, <2>3
    <3>2. items[m.job].received + m.num \in Nat
      BY <1>4, <3>1
    <3>3. items' = [items EXCEPT ![m.job].received = items[m.job].received + m.num]
      BY <1>1, <2>3
    <3> QED
      BY <2>1, <3>1, <3>2, <3>3
  <2>4. CASE m.job \in DOMAIN items /\ ~(m.num > 0)
    BY <1>1, <1>4, <2>1, <2>4
  <2> QED
    BY <2>2, <2>3, <2>4
<1>6. TypeOK'
  BY <1>2, <1>3, <1>4, <1>5 DEF TypeOK
<1>7. RequestsAreOwn' /\ DownloadsGoOn' /\ FilesAreInOrder' /\ NoSharedFile'
  BY <1>2, NothingSent
<1>8. RepliesFollowTheStream' /\ DownloadersFollowReplies' /\ FileIdsDiffer'
  BY <1>2 DEF IInv, RepliesFollowTheStream, DownloadersFollowReplies, FileIdsDiffer
<1> QED
  BY <1>6, <1>7, <1>8 DEF IInv

LEMMA AppDiesKeeps ==
    ASSUME IInv, NEW a \in WebApps, AppDies(a)
    PROVE  IInv'
<1> DEFINE q == toStorage[a]
<1>1. PICK n \in 0..Len(q) : toStorage' = [toStorage EXCEPT ![a] = SubSeq(@, 1, n)]
  BY DEF AppDies
<1>2. alive' = alive \ {a}
  BY DEF AppDies
<1>3. UNCHANGED <<phase, chunks, state, known, written, readUpTo, nextId, fileId, sent,
                  finished, attachedAt, writeQueue, disk, toUi, items>>
  BY DEF AppDies, stream, reply, downloader, storage
<1>4. TypeOK /\ DownloadersFollowReplies
  BY DEF IInv
<1>5. toStorage \in [WebApps -> Seq(Requests)] /\ q \in Seq(Requests)
  BY <1>4 DEF TypeOK, Requests
<1>6. /\ SubSeq(q, 1, n) \in Seq(Requests)
      /\ DOMAIN SubSeq(q, 1, n) \subseteq DOMAIN q
      /\ \A i \in DOMAIN SubSeq(q, 1, n) : SubSeq(q, 1, n)[i] = q[i]
  BY <1>5, ABeginning
<1>7. /\ toStorage' \in [WebApps -> Seq(Requests)]
      /\ toStorage'[a] = SubSeq(q, 1, n)
      /\ \A b \in WebApps \ {a} : toStorage'[b] = toStorage[b]
  BY <1>1, <1>5, <1>6
<1>8. TypeOK'
  BY <1>2, <1>3, <1>4, <1>7 DEF TypeOK, Requests
<1>9. RequestsAreOwn'
  <2>1. ASSUME NEW b \in WebApps, NEW i \in DOMAIN toStorage'[b]
        PROVE  \E g \in sent : g.app = b /\ fileId[g] = toStorage'[b][i].file
    <3>1. i \in DOMAIN toStorage[b] /\ toStorage'[b][i] = toStorage[b][i]
      BY <1>6, <1>7, <2>1
    <3> QED
      BY <3>1 DEF IInv, RequestsAreOwn
  <2>2. \A d \in DOMAIN writeQueue : \E g \in sent : Entry(g) = d
    BY DEF IInv, RequestsAreOwn
  <2> QED
    BY <1>3, <2>1, <2>2 DEF RequestsAreOwn, Entry
<1>10. DownloadsGoOn'
  <2> SUFFICES ASSUME NEW g \in sent
               PROVE  GoesOn(toStorage'[g.app], fileId[g], Status(g)', Stored(g)',
                             g.app \in alive', g \in finished, readUpTo[g])
    BY <1>3 DEF DownloadsGoOn
  <2> DEFINE runs == g.app \in alive
             ends == g \in finished
  <2>1. g \in Fetches /\ g.app \in WebApps /\ Status(g) \in Statuses
    BY <1>4, SentFacts, FetchFacts
  <2>2. Status(g)' = Status(g) /\ Stored(g)' = Stored(g)
    BY <1>3 DEF Status, Stored, Entry
  <2>3. GoesOn(toStorage[g.app], fileId[g], Status(g), Stored(g), runs, ends, readUpTo[g])
    BY DEF IInv, DownloadsGoOn
  <2>4. CASE g.app # a
    <3>1. (g.app \in alive') = runs
      BY <1>2, <2>4
    <3> QED
      BY <1>7, <2>1, <2>2, <2>3, <2>4, <3>1
  <2>5. CASE g.app = a
    <3>1. GoesOn(q, fileId[g], Status(g), Stored(g), runs, ends, readUpTo[g])
      BY <2>3, <2>5
    <3>2. runs \in BOOLEAN /\ ends \in BOOLEAN
      OBVIOUS
    <3>3. GoesOn(SubSeq(q, 1, n), fileId[g], Status(g), Stored(g), FALSE, ends, readUpTo[g])
      <4> HIDE DEF runs, ends, q
      <4> QED
        BY <1>5, <2>1, <3>1, <3>2, GoesOnInWhatIsLeft
    <3>4. (g.app \in alive') = FALSE
      BY <1>2, <2>5
    <3> QED
      BY <1>7, <2>2, <2>5, <3>3, <3>4
  <2> QED
    BY <2>4, <2>5
<1>11. FilesAreInOrder' /\ NoSharedFile'
  BY <1>3 DEF IInv, FilesAreInOrder, NoSharedFile
<1>12. RepliesFollowTheStream' /\ DownloadersFollowReplies' /\ FileIdsDiffer'
  BY <1>3 DEF IInv, RepliesFollowTheStream, DownloadersFollowReplies, FileIdsDiffer
<1> QED
  BY <1>8, <1>9, <1>10, <1>11, <1>12 DEF IInv

LEMMA CreateRequestKeeps ==
    ASSUME IInv, NEW f \in Fetches, CreateRequest(f)
    PROVE  IInv'
<1>1. /\ state[f] = "none" /\ state' = [state EXCEPT ![f] = "Idle"]
      /\ UNCHANGED <<phase, chunks, alive, known, written, readUpTo, nextId, fileId, sent,
                     finished, attachedAt, toStorage, writeQueue, disk, toUi, items>>
  BY DEF CreateRequest, stream, downloader, storage
<1>2. /\ TypeOK /\ RepliesFollowTheStream /\ DownloadersFollowReplies /\ FileIdsDiffer
  BY DEF IInv
<1>3. TypeOK'
  BY <1>1, <1>2 DEF TypeOK
<1>4. \A g \in Fetches : state'[g] = IF g = f THEN "Idle" ELSE state[g]
  BY <1>1, <1>2 DEF TypeOK
<1>5. RepliesFollowTheStream'
  BY <1>1, <1>2, <1>4 DEF RepliesFollowTheStream
<1>6. fileId[f] = NoFile
  BY <1>1, <1>2 DEF DownloadersFollowReplies
<1>7. DownloadersFollowReplies'
  BY <1>1, <1>2, <1>4, <1>6 DEF DownloadersFollowReplies
<1>8. FileIdsDiffer'
  BY <1>1, <1>2 DEF FileIdsDiffer
<1>9. RequestsAreOwn' /\ DownloadsGoOn' /\ FilesAreInOrder' /\ NoSharedFile'
  BY <1>1, NothingSent
<1> QED
  BY <1>3, <1>5, <1>7, <1>8, <1>9 DEF IInv

LEMMA AbortKeeps ==
    ASSUME IInv, NEW f \in Fetches, Abort(f)
    PROVE  IInv'
<1>1. /\ state[f] = "Idle" /\ fileId[f] = NoFile /\ state' = [state EXCEPT ![f] = "Aborted"]
      /\ UNCHANGED <<phase, chunks, alive, known, written, readUpTo, nextId, fileId, sent,
                     finished, attachedAt, toStorage, writeQueue, disk, toUi, items>>
  BY DEF Abort, stream, downloader, storage
<1>2. /\ TypeOK /\ RepliesFollowTheStream /\ DownloadersFollowReplies /\ FileIdsDiffer
  BY DEF IInv
<1>3. TypeOK'
  BY <1>1, <1>2 DEF TypeOK
<1>4. \A g \in Fetches : state'[g] = IF g = f THEN "Aborted" ELSE state[g]
  BY <1>1, <1>2 DEF TypeOK
<1>5. RepliesFollowTheStream'
  BY <1>1, <1>2, <1>4 DEF RepliesFollowTheStream
<1>6. DownloadersFollowReplies'
  BY <1>1, <1>2, <1>4 DEF DownloadersFollowReplies
<1>7. FileIdsDiffer'
  BY <1>1, <1>2 DEF FileIdsDiffer
<1>8. RequestsAreOwn' /\ DownloadsGoOn' /\ FilesAreInOrder' /\ NoSharedFile'
  BY <1>1, NothingSent
<1> QED
  BY <1>3, <1>5, <1>6, <1>7, <1>8 DEF IInv

-----------------------------------------------------------------------------
\* What a downloader sends

LEMMA OneMessage ==
    ASSUME NEW q \in Seq(Requests), NEW m \in Requests
    PROVE  /\ <<m>> \in Seq(Requests)
           /\ q \o <<m>> = Append(q, m)
           /\ <<>> \o <<m>> = <<m>>
           /\ \A i \in DOMAIN <<m>> : <<m>>[i] = m
<1>1. <<m>> \in Seq(Requests) /\ \A i \in DOMAIN <<m>> : <<m>>[i] = m
  OBVIOUS
<1> QED
  BY <1>1, AppendIsConcat, ConcatEmptySeq

DataRequest(file, from, to) == Request(file, [what |-> "data", from |-> from, to |-> to])
OneData(file, from, to) == <<DataRequest(file, from, to)>>

LEMMA EmptyConcat ==
    ASSUME NEW file, NEW from, NEW to
    PROVE  <<>> \o OneData(file, from, to) = OneData(file, from, to)
<1>1. OneData(file, from, to) \in Seq({DataRequest(file, from, to)})
  BY DEF OneData
<1> QED
  BY <1>1, ConcatEmptySeq

\* What downloadReadyRead sends when there is something to read
LEMMA ReadMore ==
    ASSUME NEW file, NEW from \in Nat, NEW to \in Nat, from <= to,
           NEW d \in DownloadReadyRead(file, TRUE, from, to)
    PROVE  d = OneData(file, from, to)
<1>1. ~(from > to)
  OBVIOUS
<1>2. d = <<>> \o OneData(file, from, to)
  BY <1>1 DEF DownloadReadyRead, Starts, OneData, DataRequest
<1> QED
  BY <1>2, EmptyConcat

LEMMA ReadAtStart ==
    ASSUME NEW file, NEW from \in Nat, NEW to \in Nat, from <= to,
           NEW d \in DownloadReadyRead(file, FALSE, from, to)
    PROVE  \E s \in Starts(file, FALSE) : d = s \o OneData(file, from, to)
<1>1. ~(from > to)
  OBVIOUS
<1> QED
  BY <1>1 DEF DownloadReadyRead, OneData, DataRequest

LEMMA StartSent ==
    ASSUME NEW q \in Seq(Requests), NEW file \in Nat, About(q, file) = {},
           NEW s \in Starts(file, FALSE)
    PROVE  /\ s \in Seq(Requests)
           /\ AllAbout(s, file)
           /\ q \o s \in Seq(Requests)
           /\ GoesOn(q \o s, file, "none", 0, TRUE, FALSE, 0)
<1>1. PICK n \in Names : s = <<Request(file, StartOf(n))>>
  BY DEF Starts
<1> DEFINE m == Request(file, StartOf(n))
<1>2. m.file = file /\ m.part.what = "start" /\ m \in Requests
  BY DEF Request, StartOf, Requests, Parts
<1>3. s = <<m>>
  BY <1>1
<1> HIDE DEF m
<1>4. /\ s \in Seq(Requests) /\ q \o s = Append(q, m)
      /\ \A i \in DOMAIN s : s[i] = m
  BY <1>2, <1>3, OneMessage
<1>5. GoesOn(Append(q, m), file, "none", 0, TRUE, FALSE, 0)
  BY <1>2, GoesOnFromStart
<1>6. q \o s \in Seq(Requests)
  BY <1>4, SomeMore
<1> QED
  BY <1>2, <1>4, <1>5, <1>6 DEF AllAbout

LEMMA DataSent ==
    ASSUME NEW q \in Seq(Requests), NEW file \in Nat, NEW status \in Statuses,
           NEW stored \in Nat, NEW r \in Nat, NEW to \in Nat,
           NEW from, from = r + 1, from <= to,
           GoesOn(q, file, status, stored, TRUE, FALSE, r),
           NEW s, s = OneData(file, from, to)
    PROVE  /\ s \in Seq(Requests)
           /\ AllAbout(s, file)
           /\ q \o s \in Seq(Requests)
           /\ GoesOn(q \o s, file, status, stored, TRUE, FALSE, to)
<1> DEFINE m == DataRequest(file, from, to)
<1>1. /\ m.file = file /\ m.part.what = "data" /\ m \in Requests
      /\ m.part.from = r + 1 /\ r + 1 <= m.part.to /\ m.part.to = to
  BY DEF DataRequest, Request, Requests, Parts
<1> HIDE DEF m
<1>2. s = <<m>>
  BY DEF m, OneData
<1>3. /\ s \in Seq(Requests) /\ q \o s = Append(q, m)
      /\ \A i \in DOMAIN s : s[i] = m
  BY <1>1, <1>2, OneMessage
<1>4. GoesOn(Append(q, m), file, status, stored, TRUE, FALSE, to)
  BY <1>1, GoesOnWithData
<1>5. q \o s \in Seq(Requests)
  BY <1>3, SomeMore
<1> QED
  BY <1>1, <1>3, <1>4, <1>5 DEF AllAbout

LEMMA FirstDataSent ==
    ASSUME NEW q \in Seq(Requests), NEW file \in Nat, NEW to \in Nat, 1 <= to,
           GoesOn(q, file, "none", 0, TRUE, FALSE, 0)
    PROVE  LET s == OneData(file, 1, to) IN
           /\ s \in Seq(Requests)
           /\ AllAbout(s, file)
           /\ q \o s \in Seq(Requests)
           /\ GoesOn(q \o s, file, "none", 0, TRUE, FALSE, to)
<1> DEFINE zero == 0
           one == 1
           none == "none"
           s == OneData(file, one, to)
<1>1. zero \in Nat /\ one = zero + 1 /\ one <= to /\ none \in Statuses
  BY DEF Statuses
<1>2. GoesOn(q, file, none, zero, TRUE, FALSE, zero)
  OBVIOUS
<1> HIDE DEF zero, one, none
<1>3. /\ s \in Seq(Requests)
      /\ AllAbout(s, file)
      /\ q \o s \in Seq(Requests)
      /\ GoesOn(q \o s, file, none, zero, TRUE, FALSE, to)
  BY <1>1, <1>2, DataSent
<1> QED
  BY <1>3 DEF zero, one, none

LEMMA EndSent ==
    ASSUME NEW q \in Seq(Requests), NEW file \in Nat, NEW status \in Statuses,
           NEW stored \in Nat, NEW r \in Nat,
           GoesOn(q, file, status, stored, TRUE, FALSE, r)
    PROVE  LET s == End(file, TRUE, FALSE) IN
           /\ s \in Seq(Requests)
           /\ AllAbout(s, file)
           /\ q \o s \in Seq(Requests)
           /\ GoesOn(q \o s, file, status, stored, TRUE, TRUE, r)
<1> DEFINE m == Request(file, [what |-> "end"])
<1>1. m.file = file /\ m.part.what = "end" /\ m \in Requests
  BY DEF Request, Requests, Parts
<1>2. End(file, TRUE, FALSE) = <<m>>
  BY DEF End
<1> HIDE DEF m
<1>3. /\ <<m>> \in Seq(Requests) /\ q \o <<m>> = Append(q, m)
      /\ \A i \in DOMAIN <<m>> : <<m>>[i] = m
  BY <1>1, OneMessage
<1>4. GoesOn(Append(q, m), file, status, stored, TRUE, TRUE, r)
  BY <1>1, GoesOnToTheEnd
<1>5. q \o <<m>> \in Seq(Requests)
  BY <1>3, SomeMore
<1> QED
  BY <1>1, <1>2, <1>3, <1>4, <1>5 DEF AllAbout

LEMMA Both ==
    ASSUME NEW q \in Seq(Requests), NEW s \in Seq(Requests), NEW u \in Seq(Requests), NEW file,
           AllAbout(s, file),
           AllAbout(u, file)
    PROVE  /\ s \o u \in Seq(Requests)
           /\ AllAbout(s \o u, file)
           /\ (q \o s) \o u = q \o (s \o u)
<1>1. (q \o s) \o u = q \o (s \o u)
  BY ConcatAssociative
<1> DEFINE t == s \o u
<1>2. t \in Seq(Requests) /\ \A i \in DOMAIN s : t[i] = s[i]
  BY SomeMore
<1>3. \A i \in DOMAIN t : i \in DOMAIN s \/ \E j \in DOMAIN u : t[i] = u[j]
  BY SomeMore
<1> HIDE DEF t
<1>4. AllAbout(t, file)
  BY <1>2, <1>3 DEF AllAbout
<1> QED
  BY <1>1, <1>2, <1>4 DEF t

\* What a new downloader of a finished reply of w chunks sends
LEMMA AllSent ==
    ASSUME NEW q \in Seq(Requests), NEW file \in Nat, About(q, file) = {}, NEW w \in Nat,
           NEW s \in Starts(file, FALSE), NEW d \in DownloadReadyRead(file, TRUE, 1, w)
    PROVE  LET u == (s \o d) \o End(file, TRUE, FALSE) IN
           /\ u \in Seq(Requests)
           /\ AllAbout(u, file)
           /\ q \o s \o d \o End(file, TRUE, FALSE) = q \o u
           /\ GoesOn(q \o u, file, "none", 0, TRUE, TRUE, w)
<1> DEFINE e == End(file, TRUE, FALSE)
           q1 == q \o s
           q2 == q1 \o d
<1>1. /\ s \in Seq(Requests) /\ AllAbout(s, file)
      /\ q1 \in Seq(Requests)
      /\ GoesOn(q1, file, "none", 0, TRUE, FALSE, 0)
  BY StartSent
<1> HIDE DEF q1
<1>2. /\ d \in Seq(Requests) /\ AllAbout(d, file)
      /\ q1 \o d \in Seq(Requests)
      /\ GoesOn(q1 \o d, file, "none", 0, TRUE, FALSE, w)
  <2>1. CASE w = 0
    <3>1. d = <<>>
      BY <2>1 DEF DownloadReadyRead
    <3>2. q1 \o d = q1
      BY <1>1, <3>1, ConcatEmptySeq
    <3>3. d \in Seq(Requests) /\ AllAbout(d, file)
      BY <3>1 DEF AllAbout
    <3> QED
      BY <1>1, <2>1, <3>2, <3>3
  <2>2. CASE w # 0
    <3>1. 1 \in Nat /\ 1 <= w
      BY <2>2
    <3>2. d = OneData(file, 1, w)
      BY <3>1, ReadMore
    <3> QED
      BY <1>1, <3>1, <3>2, FirstDataSent
  <2> QED
    BY <2>1, <2>2
<1> HIDE DEF q2
<1>3. /\ e \in Seq(Requests) /\ AllAbout(e, file)
      /\ q2 \o e \in Seq(Requests)
      /\ GoesOn(q2 \o e, file, "none", 0, TRUE, TRUE, w)
  <2>1. 0 \in Nat /\ "none" \in Statuses
    BY DEF Statuses
  <2>2. q2 \in Seq(Requests) /\ GoesOn(q2, file, "none", 0, TRUE, FALSE, w)
    BY <1>2 DEF q2
  <2> QED
    BY <2>1, <2>2, EndSent
<1> HIDE DEF e
<1>4. /\ s \o d \in Seq(Requests) /\ AllAbout(s \o d, file)
      /\ q2 = q \o (s \o d)
  BY <1>1, <1>2, Both DEF q1, q2
<1> DEFINE sd == s \o d
<1>5. sd \in Seq(Requests) /\ AllAbout(sd, file)
  BY <1>4
<1> HIDE DEF sd
<1>6. /\ sd \o e \in Seq(Requests) /\ AllAbout(sd \o e, file)
      /\ (q \o sd) \o e = q \o (sd \o e)
  BY <1>3, <1>5, Both
<1> QED
  BY <1>3, <1>4, <1>6 DEF sd, e, q1, q2

LEMMA NewDownload ==
    ASSUME IInv, NEW f \in Fetches, fileId[f] = NoFile,
           fileId' = [fileId EXCEPT ![f] = nextId[f.app]],
           nextId' = [nextId EXCEPT ![f.app] = @ + 1]
    PROVE  /\ f \notin sent /\ f \notin finished
           /\ nextId[f.app] \in Nat /\ fileId'[f] = nextId[f.app] /\ fileId'[f] # NoFile
           /\ fileId' \in [Fetches -> Nat \cup {NoFile}]
           /\ nextId' \in [WebApps -> Nat]
           /\ \A g \in Fetches \ {f} : fileId'[g] = fileId[g]
           /\ \A g \in Fetches : fileId'[g] # NoFile => fileId'[g] < nextId'[g.app]
           /\ \A g \in sent : g \in Fetches /\ (g.app = f.app => fileId[g] # nextId[f.app])
           /\ About(toStorage[f.app], nextId[f.app]) = {}
           /\ <<f.app, nextId[f.app]>> \notin DOMAIN writeQueue
           /\ FileIdsDiffer'
<1> DEFINE file == nextId[f.app]
<1>1. /\ TypeOK /\ DownloadersFollowReplies /\ FileIdsDiffer /\ RequestsAreOwn
  BY DEF IInv
<1>2. f.app \in WebApps /\ file \in Nat
  BY <1>1, FetchFacts
<1>3. f \notin sent /\ f \notin finished
  BY <1>1 DEF DownloadersFollowReplies
<1>4. /\ fileId'[f] = file /\ fileId'[f] # NoFile
      /\ fileId' \in [Fetches -> Nat \cup {NoFile}]
      /\ \A g \in Fetches \ {f} : fileId'[g] = fileId[g]
  BY <1>1, <1>2 DEF TypeOK, NoFile
<1>5. /\ nextId' \in [WebApps -> Nat]
      /\ nextId'[f.app] = file + 1
      /\ \A a \in WebApps \ {f.app} : nextId'[a] = nextId[a]
  BY <1>1, <1>2 DEF TypeOK
<1>6. \A g \in Fetches : g.app \in WebApps /\ fileId[g] \in Nat \cup {NoFile}
  BY <1>1, FetchFacts
<1>7. \A g \in Fetches : fileId[g] # NoFile => fileId[g] < nextId[g.app] /\ fileId[g] \in Nat
  BY <1>1, <1>6 DEF DownloadersFollowReplies
<1> HIDE DEF file
<1>8. \A g \in Fetches : fileId'[g] # NoFile => fileId'[g] < nextId'[g.app]
  <2> SUFFICES ASSUME NEW g \in Fetches, fileId'[g] # NoFile
               PROVE  fileId'[g] < nextId'[g.app]
    OBVIOUS
  <2>1. CASE g = f
    BY <1>2, <1>4, <1>5, <2>1
  <2>2. CASE g # f /\ g.app = f.app
    <3>1. fileId'[g] < file /\ fileId'[g] \in Nat
      BY <1>4, <1>7, <2>2 DEF file
    <3> QED
      BY <1>2, <1>5, <2>2, <3>1
  <2>3. CASE g # f /\ g.app # f.app
    BY <1>4, <1>5, <1>6, <1>7, <2>3
  <2> QED
    BY <2>1, <2>2, <2>3
<1>9. \A g \in Fetches \ {f} : g.app = f.app /\ fileId[g] # NoFile => fileId[g] # file
  <2> SUFFICES ASSUME NEW g \in Fetches \ {f}, g.app = f.app, fileId[g] # NoFile
               PROVE  fileId[g] # file
    OBVIOUS
  <2>1. fileId[g] < file /\ fileId[g] \in Nat
    BY <1>7 DEF file
  <2> QED
    BY <1>2, <2>1
<1>10. \A g \in sent : g \in Fetches /\ (g.app = f.app => fileId[g] # file)
  BY <1>1, <1>3, <1>9, SentFacts
<1>11. About(toStorage[f.app], file) = {}
  BY <1>1, <1>2, <1>10 DEF About, RequestsAreOwn
<1>12. <<f.app, file>> \notin DOMAIN writeQueue
  BY <1>1, <1>10 DEF RequestsAreOwn, Entry
<1>13. FileIdsDiffer'
  <2> SUFFICES ASSUME NEW g \in Fetches, NEW h \in Fetches, fileId'[g] # NoFile,
                      g.app = h.app, fileId'[g] = fileId'[h], g # h
               PROVE  FALSE
    BY DEF FileIdsDiffer
  <2>1. CASE g = f \/ h = f
    BY <1>4, <1>9, <2>1
  <2>2. CASE g # f /\ h # f
    BY <1>1, <1>4, <2>2 DEF FileIdsDiffer
  <2> QED
    BY <2>1, <2>2
<1> QED
  BY <1>2, <1>3, <1>4, <1>5, <1>8, <1>10, <1>11, <1>12, <1>13 DEF file

LEMMA AttachToFinished ==
    ASSUME IInv, NEW f \in Fetches, Attach(f), f.app \in alive, state[f] = "Finished",
           UNCHANGED <<alive, written, writeQueue, disk>>
    PROVE  /\ toStorage' \in [WebApps -> Seq(Requests)]
           /\ readUpTo' = [readUpTo EXCEPT ![f] = written[f]]
           /\ sent' = sent \cup {f} /\ finished' = finished \cup {f}
           /\ RequestsAreOwn' /\ DownloadsGoOn' /\ FilesAreInOrder' /\ NoSharedFile'
<1>1. /\ fileId[f] = NoFile
      /\ fileId' = [fileId EXCEPT ![f] = nextId[f.app]]
      /\ nextId' = [nextId EXCEPT ![f.app] = @ + 1]
      /\ readUpTo' = [readUpTo EXCEPT ![f] = written[f]]
      /\ sent' = sent \cup {f} /\ finished' = finished \cup {f}
  BY DEF Attach
<1>2. /\ f \notin sent /\ f \notin finished
      /\ nextId[f.app] \in Nat /\ fileId'[f] = nextId[f.app]
      /\ \A g \in Fetches \ {f} : fileId'[g] = fileId[g]
      /\ \A g \in sent : g \in Fetches /\ (g.app = f.app => fileId[g] # nextId[f.app])
      /\ About(toStorage[f.app], nextId[f.app]) = {}
      /\ <<f.app, nextId[f.app]>> \notin DOMAIN writeQueue
  BY <1>1, NewDownload
<1>3. /\ TypeOK /\ toStorage[f.app] \in Seq(Requests) /\ written[f] \in Nat
      /\ readUpTo \in [Fetches -> 0..MaxChunks]
  BY FetchFacts DEF IInv, TypeOK
<1>4. PICK u \in Seq(Requests) :
         /\ AllAbout(u, nextId[f.app])
         /\ toStorage' = [toStorage EXCEPT ![f.app] = @ \o u]
         /\ GoesOn(toStorage[f.app] \o u, nextId[f.app], "none", 0, TRUE, TRUE, written[f])
  <2> DEFINE q == toStorage[f.app]
             file == nextId[f.app]
             w == written[f]
             e == End(file, TRUE, FALSE)
  <2>1. PICK s \in Starts(file, FALSE), d \in DownloadReadyRead(file, TRUE, 1, w) :
           toStorage' = [toStorage EXCEPT ![f.app] = @ \o s \o d \o e]
    BY DEF Attach
  <2> DEFINE t == (s \o d) \o e
  <2>2. /\ t \in Seq(Requests)
        /\ AllAbout(t, file)
        /\ q \o s \o d \o e = q \o t
        /\ GoesOn(q \o t, file, "none", 0, TRUE, TRUE, w)
    <3>1. /\ s \in Starts(file, FALSE) /\ d \in DownloadReadyRead(file, TRUE, 1, w)
          /\ q \in Seq(Requests) /\ file \in Nat /\ w \in Nat /\ About(q, file) = {}
      BY <1>2, <1>3
    <3> HIDE DEF q, file, w
    <3> QED
      BY <3>1, AllSent
  <2> HIDE DEF t, e
  <2> QED
    BY <2>1, <2>2
<1>5. Status(f)' = "none" /\ Stored(f)' = 0
  BY <1>2 DEF Status, Stored, Entry
<1>6. readUpTo'[f] = written[f] /\ \A g \in Fetches \ {f} : readUpTo'[g] = readUpTo[g]
  BY <1>1, <1>3
<1>7. GoesOn(toStorage[f.app] \o u, fileId'[f], Status(f)', Stored(f)',
             f.app \in alive, f \in finished', readUpTo'[f])
  <2>1. (f.app \in alive) = TRUE /\ (f \in finished') = TRUE
    BY <1>1
  <2> DEFINE v == toStorage[f.app] \o u
  <2> HIDE DEF v
  <2>2. GoesOn(v, nextId[f.app], "none", 0, TRUE, TRUE, written[f])
    BY <1>4 DEF v
  <2> QED
    BY <1>2, <1>5, <1>6, <2>1, <2>2 DEF v
<1>8. Sends(f, u)
  <2>1. /\ toStorage' = [toStorage EXCEPT ![f.app] = @ \o u]
        /\ sent' = sent \cup {f}
        /\ writeQueue' = writeQueue /\ disk' = disk /\ alive' = alive
        /\ \A g \in Fetches \ {f} : /\ fileId'[g] = fileId[g] /\ readUpTo'[g] = readUpTo[g]
                                    /\ g \in finished' <=> g \in finished
        /\ f \in sent => fileId'[f] = fileId[f]
        /\ \A g \in sent \ {f} : g.app = f.app => fileId[g] # fileId'[f]
        /\ AllAbout(u, fileId'[f])
    BY <1>1, <1>2, <1>4, <1>6
  <2> QED
    BY <1>7, <2>1 DEF Sends
<1>9. /\ toStorage' \in [WebApps -> Seq(Requests)]
      /\ RequestsAreOwn' /\ DownloadsGoOn' /\ FilesAreInOrder' /\ NoSharedFile'
  BY <1>8, SomethingSent
<1> QED
  BY <1>1, <1>9

\* A downloader for f, whose reply may just have been created
LEMMA AttachKeeps ==
    ASSUME IInv, NEW f \in Fetches, Attach(f), f.app \in alive,
           UNCHANGED <<stream, alive, known, written, storage, toUi, items>>,
           state' \in [Fetches -> {"none", "Idle", "Finished", "Aborted"}],
           state'[f] \in {"Idle", "Finished"},
           state'[f] = "Finished" <=> state[f] = "Finished",
           \A g \in Fetches \ {f} : state'[g] = state[g],
           RepliesFollowTheStream'
    PROVE  IInv'
<1>1. /\ fileId[f] = NoFile
      /\ fileId' = [fileId EXCEPT ![f] = nextId[f.app]]
      /\ nextId' = [nextId EXCEPT ![f.app] = @ + 1]
      /\ attachedAt' = [attachedAt EXCEPT ![f] = written[f]]
  BY DEF Attach
<1>2. UNCHANGED <<phase, chunks, alive, known, written, writeQueue, disk, toUi, items>>
  BY DEF stream, storage
<1>3. /\ TypeOK /\ DownloadersFollowReplies
  BY DEF IInv
<1>4. /\ f \notin sent /\ f \notin finished
      /\ fileId'[f] # NoFile
      /\ fileId' \in [Fetches -> Nat \cup {NoFile}]
      /\ nextId' \in [WebApps -> Nat]
      /\ \A g \in Fetches \ {f} : fileId'[g] = fileId[g]
      /\ \A g \in Fetches : fileId'[g] # NoFile => fileId'[g] < nextId'[g.app]
      /\ \A g \in sent : g \in Fetches
      /\ FileIdsDiffer'
  BY <1>1, NewDownload
<1>5. attachedAt' \in [Fetches -> 0..MaxChunks]
  BY <1>1, <1>3 DEF TypeOK
<1>6. CASE state[f] = "Finished"
  <2>1. /\ toStorage' \in [WebApps -> Seq(Requests)]
        /\ readUpTo' = [readUpTo EXCEPT ![f] = written[f]]
        /\ sent' = sent \cup {f} /\ finished' = finished \cup {f}
        /\ RequestsAreOwn' /\ DownloadsGoOn' /\ FilesAreInOrder' /\ NoSharedFile'
    BY <1>2, <1>6, AttachToFinished
  <2>2. /\ readUpTo' \in [Fetches -> 0..MaxChunks] /\ readUpTo'[f] = written'[f]
        /\ \A g \in Fetches \ {f} : readUpTo'[g] = readUpTo[g] /\ written'[g] = written[g]
    BY <1>2, <1>3, <2>1 DEF TypeOK
  <2>3. TypeOK'
    BY <1>2, <1>3, <1>4, <1>5, <2>1, <2>2 DEF TypeOK, Requests
  <2>4. DownloadersFollowReplies'
    <3> SUFFICES ASSUME NEW g \in Fetches
                 PROVE  /\ fileId'[g] = NoFile => g \notin sent' \cup finished'
                        /\ fileId'[g] # NoFile => /\ state'[g] \in {"Idle", "Finished"}
                                                  /\ state'[g] = "Finished" <=> g \in finished'
                                                  /\ fileId'[g] < nextId'[g.app]
                        /\ g \in sent' => readUpTo'[g] = written'[g]
                        /\ g \notin sent' => readUpTo'[g] = 0
      BY DEF DownloadersFollowReplies
    <3>1. CASE g = f
      BY <1>4, <1>6, <2>1, <2>2, <3>1
    <3>2. CASE g # f
      BY <1>3, <1>4, <2>1, <2>2, <3>2 DEF DownloadersFollowReplies
    <3> QED
      BY <3>1, <3>2
  <2> QED
    BY <1>4, <2>1, <2>3, <2>4 DEF IInv
<1>7. CASE state[f] # "Finished"
  <2>1. UNCHANGED <<toStorage, readUpTo, sent, finished>>
    BY <1>7 DEF Attach
  <2>2. TypeOK'
    BY <1>2, <1>3, <1>4, <1>5, <2>1 DEF TypeOK
  <2>3. DownloadersFollowReplies'
    <3> SUFFICES ASSUME NEW g \in Fetches
                 PROVE  /\ fileId'[g] = NoFile => g \notin sent \cup finished
                        /\ fileId'[g] # NoFile => /\ state'[g] \in {"Idle", "Finished"}
                                                  /\ state'[g] = "Finished" <=> g \in finished
                                                  /\ fileId'[g] < nextId'[g.app]
                        /\ g \in sent => readUpTo[g] = written[g]
                        /\ g \notin sent => readUpTo[g] = 0
      BY <1>2, <2>1 DEF DownloadersFollowReplies
    <3>1. CASE g = f
      BY <1>3, <1>4, <1>7, <3>1 DEF DownloadersFollowReplies
    <3>2. CASE g # f
      BY <1>3, <1>4, <3>2 DEF DownloadersFollowReplies
    <3> QED
      BY <3>1, <3>2
  <2>4. \A g \in sent : fileId'[g] = fileId[g]
    BY <1>4
  <2>5. RequestsAreOwn' /\ DownloadsGoOn' /\ FilesAreInOrder' /\ NoSharedFile'
    BY <1>2, <2>1, <2>4, NothingSent
  <2> QED
    BY <1>4, <2>2, <2>3, <2>5 DEF IInv
<1> QED
  BY <1>6, <1>7

LEMMA HandleUnsupportedContentKeeps ==
    ASSUME IInv, NEW f \in Fetches, HandleUnsupportedContent(f)
    PROVE  IInv'
<1>1. /\ f.app \in alive /\ state[f] \in {"Idle", "Finished"} /\ Attach(f)
      /\ UNCHANGED <<stream, alive, reply, storage, toUi, items>>
  BY DEF HandleUnsupportedContent
<1>2. UNCHANGED <<phase, chunks, state, known, written>>
  BY <1>1 DEF stream, reply
<1>3. RepliesFollowTheStream'
  BY <1>2 DEF IInv, RepliesFollowTheStream
<1>4. state' \in [Fetches -> {"none", "Idle", "Finished", "Aborted"}]
  BY <1>2 DEF IInv, TypeOK
<1> QED
  BY <1>1, <1>2, <1>3, <1>4, AttachKeeps

LEMMA DownloadRequestedKeeps ==
    ASSUME IInv, NEW f \in Fetches, DownloadRequested(f)
    PROVE  IInv'
<1>1. /\ f.app \in alive /\ state[f] = "none" /\ state' = [state EXCEPT ![f] = "Idle"]
      /\ Attach(f)
      /\ UNCHANGED <<stream, alive, known, written, storage, toUi, items>>
  BY DEF DownloadRequested
<1>2. UNCHANGED <<phase, chunks, written>>
  BY <1>1 DEF stream
<1>3. /\ state' \in [Fetches -> {"none", "Idle", "Finished", "Aborted"}]
      /\ \A g \in Fetches : state'[g] = IF g = f THEN "Idle" ELSE state[g]
  BY <1>1 DEF IInv, TypeOK
<1>4. RepliesFollowTheStream'
  BY <1>1, <1>2, <1>3 DEF IInv, RepliesFollowTheStream
<1> QED
  BY <1>1, <1>3, <1>4, AttachKeeps

-----------------------------------------------------------------------------
\* A message about f comes

\* A download that has sent nothing is unknown to storage.
LEMMA Unsent ==
    ASSUME IInv, NEW f \in Fetches, f \notin sent, fileId[f] # NoFile
    PROVE  About(toStorage[f.app], fileId[f]) = {} /\ Entry(f) \notin DOMAIN writeQueue
<1>1. TypeOK /\ DownloadersFollowReplies /\ FileIdsDiffer /\ RequestsAreOwn /\ f.app \in WebApps
  BY FetchFacts DEF IInv
<1>2. \A g \in sent : g.app = f.app => fileId[g] # fileId[f]
  <2> SUFFICES ASSUME NEW g \in sent, g.app = f.app, fileId[g] = fileId[f] PROVE FALSE
    OBVIOUS
  <2>1. g \in Fetches
    BY <1>1, SentFacts
  <2> QED
    BY <1>1, <2>1 DEF FileIdsDiffer
<1>3. About(toStorage[f.app], fileId[f]) = {}
  BY <1>1, <1>2 DEF RequestsAreOwn, About
<1>4. Entry(f) \notin DOMAIN writeQueue
  BY <1>1, <1>2 DEF RequestsAreOwn, Entry
<1> QED
  BY <1>3, <1>4

\* A download that goes on
LEMMA ReadOn ==
    ASSUME NEW q \in Seq(Requests), NEW file \in Nat, NEW status \in Statuses,
           NEW stored \in Nat, NEW r \in Nat, NEW to \in Nat,
           NEW from, from = r + 1, from <= to,
           GoesOn(q, file, status, stored, TRUE, FALSE, r),
           NEW d \in DownloadReadyRead(file, TRUE, from, to)
    PROVE  /\ d \in Seq(Requests)
           /\ AllAbout(d, file)
           /\ GoesOn(q \o d, file, status, stored, TRUE, FALSE, to)
<1>1. from \in Nat
  OBVIOUS
<1>2. d = OneData(file, from, to)
  BY <1>1, ReadMore
<1> QED
  BY <1>2, DataSent

\* A download that starts
LEMMA ReadFirst ==
    ASSUME NEW q \in Seq(Requests), NEW file \in Nat, About(q, file) = {},
           NEW to \in Nat, 1 <= to,
           NEW d \in DownloadReadyRead(file, FALSE, 1, to)
    PROVE  /\ d \in Seq(Requests)
           /\ AllAbout(d, file)
           /\ GoesOn(q \o d, file, "none", 0, TRUE, FALSE, to)
<1> DEFINE u == OneData(file, 1, to)
<1>1. PICK s \in Starts(file, FALSE) : d = s \o u
  <2>1. 1 \in Nat
    OBVIOUS
  <2> QED
    BY <2>1, ReadAtStart
<1> DEFINE v == q \o s
<1>2. /\ s \in Seq(Requests)
      /\ AllAbout(s, file)
      /\ v \in Seq(Requests)
      /\ GoesOn(v, file, "none", 0, TRUE, FALSE, 0)
  BY StartSent
<1> HIDE DEF u, v
<1>3. /\ u \in Seq(Requests)
      /\ AllAbout(u, file)
      /\ GoesOn(v \o u, file, "none", 0, TRUE, FALSE, to)
  BY <1>2, FirstDataSent DEF u
<1>4. /\ s \o u \in Seq(Requests)
      /\ AllAbout(s \o u, file)
      /\ v \o u = q \o (s \o u)
  BY <1>2, <1>3, Both DEF v
<1> QED
  BY <1>1, <1>3, <1>4

\* What the downloader of f sends when there is more to read, up to chunk "to"
LEMMA DataRead ==
    ASSUME IInv, NEW f \in Fetches, fileId[f] # NoFile, f.app \in alive, f \notin finished,
           NEW to \in Nat, readUpTo[f] + 1 <= to,
           NEW d \in DownloadReadyRead(fileId[f], f \in sent, readUpTo[f] + 1, to)
    PROVE  /\ d \in Seq(Requests)
           /\ AllAbout(d, fileId[f])
           /\ GoesOn(toStorage[f.app] \o d, fileId[f], Status(f), Stored(f), TRUE, FALSE, to)
<1> DEFINE q == toStorage[f.app]
           r == readUpTo[f]
           file == fileId[f]
           status == Status(f)
           stored == Stored(f)
<1>1. /\ DownloadersFollowReplies /\ DownloadsGoOn
      /\ q \in Seq(Requests) /\ file \in Nat /\ r \in Nat
      /\ status \in Statuses /\ stored \in Nat
  BY FetchFacts DEF IInv
<1>2. CASE f \in sent
  <2>1. GoesOn(q, file, status, stored, TRUE, FALSE, r)
    <3>1. GoesOn(q, file, status, stored, f.app \in alive, f \in finished, r)
      BY <1>1, <1>2 DEF DownloadsGoOn
    <3>2. (f.app \in alive) = TRUE /\ (f \in finished) = FALSE
      OBVIOUS
    <3> QED
      BY <3>1, <3>2
  <2>2. d \in DownloadReadyRead(file, TRUE, r + 1, to) /\ r + 1 <= to
    <3>1. (f \in sent) = TRUE
      BY <1>2
    <3> QED
      BY <3>1
  <2> HIDE DEF q, file, status, stored, r
  <2>3. /\ d \in Seq(Requests)
        /\ AllAbout(d, file)
        /\ GoesOn(q \o d, file, status, stored, TRUE, FALSE, to)
    BY <1>1, <2>1, <2>2, ReadOn
  <2> QED
    BY <2>3 DEF q, file, status, stored
<1>3. CASE f \notin sent
  <2>1. /\ r = 0 /\ About(q, file) = {}
        /\ status = "none" /\ stored = 0
    BY <1>1, <1>3, Unsent DEF DownloadersFollowReplies, Status, Stored
  <2>2. d \in DownloadReadyRead(file, FALSE, 1, to) /\ 1 <= to
    <3>1. (f \in sent) = FALSE /\ r + 1 = 1
      BY <1>3, <2>1
    <3> QED
      BY <3>1
  <2> HIDE DEF q, file, status, stored, r
  <2>3. /\ d \in Seq(Requests)
        /\ AllAbout(d, file)
        /\ GoesOn(q \o d, file, "none", 0, TRUE, FALSE, to)
    BY <1>1, <2>1, <2>2, ReadFirst
  <2> QED
    BY <2>1, <2>3 DEF q, file, status, stored
<1> QED
  BY <1>2, <1>3

\* The message changes neither replies' states nor what is read or sent.
LEMMA NothingFed ==
    ASSUME IInv, NEW f \in Fetches, HandleMessage(f),
           UNCHANGED <<state, written, downloader, toStorage>>,
           known' \in SUBSET Fetches,
           state[f] = "Aborted" \/ chunks' = chunks,
           state[f] = "Aborted" \/ phase'[f] # "ended"
    PROVE  IInv'
<1>1. UNCHANGED <<alive, readUpTo, nextId, fileId, sent, finished, attachedAt, writeQueue, disk,
                  toUi, items, state, written, toStorage>>
  BY DEF HandleMessage, storage, downloader
<1>2. TypeOK /\ RepliesFollowTheStream /\ DownloadersFollowReplies /\ FileIdsDiffer
  BY DEF IInv
<1>3. /\ state[f] # "none" /\ phase[f] # "ended"
      /\ phase' \in [Fetches -> {"silent", "open", "ended"}]
      /\ chunks' \in [Fetches -> 0..MaxChunks]
      /\ \A g \in Fetches \ {f} : phase'[g] = phase[g] /\ chunks'[g] = chunks[g]
  <2>1. state[f] # "none" /\ f.app \in alive
    BY DEF HandleMessage
  <2>2. CASE Stream!Meta(f)
    BY <1>2, <2>1, <2>2 DEF Stream!Meta, TypeOK
  <2>3. CASE Stream!Data(f) /\ chunks[f] < MaxChunks
    <3>1. MaxChunks \in Nat /\ chunks[f] \in 0..MaxChunks
      BY <1>2, FetchFacts
    <3>2. chunks[f] + 1 \in 0..MaxChunks
      BY <2>3, <3>1
    <3> QED
      BY <1>2, <2>1, <2>3, <3>2 DEF Stream!Data, TypeOK
  <2>4. CASE Stream!End(f)
    BY <1>2, <2>1, <2>4 DEF Stream!End, TypeOK
  <2> QED
    BY <2>2, <2>3, <2>4 DEF HandleMessage
<1>4. TypeOK'
  BY <1>1, <1>2, <1>3 DEF TypeOK
<1>5. RepliesFollowTheStream'
  <2> SUFFICES ASSUME NEW g \in Fetches
               PROVE  /\ state[g] = "none" =>
                            written[g] = 0 /\ chunks'[g] = 0 /\ phase'[g] = "silent"
                      /\ state[g] = "Idle" => phase'[g] # "ended"
                      /\ state[g] = "Finished" => phase'[g] = "ended"
                      /\ state[g] # "Aborted" => written[g] = chunks'[g]
    BY <1>1 DEF RepliesFollowTheStream
  <2>1. CASE g # f
    BY <1>2, <1>3, <2>1 DEF RepliesFollowTheStream
  <2>2. CASE g = f
    BY <1>2, <1>3, <2>2 DEF RepliesFollowTheStream
  <2> QED
    BY <2>1, <2>2
<1>6. DownloadersFollowReplies' /\ FileIdsDiffer'
  BY <1>1, <1>2 DEF DownloadersFollowReplies, FileIdsDiffer
<1>7. RequestsAreOwn' /\ DownloadsGoOn' /\ FilesAreInOrder' /\ NoSharedFile'
  BY <1>1, NothingSent
<1> QED
  BY <1>4, <1>5, <1>6, <1>7 DEF IInv

\* One more chunk for a reply that is wanted
LEMMA DataKeeps ==
    ASSUME IInv, NEW f \in Fetches, f.app \in alive, state[f] # "none", state[f] # "Aborted",
           Stream!Data(f), chunks[f] < MaxChunks, FeedData(f),
           UNCHANGED <<alive, storage, toUi, items>>
    PROVE  IInv'
<1>1. /\ phase[f] = "open" /\ chunks' = [chunks EXCEPT ![f] = @ + 1]
      /\ written' = [written EXCEPT ![f] = @ + 1]
      /\ UNCHANGED <<alive, phase, state, known, writeQueue, disk, toUi, items>>
  BY DEF Stream!Data, FeedData, storage
<1>2. TypeOK /\ RepliesFollowTheStream /\ DownloadersFollowReplies /\ FileIdsDiffer
  BY DEF IInv
<1> DEFINE to == written[f] + 1
<1>3. /\ state[f] \notin {"none", "Finished"} /\ written[f] = chunks[f] /\ f \notin finished
      /\ to \in 0..MaxChunks /\ to \in Nat /\ readUpTo[f] \in Nat /\ readUpTo[f] <= written[f]
  <2>1. /\ state[f] # "Finished" /\ written[f] = chunks[f]
        /\ MaxChunks \in Nat /\ written[f] \in Nat /\ readUpTo[f] \in Nat
    BY <1>1, <1>2, FetchFacts DEF RepliesFollowTheStream
  <2>2. f \notin finished
    BY <1>2, <2>1 DEF DownloadersFollowReplies
  <2>3. readUpTo[f] <= written[f]
    BY <1>2, <2>1 DEF DownloadersFollowReplies
  <2> QED
    BY <2>1, <2>2, <2>3
<1>4. /\ chunks' \in [Fetches -> 0..MaxChunks] /\ written' \in [Fetches -> 0..MaxChunks]
      /\ chunks'[f] = to /\ written'[f] = to
      /\ \A g \in Fetches \ {f} : chunks'[g] = chunks[g] /\ written'[g] = written[g]
  BY <1>1, <1>2, <1>3 DEF TypeOK
<1> HIDE DEF to
<1>5. RepliesFollowTheStream'
  BY <1>1, <1>2, <1>3, <1>4 DEF RepliesFollowTheStream
<1>6. CASE fileId[f] = NoFile
  <2>1. UNCHANGED <<readUpTo, nextId, fileId, sent, finished, attachedAt, toStorage>>
    BY <1>6 DEF FeedData, downloader
  <2>2. TypeOK'
    BY <1>1, <1>2, <1>4, <2>1 DEF TypeOK
  <2>3. f \notin sent
    BY <1>2, <1>6 DEF DownloadersFollowReplies
  <2>4. DownloadersFollowReplies'
    BY <1>1, <1>2, <1>4, <2>1, <2>3 DEF DownloadersFollowReplies
  <2>5. FileIdsDiffer'
    BY <1>2, <2>1 DEF FileIdsDiffer
  <2>6. RequestsAreOwn' /\ DownloadsGoOn' /\ FilesAreInOrder' /\ NoSharedFile'
    BY <1>1, <2>1, NothingSent
  <2> QED
    BY <1>5, <2>2, <2>4, <2>5, <2>6 DEF IInv
<1>7. CASE fileId[f] # NoFile
  <2>1. /\ readUpTo' = [readUpTo EXCEPT ![f] = to]
        /\ sent' = sent \cup {f}
        /\ UNCHANGED <<nextId, fileId, finished, attachedAt>>
    BY <1>7 DEF FeedData, Unread, to
  <2>2. PICK d \in DownloadReadyRead(fileId[f], f \in sent, readUpTo[f] + 1, to) :
           toStorage' = [toStorage EXCEPT ![f.app] = @ \o d]
    BY <1>7 DEF FeedData, Unread, to
  <2>3. /\ d \in Seq(Requests)
        /\ AllAbout(d, fileId[f])
        /\ GoesOn(toStorage[f.app] \o d, fileId[f], Status(f), Stored(f), TRUE, FALSE, to)
    <3>1. readUpTo[f] + 1 <= to
      BY <1>2, <1>3, FetchFacts DEF to
    <3> QED
      BY <1>3, <1>7, <3>1, DataRead
  <2>4. /\ readUpTo' \in [Fetches -> 0..MaxChunks] /\ readUpTo'[f] = to
        /\ \A g \in Fetches \ {f} : readUpTo'[g] = readUpTo[g]
    BY <1>2, <1>3, <2>1 DEF TypeOK
  <2>5. Sends(f, d)
    <3>1. Status(f)' = Status(f) /\ Stored(f)' = Stored(f)
      BY <1>1, <2>1 DEF Status, Stored, Entry
    <3>2. (f.app \in alive) = TRUE /\ (f \in finished') = FALSE
      BY <1>3, <2>1
    <3>3. GoesOn(toStorage[f.app] \o d, fileId'[f], Status(f)', Stored(f)',
                 f.app \in alive, f \in finished', readUpTo'[f])
      BY <2>1, <2>3, <2>4, <3>1, <3>2
    <3>4. \A g \in sent \ {f} : g.app = f.app => fileId[g] # fileId'[f]
      BY <1>2, <1>7, <2>1, SentFacts DEF FileIdsDiffer
    <3>5. AllAbout(d, fileId'[f])
      BY <2>1, <2>3
    <3> QED
      BY <1>1, <2>1, <2>2, <2>4, <3>3, <3>4, <3>5 DEF Sends
  <2>6. /\ toStorage' \in [WebApps -> Seq(Requests)]
        /\ RequestsAreOwn' /\ DownloadsGoOn' /\ FilesAreInOrder' /\ NoSharedFile'
    BY <2>3, <2>5, SomethingSent
  <2>7. TypeOK'
    BY <1>1, <1>2, <1>4, <2>1, <2>4, <2>6 DEF TypeOK, Requests
  <2>8. DownloadersFollowReplies'
    BY <1>1, <1>2, <1>4, <1>7, <2>1, <2>4 DEF DownloadersFollowReplies
  <2>9. FileIdsDiffer'
    BY <1>2, <2>1 DEF FileIdsDiffer
  <2> QED
    BY <1>5, <2>6, <2>7, <2>8, <2>9 DEF IInv
<1> QED
  BY <1>6, <1>7

\* The end for a reply that is wanted
LEMMA EndKeeps ==
    ASSUME IInv, NEW f \in Fetches, f.app \in alive, state[f] # "none", state[f] # "Aborted",
           Stream!End(f), FeedEnd(f),
           UNCHANGED <<alive, storage, toUi, items>>
    PROVE  IInv'
<1>1. /\ phase[f] = "open" /\ phase' = [phase EXCEPT ![f] = "ended"]
      /\ state' = [state EXCEPT ![f] = "Finished"]
      /\ UNCHANGED <<alive, chunks, written, known, writeQueue, disk, toUi, items>>
  BY DEF Stream!End, FeedEnd, storage
<1>2. TypeOK /\ RepliesFollowTheStream /\ DownloadersFollowReplies /\ FileIdsDiffer
  BY DEF IInv
<1>3. /\ state[f] = "Idle" /\ written[f] = chunks[f] /\ f \notin finished
  <2>1. state[f] \in {"none", "Idle", "Finished", "Aborted"}
    BY <1>2 DEF TypeOK
  <2>2. state[f] = "Idle" /\ written[f] = chunks[f]
    BY <1>1, <1>2, <2>1 DEF RepliesFollowTheStream
  <2>3. f \notin finished
    BY <1>2, <2>2 DEF DownloadersFollowReplies
  <2> QED
    BY <2>2, <2>3
<1>4. /\ phase' \in [Fetches -> {"silent", "open", "ended"}]
      /\ state' \in [Fetches -> {"none", "Idle", "Finished", "Aborted"}]
      /\ phase'[f] = "ended" /\ state'[f] = "Finished"
      /\ \A g \in Fetches \ {f} : phase'[g] = phase[g] /\ state'[g] = state[g]
  BY <1>1, <1>2 DEF TypeOK
<1>5. RepliesFollowTheStream'
  BY <1>1, <1>2, <1>3, <1>4 DEF RepliesFollowTheStream
<1>6. CASE fileId[f] = NoFile
  <2>1. UNCHANGED <<readUpTo, nextId, fileId, sent, finished, attachedAt, toStorage>>
    BY <1>6 DEF FeedEnd, downloader
  <2>2. TypeOK'
    BY <1>1, <1>2, <1>4, <2>1 DEF TypeOK
  <2>3. DownloadersFollowReplies'
    BY <1>1, <1>2, <1>4, <1>6, <2>1 DEF DownloadersFollowReplies
  <2>4. FileIdsDiffer'
    BY <1>2, <2>1 DEF FileIdsDiffer
  <2>5. RequestsAreOwn' /\ DownloadsGoOn' /\ FilesAreInOrder' /\ NoSharedFile'
    BY <1>1, <2>1, NothingSent
  <2> QED
    BY <1>5, <2>2, <2>3, <2>4, <2>5 DEF IInv
<1>7. CASE fileId[f] # NoFile
  <2> DEFINE e == End(fileId[f], f \in sent, f \in finished)
  <2>1. /\ toStorage' = [toStorage EXCEPT ![f.app] = @ \o e]
        /\ finished' = finished \cup {f}
        /\ UNCHANGED <<readUpTo, nextId, fileId, sent, attachedAt>>
    BY <1>7 DEF FeedEnd
  <2>2. f.app \in WebApps /\ toStorage[f.app] \in Seq(Requests)
        /\ toStorage \in [WebApps -> Seq(Requests)]
    BY <1>2, FetchFacts DEF TypeOK, Requests
  <2>3. /\ toStorage' \in [WebApps -> Seq(Requests)]
        /\ RequestsAreOwn' /\ DownloadsGoOn' /\ FilesAreInOrder' /\ NoSharedFile'
    <3>1. CASE f \in sent
      <4>1. e = End(fileId[f], TRUE, FALSE)
        <5>1. (f \in sent) = TRUE /\ (f \in finished) = FALSE
          BY <1>3, <3>1
        <5> QED
          BY <5>1
      <4> HIDE DEF e
      <4>2. GoesOn(toStorage[f.app], fileId[f], Status(f), Stored(f), TRUE, FALSE, readUpTo[f])
        <5>1. GoesOn(toStorage[f.app], fileId[f], Status(f), Stored(f),
                     f.app \in alive, f \in finished, readUpTo[f])
          BY <3>1 DEF IInv, DownloadsGoOn
        <5>2. (f.app \in alive) = TRUE /\ (f \in finished) = FALSE
          BY <1>3
        <5> QED
          BY <5>1, <5>2
      <4>3. /\ fileId[f] \in Nat /\ readUpTo[f] \in Nat
            /\ Status(f) \in Statuses /\ Stored(f) \in Nat
        BY <1>2, <1>7, FetchFacts
      <4>4. /\ e \in Seq(Requests)
            /\ AllAbout(e, fileId[f])
            /\ GoesOn(toStorage[f.app] \o e, fileId[f], Status(f), Stored(f), TRUE, TRUE,
                      readUpTo[f])
        BY <2>2, <4>1, <4>2, <4>3, EndSent
      <4>5. Sends(f, e)
        <5>1. Status(f)' = Status(f) /\ Stored(f)' = Stored(f)
          BY <1>1, <2>1 DEF Status, Stored, Entry
        <5>2. (f.app \in alive) = TRUE /\ (f \in finished') = TRUE
          BY <2>1
        <5>3. GoesOn(toStorage[f.app] \o e, fileId'[f], Status(f)', Stored(f)',
                     f.app \in alive, f \in finished', readUpTo'[f])
          BY <2>1, <4>4, <5>1, <5>2
        <5>4. \A g \in sent \ {f} : g.app = f.app => fileId[g] # fileId'[f]
          BY <1>2, <1>7, <2>1, SentFacts DEF FileIdsDiffer
        <5>5. AllAbout(e, fileId'[f])
          BY <2>1, <4>4
        <5>6. sent' = sent \cup {f}
          BY <2>1, <3>1
        <5> QED
          BY <1>1, <2>1, <5>3, <5>4, <5>5, <5>6 DEF Sends
      <4> QED
        BY <4>4, <4>5, SomethingSent
    <3>2. CASE f \notin sent
      <4>1. e = <<>>
        BY <3>2 DEF End
      <4>2. toStorage' = toStorage
        <5>1. toStorage[f.app] \o <<>> = toStorage[f.app]
          BY <2>2, ConcatEmptySeq
        <5> HIDE DEF e
        <5> QED
          BY <2>1, <2>2, <4>1, <5>1
      <4> HIDE DEF e
      <4>3. \A g \in sent : /\ fileId'[g] = fileId[g] /\ readUpTo'[g] = readUpTo[g]
                            /\ g \in finished' <=> g \in finished
        BY <2>1, <3>2
      <4>4. UNCHANGED <<sent, toStorage, writeQueue, disk, alive>>
        BY <1>1, <2>1, <4>2
      <4> QED
        BY <2>2, <4>3, <4>4, NothingSent
    <3> QED
      BY <3>1, <3>2
  <2> HIDE DEF e
  <2>4. TypeOK'
    BY <1>1, <1>2, <1>4, <2>1, <2>3 DEF TypeOK, Requests
  <2>5. DownloadersFollowReplies'
    BY <1>1, <1>2, <1>4, <1>7, <2>1 DEF DownloadersFollowReplies
  <2>6. FileIdsDiffer'
    BY <1>2, <2>1 DEF FileIdsDiffer
  <2> QED
    BY <1>5, <2>3, <2>4, <2>5, <2>6 DEF IInv
<1> QED
  BY <1>6, <1>7

LEMMA HandleMessageKeeps ==
    ASSUME IInv, NEW f \in Fetches, HandleMessage(f)
    PROVE  IInv'
<1>1. /\ f.app \in alive /\ state[f] # "none"
      /\ UNCHANGED <<alive, storage, toUi, items>>
  BY DEF HandleMessage
<1>2. TypeOK
  BY DEF IInv
<1>3. CASE Stream!Meta(f) /\ Dispatched(f, FeedMetaData(f))
  <2>1. chunks' = chunks /\ phase'[f] # "ended"
    BY <1>2, <1>3 DEF Stream!Meta, TypeOK
  <2>2. UNCHANGED <<state, written, downloader, toStorage>> /\ known' \in SUBSET Fetches
    <3>1. CASE state[f] = "Aborted"
      BY <1>2, <1>3, <3>1 DEF Dispatched, reply, TypeOK
    <3>2. CASE state[f] # "Aborted"
      BY <1>2, <1>3, <3>2 DEF Dispatched, FeedMetaData, TypeOK
    <3> QED
      BY <3>1, <3>2
  <2> QED
    BY <2>1, <2>2, NothingFed
<1>4. CASE state[f] = "Aborted"
  <2>1. UNCHANGED <<reply, downloader, toStorage>>
    BY <1>4 DEF HandleMessage, Dispatched
  <2>2. UNCHANGED <<state, written, downloader, toStorage>> /\ known' \in SUBSET Fetches
    BY <1>2, <2>1 DEF reply, TypeOK
  <2> QED
    BY <1>4, <2>2, NothingFed
<1>5. CASE /\ state[f] # "Aborted" /\ Stream!Data(f) /\ chunks[f] < MaxChunks
           /\ Dispatched(f, FeedData(f))
  <2>1. FeedData(f)
    BY <1>5 DEF Dispatched
  <2> QED
    BY <1>1, <1>5, <2>1, DataKeeps
<1>6. CASE state[f] # "Aborted" /\ Stream!End(f) /\ Dispatched(f, FeedEnd(f))
  <2>1. FeedEnd(f)
    BY <1>6 DEF Dispatched
  <2> QED
    BY <1>1, <1>6, <2>1, EndKeeps
<1> QED
  BY <1>3, <1>4, <1>5, <1>6 DEF HandleMessage

-----------------------------------------------------------------------------
\* The invariant holds at all times

LEMMA InitHolds ==
    ASSUME Init
    PROVE  IInv
<1>1. /\ phase = [f \in Fetches |-> "silent"] /\ chunks = [f \in Fetches |-> 0]
      /\ MaxChunks \in Nat /\ 0 \in 0..MaxChunks
  BY DownloadAssumption DEF Init, Stream!Init
<1>2. /\ DOMAIN writeQueue = {} /\ DOMAIN items = {}
      /\ sent = {} /\ finished = {} /\ disk = {}
      /\ \A a \in WebApps : toStorage[a] = <<>> /\ DOMAIN toStorage[a] = {}
  BY DEF Init
<1>3. TypeOK
  <2>1. /\ phase \in [Fetches -> {"silent", "open", "ended"}]
        /\ chunks \in [Fetches -> 0..MaxChunks]
    BY <1>1
  <2>2. /\ alive \in SUBSET WebApps
        /\ state \in [Fetches -> {"none", "Idle", "Finished", "Aborted"}]
        /\ known \in SUBSET Fetches
        /\ written \in [Fetches -> 0..MaxChunks] /\ attachedAt \in [Fetches -> 0..MaxChunks]
        /\ readUpTo \in [Fetches -> 0..MaxChunks]
        /\ nextId \in [WebApps -> Nat]
        /\ fileId \in [Fetches -> Nat \cup {NoFile}]
    BY <1>1 DEF Init
  <2>3. /\ toStorage \in [WebApps -> Seq([file : Nat, part : Parts])]
        /\ toUi \in Seq([job : Nat, num : Nat])
    BY DEF Init
  <2> QED
    BY <1>2, <2>1, <2>2, <2>3 DEF TypeOK
<1>4. RepliesFollowTheStream
  BY <1>1 DEF Init, RepliesFollowTheStream
<1>5. \A f \in Fetches : fileId[f] = NoFile /\ readUpTo[f] = 0
  BY DEF Init
<1>6. DownloadersFollowReplies /\ FileIdsDiffer
  BY <1>2, <1>5 DEF DownloadersFollowReplies, FileIdsDiffer
<1>7. RequestsAreOwn /\ DownloadsGoOn /\ NoSharedFile
  BY <1>2 DEF RequestsAreOwn, DownloadsGoOn, NoSharedFile
<1>8. FilesAreInOrder
  BY <1>2, FS_EmptySet DEF FilesAreInOrder
<1> QED
  BY <1>3, <1>4, <1>6, <1>7, <1>8 DEF IInv

LEMMA StutterKeeps ==
    ASSUME IInv, UNCHANGED vars
    PROVE  IInv'
<1>1. UNCHANGED <<phase, chunks, alive, state, known, written, readUpTo, nextId, fileId, sent,
                  finished, attachedAt, toStorage, writeQueue, disk, toUi, items>>
  BY DEF vars, stream, reply, downloader, storage
<1>2. TypeOK /\ RepliesFollowTheStream /\ DownloadersFollowReplies /\ FileIdsDiffer
  BY DEF IInv
<1>3. TypeOK'
  BY <1>1, <1>2 DEF TypeOK
<1>4. RepliesFollowTheStream'
  BY <1>1, <1>2 DEF RepliesFollowTheStream
<1>5. DownloadersFollowReplies' /\ FileIdsDiffer'
  BY <1>1, <1>2 DEF DownloadersFollowReplies, FileIdsDiffer
<1>6. RequestsAreOwn' /\ DownloadsGoOn' /\ FilesAreInOrder' /\ NoSharedFile'
  BY <1>1, NothingSent
<1> QED
  BY <1>3, <1>4, <1>5, <1>6 DEF IInv

\* The invariant is inductive: every operation of web apps, storage process and
\* UI keeps it.
THEOREM Invariance == Spec => []IInv
<1>1. Init => IInv
  BY InitHolds
<1>2. IInv /\ [Next]_vars => IInv'
  <2> SUFFICES ASSUME IInv, [Next]_vars PROVE IInv'
    OBVIOUS
  <2>1. CASE UNCHANGED vars
    BY <2>1, StutterKeeps
  <2>2. CASE HandleDownloadInfo
    BY <2>2, HandleDownloadInfoKeeps
  <2>3. ASSUME NEW f \in Fetches, HandleMessage(f) PROVE IInv'
    BY <2>3, HandleMessageKeeps
  <2>4. ASSUME NEW f \in Fetches, CreateRequest(f) PROVE IInv'
    BY <2>4, CreateRequestKeeps
  <2>5. ASSUME NEW f \in Fetches, DownloadRequested(f) PROVE IInv'
    BY <2>5, DownloadRequestedKeeps
  <2>6. ASSUME NEW f \in Fetches, HandleUnsupportedContent(f) PROVE IInv'
    BY <2>6, HandleUnsupportedContentKeeps
  <2>7. ASSUME NEW f \in Fetches, Abort(f) PROVE IInv'
    BY <2>7, AbortKeeps
  <2>8. ASSUME NEW a \in WebApps, AppDies(a) PROVE IInv'
    BY <2>8, AppDiesKeeps
  <2>9. ASSUME NEW a \in WebApps, WriteFile(a) PROVE IInv'
    BY <2>9, WriteFileKeeps
  <2> QED
    BY <2>1, <2>2, <2>3, <2>4, <2>5, <2>6, <2>7, <2>8, <2>9 DEF Next
<1> QED
  BY <1>1, <1>2, PTL DEF Spec

\* Every variable keeps its type, for any web apps, fetches, names and sizes: what
\* downloaders send and the storage process makes of it stays well-formed, whenever
\* a downloader is attached.
THEOREM DownloadTypeCorrectness == Spec => []TypeOK
<1>1. IInv => TypeOK
  BY DEF IInv
<1> QED
  BY <1>1, Invariance, PTL

\* A file that storage has in its queue holds the answer from its first chunk on
\* without gap or repetition, and the whole of it once it is closed, however the
\* messages of different downloads mix (Storage::writeFile, OpDownloader).
THEOREM FilesAreWhole == Spec => []FilesHoldTheAnswer
<1>1. IInv => FilesHoldTheAnswer
  <2> SUFFICES ASSUME IInv, NEW f \in Fetches, Entry(f) \in DOMAIN writeQueue
               PROVE  /\ \A i \in DOMAIN writeQueue[Entry(f)].content :
                            writeQueue[Entry(f)].content[i] = i
                      /\ ~writeQueue[Entry(f)].open /\ ~writeQueue[Entry(f)].failed =>
                            /\ Len(writeQueue[Entry(f)].content) = chunks[f]
                            /\ phase[f] = "ended"
    BY DEF FilesHoldTheAnswer, Entry
  <2>1. /\ TypeOK /\ RepliesFollowTheStream /\ DownloadersFollowReplies /\ FileIdsDiffer
        /\ RequestsAreOwn /\ DownloadsGoOn /\ FilesAreInOrder
    BY DEF IInv
  <2>2. f \in sent
    <3>1. PICK g \in sent : Entry(g) = Entry(f)
      BY <2>1 DEF RequestsAreOwn
    <3>2. g \in Fetches /\ fileId[g] # NoFile
      BY <2>1, SentFacts
    <3>3. g.app = f.app /\ fileId[g] = fileId[f]
      BY <3>1 DEF Entry
    <3>4. g = f
      BY <2>1, <3>2, <3>3 DEF FileIdsDiffer
    <3> QED
      BY <3>4
  <2>3. ASSUME ~writeQueue[Entry(f)].open, ~writeQueue[Entry(f)].failed
        PROVE  Len(writeQueue[Entry(f)].content) = chunks[f] /\ phase[f] = "ended"
    <3>1. Status(f) = "closed" /\ Stored(f) = Len(writeQueue[Entry(f)].content)
      BY <2>3 DEF Status, Stored
    <3>2. GoesOn(toStorage[f.app], fileId[f], Status(f), Stored(f),
                 f.app \in alive, f \in finished, readUpTo[f])
      BY <2>1, <2>2 DEF DownloadsGoOn
    <3>3. f \in finished /\ Stored(f) = readUpTo[f]
      BY <3>1, <3>2 DEF GoesOn
    <3>4. fileId[f] # NoFile
      BY <2>1, <2>2, SentFacts
    <3>5. state[f] = "Finished" /\ readUpTo[f] = written[f]
      BY <2>1, <2>2, <3>3, <3>4 DEF DownloadersFollowReplies
    <3>6. phase[f] = "ended" /\ written[f] = chunks[f]
      BY <2>1, <3>5 DEF RepliesFollowTheStream
    <3> QED
      BY <3>1, <3>3, <3>5, <3>6
  <2> QED
    BY <2>1, <2>3 DEF FilesAreInOrder
<1> QED
  BY <1>1, Invariance, PTL

\* The loop over QFile::exists finds a name of its own for each download, the
\* failed ones left out, whatever names servers suggest.
THEOREM FilesAreNotShared == Spec => []NoSharedFile
<1>1. IInv => NoSharedFile
  BY DEF IInv
<1> QED
  BY <1>1, Invariance, PTL

-----------------------------------------------------------------------------
\* The pipe to the UI

Infos == [job : Nat, num : Nat]

\* What a message adds to the progress of a job
Adds(m, job) == IF m.job = job THEN m.num ELSE 0

LEMMA InfoFacts ==
    ASSUME NEW q \in Seq(Infos), NEW job
    PROVE  /\ Len(q) \in Nat /\ DOMAIN q = 1..Len(q)
           /\ \A i \in DOMAIN q : q[i].job \in Nat /\ q[i].num \in Nat /\ Adds(q[i], job) \in Nat
           /\ \A i \in OfJob(q, job) : i \in DOMAIN q /\ i \in Nat \ {0}
<1>1. Len(q) \in Nat /\ DOMAIN q = 1..Len(q)
  OBVIOUS
<1>2. \A i \in DOMAIN q : q[i] \in Infos
  BY <1>1, ElementOfSeq
<1>3. \A i \in DOMAIN q : q[i].job \in Nat /\ q[i].num \in Nat
  BY <1>2 DEF Infos
<1> QED
  BY <1>1, <1>3 DEF Adds, OfJob

\* What is known of t when it is q with m added, or without its head
Longer(q, m, job, t) ==
    /\ t \in Seq(Infos)
    /\ Len(q) \in Nat /\ DOMAIN q = 1..Len(q)
    /\ Len(t) = Len(q) + 1 /\ DOMAIN t = 1..(Len(q) + 1)
    /\ t[Len(q) + 1] = m
    /\ \A i \in DOMAIN q : t[i] = q[i]
    /\ OfJob(t, job) = OfJob(q, job) \cup (IF m.job = job THEN {Len(q) + 1} ELSE {})
    /\ \A i \in OfJob(q, job) : i \in 1..Len(q)

Shorter(q, job, t) ==
    /\ t \in Seq(Infos)
    /\ Len(q) \in Nat \ {0} /\ DOMAIN q = 1..Len(q)
    /\ Len(t) = Len(q) - 1 /\ DOMAIN t = 1..(Len(q) - 1)
    /\ Head(q) = q[1] /\ q[1] \in Infos
    /\ \A i \in DOMAIN t : i + 1 \in DOMAIN q /\ t[i] = q[i + 1]
    /\ \A i \in OfJob(t, job) : i \in DOMAIN t /\ i + 1 \in OfJob(q, job)
    /\ \A i \in OfJob(q, job) : i \in DOMAIN q /\ (i # 1 => i - 1 \in OfJob(t, job))
    /\ 1 \in OfJob(q, job) <=> q[1].job = job

LEMMA OneInfoMore ==
    ASSUME NEW q \in Seq(Infos), NEW m \in Infos, NEW job
    PROVE  Longer(q, m, job, Append(q, m))
<1> DEFINE t == Append(q, m)
<1>1. t \in Seq(Infos) /\ Len(t) = Len(q) + 1
  BY AppendProperties
<1>2. DOMAIN t = 1..(Len(q) + 1) /\ DOMAIN q = 1..Len(q) /\ Len(q) \in Nat
  BY <1>1, LenProperties
<1>3. t[Len(q) + 1] = m /\ \A i \in DOMAIN q : t[i] = q[i]
  BY <1>1, <1>2, AppendProperties
<1>4. \A i : i \in OfJob(t, job)
               <=> i \in OfJob(q, job) \/ (m.job = job /\ i = Len(q) + 1)
  BY <1>2, <1>3 DEF OfJob
<1>5. \A i \in OfJob(q, job) : i \in 1..Len(q)
  BY <1>2 DEF OfJob
<1> HIDE DEF t
<1>6. OfJob(t, job) = OfJob(q, job) \cup (IF m.job = job THEN {Len(q) + 1} ELSE {})
  BY <1>4
<1> QED
  BY <1>1, <1>2, <1>3, <1>5, <1>6 DEF Longer, t

LEMMA OneInfoLess ==
    ASSUME NEW q \in Seq(Infos), q # <<>>, NEW job
    PROVE  Shorter(q, job, Tail(q))
<1> DEFINE t == Tail(q)
<1>1. Len(q) \in Nat \ {0} /\ DOMAIN q = 1..Len(q) /\ Head(q) = q[1]
  OBVIOUS
<1>2. t \in Seq(Infos) /\ Len(t) = Len(q) - 1
  BY HeadTailProperties
<1>3. DOMAIN t = 1..(Len(q) - 1)
  BY <1>2, LenProperties
<1>4. q[1] \in Infos
  BY <1>1, ElementOfSeq
<1>5. \A i \in DOMAIN t : i + 1 \in DOMAIN q /\ t[i] = q[i + 1]
  BY <1>1, <1>2, <1>3, HeadTailProperties
<1>6. \A i \in OfJob(t, job) : i \in DOMAIN t /\ i + 1 \in OfJob(q, job)
  BY <1>5 DEF OfJob
<1>7. \A i \in OfJob(q, job) : i # 1 => i - 1 \in OfJob(t, job)
  <2> SUFFICES ASSUME NEW i \in OfJob(q, job), i # 1 PROVE i - 1 \in OfJob(t, job)
    OBVIOUS
  <2>1. i \in 1..Len(q) /\ q[i].job = job
    BY <1>1 DEF OfJob
  <2>2. i - 1 \in DOMAIN t /\ (i - 1) + 1 = i
    BY <1>1, <1>3, <2>1
  <2>3. t[i - 1] = q[i]
    BY <1>5, <2>2
  <2> QED
    BY <2>1, <2>2, <2>3 DEF OfJob
<1>8. 1 \in OfJob(q, job) <=> q[1].job = job
  BY <1>1 DEF OfJob
<1>9. \A i \in OfJob(q, job) : i \in DOMAIN q
  BY DEF OfJob
<1> HIDE DEF t
<1> QED
  BY <1>1, <1>2, <1>3, <1>4, <1>5, <1>6, <1>7, <1>8, <1>9 DEF Shorter, t

-----------------------------------------------------------------------------
\* What the messages about a job add up to

\* The function that AddsUp speaks of
Counts(count, q, job, shown, total) ==
    /\ count \in [0..Len(q) -> 0..total]
    /\ count[0] = shown
    /\ \A i \in DOMAIN q : count[i] = count[i - 1] + Adds(q[i], job)
    /\ \A i \in 0..Len(q) : (\A k \in OfJob(q, job) : k <= i) => count[i] = total

LEMMA AddsUpByCounting ==
    ASSUME NEW q, NEW job, NEW shown, NEW total
    PROVE  AddsUp(q, job, shown, total) <=> \E count : Counts(count, q, job, shown, total)
BY DEF AddsUp, Counts, Adds

LEMMA CountOneMore ==
    ASSUME NEW q \in Seq(Infos), NEW m \in Infos, NEW job, NEW shown, NEW total \in Nat,
           AddsUp(q, job, shown, total), NEW t, t = Append(q, m)
    PROVE  AddsUp(t, job, shown, total + Adds(m, job))
<1> DEFINE n == Len(q)
           sum == total + Adds(m, job)
<1>1. /\ n \in Nat /\ DOMAIN q = 1..n
      /\ Len(t) = n + 1 /\ DOMAIN t = 1..(n + 1)
      /\ t[n + 1] = m /\ \A i \in 1..n : t[i] = q[i]
      /\ OfJob(t, job) = OfJob(q, job) \cup (IF m.job = job THEN {n + 1} ELSE {})
      /\ \A i \in OfJob(q, job) : i \in 1..n
  <2>1. Longer(q, m, job, t)
    BY OneInfoMore
  <2> QED
    BY <2>1 DEF Longer
<1>2. Adds(m, job) \in Nat /\ (m.job # job => Adds(m, job) = 0) /\ sum \in Nat /\ total <= sum
  BY DEF Adds, Infos
<1>3. PICK count : Counts(count, q, job, shown, total)
  BY AddsUpByCounting
<1> DEFINE c == [i \in 0..(n + 1) |-> IF i = n + 1 THEN sum ELSE count[i]]
<1> HIDE DEF n, sum
<1>4. count[n] = total /\ \A i \in 0..n : count[i] \in 0..total
  BY <1>1, <1>3 DEF Counts, n
<1>5. c[n + 1] = sum /\ (\A i \in 0..n : c[i] = count[i]) /\ DOMAIN c = 0..(n + 1)
  BY <1>1
<1>6. c \in [0..(n + 1) -> 0..sum]
  <2> SUFFICES ASSUME NEW i \in 0..(n + 1)
               PROVE  (IF i = n + 1 THEN sum ELSE count[i]) \in 0..sum
    OBVIOUS
  <2>1. i # n + 1 => i \in 0..n
    BY <1>1
  <2> QED
    BY <1>2, <1>4, <2>1
<1> HIDE DEF c
<1>7. c[0] = shown
  BY <1>1, <1>3, <1>5 DEF Counts
<1>8. ASSUME NEW i \in 1..(n + 1) PROVE c[i] = c[i - 1] + Adds(t[i], job)
  <2>1. CASE i = n + 1
    <3>1. c[i] = sum /\ c[i - 1] = total /\ t[i] = m
      BY <1>1, <1>4, <1>5, <2>1
    <3> QED
      BY <3>1 DEF sum
  <2>2. CASE i # n + 1
    <3>1. i \in 1..n /\ i - 1 \in 0..n /\ i \in 0..n
      BY <1>1, <2>2
    <3>2. count[i] = count[i - 1] + Adds(q[i], job)
      BY <1>1, <1>3, <3>1 DEF Counts
    <3> QED
      BY <1>1, <1>5, <3>1, <3>2
  <2> QED
    BY <2>1, <2>2
<1>9. ASSUME NEW i \in 0..(n + 1), \A k \in OfJob(t, job) : k <= i PROVE c[i] = sum
  <2>1. CASE i = n + 1
    BY <1>5, <2>1
  <2>2. CASE i # n + 1
    <3>1. i \in 0..n
      BY <1>1, <2>2
    <3>2. m.job # job
      BY <1>1, <1>9, <3>1
    <3>3. \A k \in OfJob(q, job) : k <= i
      BY <1>1, <1>9
    <3>4. count[i] = total
      BY <1>3, <3>1, <3>3 DEF Counts, n
    <3>5. sum = total
      BY <1>2, <3>2 DEF sum
    <3> QED
      BY <1>5, <3>1, <3>4, <3>5
  <2> QED
    BY <2>1, <2>2
<1>10. Counts(c, t, job, shown, sum)
  BY <1>1, <1>6, <1>7, <1>8, <1>9 DEF Counts
<1> QED
  BY <1>10, AddsUpByCounting DEF sum

LEMMA CountOneLess ==
    ASSUME NEW q \in Seq(Infos), q # <<>>, NEW job, NEW shown, NEW total \in Nat,
           AddsUp(q, job, shown, total), NEW t, t = Tail(q)
    PROVE  AddsUp(t, job, shown + Adds(Head(q), job), total)
<1> DEFINE n == Len(q) - 1
<1>1. /\ n \in Nat /\ Len(q) = n + 1 /\ DOMAIN q = 1..(n + 1)
      /\ Len(t) = n /\ DOMAIN t = 1..n /\ Head(q) = q[1]
      /\ \A i \in 1..n : t[i] = q[i + 1]
      /\ \A i \in OfJob(q, job) : i \in 1..(n + 1) /\ (i # 1 => i - 1 \in OfJob(t, job))
  <2>1. Shorter(q, job, t)
    BY OneInfoLess
  <2>2. Len(q) = (Len(q) - 1) + 1 /\ Len(q) - 1 \in Nat /\ DOMAIN q = 1..((Len(q) - 1) + 1)
    BY <2>1 DEF Shorter
  <2>3. \A i \in OfJob(q, job) :
           i \in 1..((Len(q) - 1) + 1) /\ (i # 1 => i - 1 \in OfJob(t, job))
    BY <2>1, <2>2 DEF Shorter
  <2>4. \A i \in 1..(Len(q) - 1) : t[i] = q[i + 1]
    BY <2>1 DEF Shorter
  <2> QED
    BY <2>1, <2>2, <2>3, <2>4 DEF Shorter
<1>2. PICK count : Counts(count, q, job, shown, total)
  BY AddsUpByCounting
<1> DEFINE c == [i \in 0..n |-> count[i + 1]]
<1> HIDE DEF n
<1>3. \A i \in 0..(n + 1) : count[i] \in 0..total
  BY <1>1, <1>2 DEF Counts
<1>4. c \in [0..n -> 0..total] /\ \A i \in 0..n : c[i] = count[i + 1]
  BY <1>1, <1>3
<1> HIDE DEF c
<1>5. c[0] = shown + Adds(Head(q), job)
  <2>1. 1 \in DOMAIN q /\ 0 \in 0..n /\ 1 - 1 = 0 /\ 0 + 1 = 1
    BY <1>1
  <2>2. count[1] = count[0] + Adds(q[1], job)
    BY <1>2, <2>1 DEF Counts
  <2> QED
    BY <1>1, <1>2, <1>4, <2>1, <2>2 DEF Counts
<1>6. ASSUME NEW i \in 1..n PROVE c[i] = c[i - 1] + Adds(t[i], job)
  <2>1. i + 1 \in DOMAIN q /\ (i + 1) - 1 = i /\ i \in 0..n /\ i - 1 \in 0..n /\ (i - 1) + 1 = i
    BY <1>1
  <2>2. count[i + 1] = count[i] + Adds(q[i + 1], job)
    BY <1>2, <2>1 DEF Counts
  <2>3. c[i] = count[i + 1] /\ c[i - 1] = count[i]
    BY <1>4, <2>1
  <2> QED
    BY <1>1, <2>2, <2>3
<1>7. ASSUME NEW i \in 0..n, \A k \in OfJob(t, job) : k <= i PROVE c[i] = total
  <2>1. i + 1 \in 0..(n + 1)
    BY <1>1
  <2>2. \A k \in OfJob(q, job) : k <= i + 1
    <3> TAKE k \in OfJob(q, job)
    <3>1. k \in 1..(n + 1) /\ (k # 1 => k - 1 <= i)
      BY <1>1, <1>7
    <3> QED
      BY <1>1, <3>1
  <2>3. count[i + 1] = total
    BY <1>1, <1>2, <2>1, <2>2 DEF Counts
  <2> QED
    BY <1>4, <2>3
<1>8. Counts(c, t, job, shown + Adds(Head(q), job), total)
  BY <1>1, <1>4, <1>5, <1>6, <1>7 DEF Counts
<1> QED
  BY <1>8, AddsUpByCounting

LEMMA CountNothing ==
    ASSUME NEW q \in Seq(Infos), NEW job, OfJob(q, job) = {}
    PROVE  /\ AddsUp(q, job, 0, 0)
           /\ \A shown : \A total \in Nat : AddsUp(q, job, shown, total) => shown = total
<1>1. Len(q) \in Nat /\ DOMAIN q = 1..Len(q) /\ \A i \in DOMAIN q : q[i].job # job
  BY DEF OfJob
<1>2. AddsUp(q, job, 0, 0)
  <2> DEFINE c == [i \in 0..Len(q) |-> 0]
  <2>1. c \in [0..Len(q) -> 0..0] /\ \A i \in 0..Len(q) : c[i] = 0
    OBVIOUS
  <2>2. \A i \in DOMAIN q : Adds(q[i], job) = 0 /\ i \in 0..Len(q) /\ i - 1 \in 0..Len(q)
    BY <1>1 DEF Adds
  <2> HIDE DEF c
  <2>3. 0 \in 0..Len(q)
    BY <1>1
  <2>4. \A i \in DOMAIN q : c[i] = c[i - 1] + Adds(q[i], job)
    BY <2>1, <2>2
  <2>5. Counts(c, q, job, 0, 0)
    BY <2>1, <2>3, <2>4 DEF Counts
  <2> QED
    BY <2>5, AddsUpByCounting
<1>3. ASSUME NEW shown, NEW total \in Nat, AddsUp(q, job, shown, total) PROVE shown = total
  <2>1. PICK count : Counts(count, q, job, shown, total)
    BY <1>3, AddsUpByCounting
  <2>2. 0 \in 0..Len(q)
    BY <1>1
  <2> QED
    BY <2>1, <2>2 DEF Counts
<1> QED
  BY <1>2, <1>3

-----------------------------------------------------------------------------
\* What a message to the UI, or one that it reads, leaves of Follows.  A message
\* about another job ...

LEMMA FollowsPastOthers ==
    ASSUME NEW q \in Seq(Infos), NEW m \in Infos, NEW job, m.job # job,
           NEW list, NEW shown, NEW status, NEW total \in Nat,
           Follows(q, job, list, shown, status, total)
    PROVE  Follows(Append(q, m), job, list, shown, status, total)
<1> DEFINE t == Append(q, m)
<1>1. Longer(q, m, job, t)
  BY OneInfoMore
<1>2. AddsUp(q, job, shown, total) => AddsUp(t, job, shown, total)
  <2>1. AddsUp(q, job, shown, total) => AddsUp(t, job, shown, total + Adds(m, job))
    BY CountOneMore
  <2>2. total + Adds(m, job) = total
    BY DEF Adds
  <2> QED
    BY <2>1, <2>2
<1> HIDE DEF t
<1>3. OfJob(t, job) = OfJob(q, job) /\ \A i \in OfJob(q, job) : t[i].num = q[i].num
  BY <1>1 DEF Longer
<1> QED
  BY <1>2, <1>3 DEF Follows, t

\* ... the one that storage sends when it has, or has not, opened the file ...
LEMMA FollowsWhenOpened ==
    ASSUME NEW q \in Seq(Infos), NEW m \in Infos, NEW job, m.job = job, m.num = 0,
           OfJob(q, job) = {}, NEW status \in {"open", "failed"}
    PROVE  Follows(Append(q, m), job, "unlisted", 0, status, 0)
<1> DEFINE t == Append(q, m)
<1>1. Longer(q, m, job, t)
  BY OneInfoMore
<1>2. AddsUp(t, job, 0, 0)
  <2>1. AddsUp(q, job, 0, 0)
    BY CountNothing
  <2>2. PICK zero \in Nat : zero = 0
    OBVIOUS
  <2>3. AddsUp(t, job, zero, zero + Adds(m, job))
    BY <2>1, <2>2, CountOneMore
  <2>4. zero + Adds(m, job) = zero
    BY <2>2 DEF Adds
  <2> QED
    BY <2>2, <2>3, <2>4
<1> HIDE DEF t
<1>3. OfJob(t, job) = {Len(q) + 1} /\ t[Len(q) + 1].num = 0 /\ Len(q) \in Nat
  BY <1>1 DEF Longer
<1> QED
  BY <1>2, <1>3 DEF Follows, t

\* ... has written data ...
LEMMA FollowsWhenWritten ==
    ASSUME NEW q \in Seq(Infos), NEW m \in Infos, NEW job, m.job = job, m.num > 0,
           NEW list, NEW shown, NEW total \in Nat,
           Follows(q, job, list, shown, "open", total)
    PROVE  Follows(Append(q, m), job, list, shown, "open", total + m.num)
<1> DEFINE t == Append(q, m)
           n == Len(q)
<1>1. Longer(q, m, job, t)
  BY OneInfoMore
<1>2. AddsUp(t, job, shown, total + m.num)
  <2>1. AddsUp(q, job, shown, total)
    BY DEF Follows
  <2>2. AddsUp(t, job, shown, total + Adds(m, job))
    BY <2>1, CountOneMore
  <2> QED
    BY <2>2 DEF Adds
<1> HIDE DEF t
<1>3. /\ OfJob(t, job) = OfJob(q, job) \cup {n + 1} /\ n \in Nat
      /\ \A i \in OfJob(q, job) : i \in 1..n /\ t[i].num = q[i].num
      /\ t[n + 1].num # 0
  BY <1>1 DEF Longer
<1> HIDE DEF n
<1>4. ASSUME list = "unlisted"
      PROVE  /\ shown = 0
             /\ \E i \in OfJob(t, job) : t[i].num = 0 /\ \A k \in OfJob(t, job) : i <= k
  <2>1. PICK i \in OfJob(q, job) : q[i].num = 0 /\ \A k \in OfJob(q, job) : i <= k
    BY <1>4 DEF Follows
  <2>2. i \in OfJob(t, job) /\ t[i].num = 0 /\ \A k \in OfJob(t, job) : i <= k
    BY <1>3, <2>1
  <2> QED
    BY <1>4, <2>2 DEF Follows
<1>5. ASSUME NEW i \in OfJob(t, job), t[i].num = 0
      PROVE  list = "unlisted" /\ \A k \in OfJob(t, job) : i <= k
  <2>1. i \in OfJob(q, job) /\ q[i].num = 0
    BY <1>3, <1>5
  <2>2. list = "unlisted" /\ \A k \in OfJob(q, job) : i <= k
    BY <2>1 DEF Follows
  <2> QED
    BY <1>3, <2>1, <2>2
<1>6. list # "finished"
  BY DEF Follows
<1> QED
  BY <1>2, <1>4, <1>5, <1>6 DEF Follows, t

\* ... has had to drop it, or the end, because there is no file ...
LEMMA FollowsWhenDropped ==
    ASSUME NEW q \in Seq(Infos), NEW m \in Infos, NEW job, m.job = job, m.num = 0,
           NEW list, NEW shown, NEW total,
           Follows(q, job, list, shown, "failed", total)
    PROVE  Follows(Append(q, m), job, list, shown, "failed", total)
<1> DEFINE t == Append(q, m)
           n == Len(q)
<1>1. Longer(q, m, job, t)
  BY OneInfoMore
<1> HIDE DEF t
<1>2. /\ OfJob(t, job) = OfJob(q, job) \cup {n + 1} /\ n \in Nat
      /\ \A i \in OfJob(q, job) : i \in 1..n /\ t[i].num = q[i].num
      /\ t[n + 1].num = 0
  BY <1>1 DEF Longer
<1> HIDE DEF n
<1>3. ASSUME list = "unlisted"
      PROVE  \E i \in OfJob(t, job) : t[i].num = 0 /\ \A k \in OfJob(t, job) : i <= k
  <2>1. PICK i \in OfJob(q, job) : q[i].num = 0 /\ \A k \in OfJob(q, job) : i <= k
    BY <1>3 DEF Follows
  <2>2. i \in OfJob(t, job) /\ t[i].num = 0 /\ \A k \in OfJob(t, job) : i <= k
    BY <1>2, <2>1
  <2> QED
    BY <2>2
<1>4. shown = 0 /\ \A i \in OfJob(t, job) : t[i].num = 0
  BY <1>2 DEF Follows
<1> QED
  BY <1>3, <1>4 DEF Follows, t

\* ... and has closed the file.
LEMMA FollowsWhenClosed ==
    ASSUME NEW q \in Seq(Infos), NEW m \in Infos, NEW job, m.job = job, m.num = 0,
           NEW list, NEW shown, NEW total \in Nat,
           Follows(q, job, list, shown, "open", total)
    PROVE  Follows(Append(q, m), job, list, shown, "closed", total)
<1> DEFINE t == Append(q, m)
           n == Len(q)
<1>1. Longer(q, m, job, t)
  BY OneInfoMore
<1>2. AddsUp(t, job, shown, total)
  <2>1. AddsUp(q, job, shown, total)
    BY DEF Follows
  <2>2. AddsUp(t, job, shown, total + Adds(m, job))
    BY <2>1, CountOneMore
  <2>3. total + Adds(m, job) = total
    BY DEF Adds
  <2> QED
    BY <2>2, <2>3
<1> HIDE DEF t
<1>3. /\ OfJob(t, job) = OfJob(q, job) \cup {n + 1} /\ n \in Nat
      /\ \A i \in OfJob(q, job) : i \in 1..n /\ t[i].num = q[i].num
  BY <1>1 DEF Longer
<1> HIDE DEF n
<1>4. ASSUME list = "unlisted"
      PROVE  /\ shown = 0
             /\ \E i \in OfJob(t, job) : t[i].num = 0 /\ \A k \in OfJob(t, job) : i <= k
  <2>1. PICK i \in OfJob(q, job) : q[i].num = 0 /\ \A k \in OfJob(q, job) : i <= k
    BY <1>4 DEF Follows
  <2>2. i \in OfJob(t, job) /\ t[i].num = 0 /\ \A k \in OfJob(t, job) : i <= k
    BY <1>3, <2>1
  <2> QED
    BY <1>4, <2>2 DEF Follows
<1>5. ASSUME NEW i \in OfJob(t, job), t[i].num = 0
      PROVE  \/ list = "unlisted" /\ \A k \in OfJob(t, job) : i <= k
             \/ \A k \in OfJob(t, job) : k <= i
  <2>1. CASE i = n + 1
    BY <1>3, <2>1
  <2>2. CASE i # n + 1
    <3>1. i \in OfJob(q, job) /\ q[i].num = 0
      BY <1>3, <1>5, <2>2
    <3>2. list = "unlisted" /\ \A k \in OfJob(q, job) : i <= k
      BY <3>1 DEF Follows
    <3> QED
      BY <1>3, <3>1, <3>2
  <2> QED
    BY <2>1, <2>2
<1>6. list # "finished"
  BY DEF Follows
<1> QED
  BY <1>2, <1>4, <1>5, <1>6 DEF Follows, t

-----------------------------------------------------------------------------
\* What the UI makes of a message: nothing of one about another job ...
LEMMA FollowsBehindOthers ==
    ASSUME NEW q \in Seq(Infos), q # <<>>, NEW job, Head(q).job # job,
           NEW list, NEW shown \in Nat, NEW status, NEW total \in Nat,
           Follows(q, job, list, shown, status, total)
    PROVE  Follows(Tail(q), job, list, shown, status, total)
<1> DEFINE t == Tail(q)
<1>1. Shorter(q, job, t)
  BY OneInfoLess
<1>2. AddsUp(q, job, shown, total) => AddsUp(t, job, shown, total)
  <2>1. AddsUp(q, job, shown, total) => AddsUp(t, job, shown + Adds(Head(q), job), total)
    BY CountOneLess
  <2>2. shown + Adds(Head(q), job) = shown
    BY DEF Adds
  <2> QED
    BY <2>1, <2>2
<1> HIDE DEF t
<1>3. /\ \A i \in OfJob(q, job) :
            i \in Nat /\ i - 1 \in OfJob(t, job) /\ t[i - 1].num = q[i].num
      /\ \A i \in OfJob(t, job) :
            i \in Nat /\ i + 1 \in OfJob(q, job) /\ t[i].num = q[i + 1].num
  <2>1. 1 \notin OfJob(q, job)
    BY <1>1 DEF Shorter
  <2>2. \A i \in OfJob(t, job) : i \in Nat /\ i + 1 \in OfJob(q, job) /\ t[i] = q[i + 1]
    BY <1>1 DEF Shorter
  <2>3. \A i \in OfJob(q, job) : i \in Nat /\ i - 1 \in OfJob(t, job) /\ (i - 1) + 1 = i
    BY <1>1, <2>1 DEF Shorter
  <2>4. \A i \in OfJob(q, job) : t[i - 1] = q[i]
    BY <2>2, <2>3
  <2> QED
    BY <2>2, <2>3, <2>4
<1>4. ASSUME list = "unlisted"
      PROVE  \E i \in OfJob(t, job) : t[i].num = 0 /\ \A k \in OfJob(t, job) : i <= k
  <2>1. PICK i \in OfJob(q, job) : q[i].num = 0 /\ \A k \in OfJob(q, job) : i <= k
    BY <1>4 DEF Follows
  <2>2. i - 1 \in OfJob(t, job) /\ t[i - 1].num = 0 /\ \A k \in OfJob(t, job) : i - 1 <= k
    BY <1>3, <2>1
  <2> QED
    BY <2>2
<1>5. ASSUME status = "failed" PROVE \A i \in OfJob(t, job) : t[i].num = 0
  BY <1>3, <1>5 DEF Follows
<1>6. ASSUME status # "failed", NEW i \in OfJob(t, job), t[i].num = 0
      PROVE  \/ list = "unlisted" /\ \A k \in OfJob(t, job) : i <= k
             \/ status = "closed" /\ \A k \in OfJob(t, job) : k <= i
  <2>1. i + 1 \in OfJob(q, job) /\ q[i + 1].num = 0
    BY <1>3, <1>6
  <2>2. \/ list = "unlisted" /\ \A k \in OfJob(q, job) : i + 1 <= k
        \/ status = "closed" /\ \A k \in OfJob(q, job) : k <= i + 1
    BY <1>6, <2>1 DEF Follows
  <2> QED
    BY <1>3, <2>2
<1>7. OfJob(q, job) = {} => OfJob(t, job) = {}
  BY <1>3
<1> QED
  BY <1>2, <1>4, <1>5, <1>6, <1>7 DEF Follows, t

\* ... a new job of the first one about it ...
LEMMA FollowsWhenListed ==
    ASSUME NEW q \in Seq(Infos), q # <<>>, NEW job, Head(q).job = job,
           NEW shown, NEW status, NEW total \in Nat,
           Follows(q, job, "unlisted", shown, status, total)
    PROVE  Follows(Tail(q), job, "running", 0, status, total)
<1> DEFINE t == Tail(q)
<1>1. Shorter(q, job, t)
  BY OneInfoLess
<1>2. shown = 0 /\ q[1].num = 0
  <2>1. PICK i \in OfJob(q, job) : q[i].num = 0 /\ \A k \in OfJob(q, job) : i <= k
    BY DEF Follows
  <2>2. 1 \in OfJob(q, job) /\ i \in Nat \ {0}
    BY <1>1 DEF Shorter
  <2>3. i = 1
    BY <2>1, <2>2
  <2> QED
    BY <2>1, <2>3 DEF Follows
<1>3. AddsUp(q, job, shown, total) => AddsUp(t, job, 0, total)
  <2>1. AddsUp(q, job, 0, total) => AddsUp(t, job, 0 + Adds(Head(q), job), total)
    BY CountOneLess
  <2>2. Head(q) = q[1]
    BY <1>1 DEF Shorter
  <2>3. 0 + Adds(Head(q), job) = 0
    BY <1>2, <2>2 DEF Adds
  <2> QED
    BY <1>2, <2>1, <2>3
<1> HIDE DEF t
<1>4. \A i \in OfJob(t, job) :
         i \in Nat \ {0} /\ i + 1 \in OfJob(q, job) /\ t[i].num = q[i + 1].num
  BY <1>1 DEF Shorter
<1>5. ASSUME status = "failed" PROVE \A i \in OfJob(t, job) : t[i].num = 0
  BY <1>4, <1>5 DEF Follows
<1>6. ASSUME status # "failed", NEW i \in OfJob(t, job), t[i].num = 0
      PROVE  status = "closed" /\ \A k \in OfJob(t, job) : k <= i
  <2>1. i + 1 \in OfJob(q, job) /\ q[i + 1].num = 0
    BY <1>4, <1>6
  <2>2. \/ \A k \in OfJob(q, job) : i + 1 <= k
        \/ status = "closed" /\ \A k \in OfJob(q, job) : k <= i + 1
    BY <1>6, <2>1 DEF Follows
  <2>3. 1 \in OfJob(q, job)
    BY <1>1 DEF Shorter
  <2>4. ~ (i + 1 <= 1)
    BY <1>4
  <2>5. status = "closed" /\ \A k \in OfJob(q, job) : k <= i + 1
    BY <2>2, <2>3, <2>4
  <2>6. \A k \in OfJob(t, job) : k <= i
    BY <1>4, <2>5
  <2> QED
    BY <2>5, <2>6
<1> QED
  BY <1>2, <1>3, <1>5, <1>6 DEF Follows, t

\* ... progress of a number ...
LEMMA FollowsWhenShown ==
    ASSUME NEW q \in Seq(Infos), q # <<>>, NEW job, Head(q).job = job, Head(q).num > 0,
           NEW list \in {"running", "finished"}, NEW shown \in Nat,
           NEW status, NEW total \in Nat, NEW now, now = shown + Head(q).num,
           Follows(q, job, list, shown, status, total)
    PROVE  Follows(Tail(q), job, list, now, status, total)
<1> DEFINE t == Tail(q)
<1>1. Shorter(q, job, t)
  BY OneInfoLess
<1>2. AddsUp(q, job, shown, total) => AddsUp(t, job, now, total)
  <2>1. AddsUp(q, job, shown, total) => AddsUp(t, job, shown + Adds(Head(q), job), total)
    BY CountOneLess
  <2> QED
    BY <2>1 DEF Adds
<1> HIDE DEF t
<1>3. 1 \in OfJob(q, job) /\ q[1].num # 0
  BY <1>1 DEF Shorter
<1>4. status # "failed" /\ list = "running"
  BY <1>3 DEF Follows
<1>5. \A i \in OfJob(t, job) :
         i \in Nat \ {0} /\ i + 1 \in OfJob(q, job) /\ t[i].num = q[i + 1].num
  BY <1>1 DEF Shorter
<1>6. ASSUME NEW i \in OfJob(t, job), t[i].num = 0
      PROVE  status = "closed" /\ \A k \in OfJob(t, job) : k <= i
  <2>1. i + 1 \in OfJob(q, job) /\ q[i + 1].num = 0
    BY <1>5, <1>6
  <2>2. status = "closed" /\ \A k \in OfJob(q, job) : k <= i + 1
    BY <1>4, <2>1 DEF Follows
  <2> QED
    BY <1>5, <2>2
<1> QED
  BY <1>2, <1>4, <1>6 DEF Follows, t

\* ... and the end of another zero.
LEMMA FollowsWhenFinished ==
    ASSUME NEW q \in Seq(Infos), q # <<>>, NEW job, Head(q).job = job, Head(q).num = 0,
           NEW list \in {"running", "finished"}, NEW shown \in Nat,
           NEW status, NEW total \in Nat,
           Follows(q, job, list, shown, status, total)
    PROVE  Follows(Tail(q), job, "finished", shown, status, total)
<1> DEFINE t == Tail(q)
<1>1. Shorter(q, job, t)
  BY OneInfoLess
<1>2. AddsUp(q, job, shown, total) => AddsUp(t, job, shown, total)
  <2>1. AddsUp(q, job, shown, total) => AddsUp(t, job, shown + Adds(Head(q), job), total)
    BY CountOneLess
  <2>2. shown + Adds(Head(q), job) = shown
    BY DEF Adds
  <2> QED
    BY <2>1, <2>2
<1> HIDE DEF t
<1>3. 1 \in OfJob(q, job) /\ q[1].num = 0
  BY <1>1 DEF Shorter
<1>4. \A i \in OfJob(t, job) :
         i \in Nat \ {0} /\ i + 1 \in OfJob(q, job) /\ t[i].num = q[i + 1].num
  BY <1>1 DEF Shorter
<1>5. ASSUME status = "failed" PROVE shown = 0 /\ \A i \in OfJob(t, job) : t[i].num = 0
  BY <1>4, <1>5 DEF Follows
<1>6. ASSUME status # "failed" PROVE status = "closed" /\ OfJob(t, job) = {}
  <2>1. status = "closed" /\ \A k \in OfJob(q, job) : k <= 1
    BY <1>3, <1>6 DEF Follows
  <2> QED
    BY <1>4, <2>1
<1> QED
  BY <1>2, <1>5, <1>6 DEF Follows, t

\* A job that the UI calls finished has all of its file, or there is no file.
LEMMA FollowedToTheEnd ==
    ASSUME NEW q \in Seq(Infos), NEW job, NEW shown, NEW status, NEW total \in Nat,
           Follows(q, job, "finished", shown, status, total)
    PROVE  /\ status \in {"failed", "closed"}
           /\ status = "failed" => shown = 0
           /\ status = "closed" => shown = total
<1>1. ASSUME status # "failed" PROVE status = "closed" /\ shown = total
  <2>1. /\ status = "closed" /\ OfJob(q, job) = {}
        /\ AddsUp(q, job, shown, total)
    BY <1>1 DEF Follows
  <2> QED
    BY <2>1, CountNothing
<1>2. status = "failed" => shown = 0
  BY DEF Follows
<1> QED
  BY <1>1, <1>2

-----------------------------------------------------------------------------
\* Job numbers

\* While the ids of files stay below JobBase, files have numbers of their own.
LEMMA JobsDiffer ==
    ASSUME IInv, NumbersFit, NEW f \in sent, NEW g \in sent,
           JobId(Entry(f)) = JobId(Entry(g))
    PROVE  Entry(f) = Entry(g)
<1>1. \A h \in sent : /\ h.app \in Nat /\ fileId[h] \in Nat /\ fileId[h] < JobBase
  <2> TAKE h \in sent
  <2>1. TypeOK /\ DownloadersFollowReplies
    BY DEF IInv
  <2>2. /\ h \in Fetches /\ fileId[h] \in Nat /\ fileId[h] < nextId[h.app]
        /\ h.app \in WebApps /\ h.app \in Nat /\ nextId[h.app] \in Nat
    BY <2>1, SentFacts, FetchFacts
  <2>3. nextId[h.app] <= JobBase
    BY <2>2 DEF NumbersFit
  <2> QED
    BY <2>2, <2>3, DownloadAssumption
<1>2. ASSUME NEW a \in Nat, NEW b \in Nat, NEW x \in Nat, NEW y \in Nat,
             x < JobBase, y < JobBase, a < b
      PROVE  a * JobBase + x # b * JobBase + y
  <2>1. JobBase \in Nat
    BY DownloadAssumption
  <2>2. PICK k \in Nat : b = a + 1 + k
    <3>1. b - a - 1 \in Nat /\ b = a + 1 + (b - a - 1)
      BY <1>2
    <3> QED
      BY <3>1
  <2>3. b * JobBase = a * JobBase + JobBase + k * JobBase
    BY <2>1, <2>2
  <2>4. k * JobBase \in Nat /\ a * JobBase \in Nat
    BY <2>1
  <2> QED
    BY <1>2, <2>1, <2>3, <2>4
<1>3. \A h \in sent : JobId(Entry(h)) = h.app * JobBase + fileId[h]
  BY DEF JobId, Entry
<1>4. f.app = g.app
  <2>1. ~ (f.app < g.app)
    BY <1>1, <1>2, <1>3
  <2>2. ~ (g.app < f.app)
    BY <1>1, <1>2, <1>3
  <2> QED
    BY <1>1, <2>1, <2>2
<1>5. fileId[f] = fileId[g]
  <2>1. f.app * JobBase \in Nat
    BY <1>1, DownloadAssumption
  <2>2. PICK x \in Nat : x = f.app * JobBase
    BY <2>1
  <2>3. x + fileId[f] = x + fileId[g]
    BY <1>3, <1>4, <2>2
  <2> QED
    BY <1>1, <2>3
<1> QED
  BY <1>4, <1>5 DEF Entry

\* What the UI knows of the job of file d follows from what the file holds.
FileFollows(d) ==
    Follows(toUi, JobId(d), Listed(JobId(d)), Shown(JobId(d)), StatusOf(d),
            Len(writeQueue[d].content))

LEMMA UiFacts ==
    ASSUME IInv
    PROVE  /\ toUi \in Seq(Infos)
           /\ \A d \in DOMAIN writeQueue :
                 /\ Len(writeQueue[d].content) \in Nat
                 /\ JobId(d) \in Nat
                 /\ writeQueue[d].failed => ~writeQueue[d].open /\ writeQueue[d].content = <<>>
                 /\ \E f \in sent : Entry(f) = d
           /\ \A job : Shown(job) \in Nat
<1>1. TypeOK /\ RequestsAreOwn /\ FilesAreInOrder
  BY DEF IInv
<1>2. toUi \in Seq(Infos)
  BY <1>1 DEF TypeOK, Infos
<1>3. ASSUME NEW d \in DOMAIN writeQueue
      PROVE  /\ Len(writeQueue[d].content) \in Nat
             /\ JobId(d) \in Nat
             /\ writeQueue[d].failed => ~writeQueue[d].open /\ writeQueue[d].content = <<>>
             /\ \E f \in sent : Entry(f) = d
  <2>1. d \in Ids /\ writeQueue[d].content \in Seq(Nat)
    BY <1>1 DEF TypeOK, Files
  <2> QED
    BY <1>1, <2>1, JobIdIsNat, LenProperties DEF RequestsAreOwn, FilesAreInOrder
<1>4. ASSUME NEW job PROVE Shown(job) \in Nat
  <2>1. job \in DOMAIN items => items[job].received \in Nat
    BY <1>1 DEF TypeOK
  <2> QED
    BY <2>1 DEF Shown
<1> QED
  BY <1>2, <1>3, <1>4

\* Files of other jobs do not see a message about that of f.
LEMMA InfoSent ==
    ASSUME IInv, UiInv, NumbersFit, NEW f \in sent, NEW d, d = Entry(f), NEW n \in Nat,
           DOMAIN writeQueue' = DOMAIN writeQueue \cup {d},
           \A e \in DOMAIN writeQueue \ {d} : writeQueue'[e] = writeQueue[e],
           items' = items,
           toUi' = Append(toUi, [job |-> JobId(d), num |-> n]),
           FileFollows(d)'
    PROVE  UiInv'
<1> DEFINE own == JobId(d)
           m == [job |-> own, num |-> n]
<1>1. d \in Ids /\ own \in Nat
  <2>1. TypeOK /\ DownloadersFollowReplies
    BY DEF IInv
  <2>2. f.app \in WebApps /\ fileId[f] \in Nat
    BY <2>1, SentFacts, FetchFacts
  <2>3. d \in Ids
    BY <2>2 DEF Entry, Ids
  <2> QED
    BY <2>3, JobIdIsNat
<1>2. m \in Infos /\ m.job = own /\ toUi' = Append(toUi, m)
  BY <1>1 DEF Infos
<1> HIDE DEF m
<1>3. Longer(toUi, m, own, toUi')
  BY <1>2, UiFacts, OneInfoMore
<1>4. JobsAreStored'
  <2>1. \A i \in DOMAIN toUi' : \E e \in DOMAIN writeQueue' : JobId(e) = toUi'[i].job
    <3> TAKE i \in DOMAIN toUi'
    <3>1. (i \in DOMAIN toUi /\ toUi'[i] = toUi[i]) \/ toUi'[i].job = own
      BY <1>2, <1>3 DEF Longer
    <3>2. i \in DOMAIN toUi => \E e \in DOMAIN writeQueue : JobId(e) = toUi[i].job
      BY DEF UiInv, JobsAreStored
    <3> QED
      BY <3>1, <3>2
  <2>2. \A j \in DOMAIN items' : \E e \in DOMAIN writeQueue' : JobId(e) = j
    BY DEF UiInv, JobsAreStored
  <2> QED
    BY <2>1, <2>2 DEF JobsAreStored, JobId
<1>5. ASSUME NEW e \in DOMAIN writeQueue, e # d PROVE FileFollows(e)'
  <2>1. JobId(e) # own
    <3>1. PICK g \in sent : Entry(g) = e
      BY UiFacts
    <3> QED
      BY <1>5, <3>1, JobsDiffer
  <2>2. FileFollows(e)
    BY DEF UiInv, FileFollows
  <2>3. Follows(toUi', JobId(e), Listed(JobId(e)), Shown(JobId(e)), StatusOf(e),
                Len(writeQueue[e].content))
    BY <1>2, <2>1, <2>2, UiFacts, FollowsPastOthers DEF FileFollows
  <2>4. writeQueue'[e] = writeQueue[e]
    BY <1>5
  <2>5. /\ Listed(JobId(e))' = Listed(JobId(e)) /\ Shown(JobId(e))' = Shown(JobId(e))
        /\ StatusOf(e)' = StatusOf(e) /\ JobId(e)' = JobId(e)
    BY <2>4 DEF Listed, Shown, StatusOf, JobId
  <2> QED
    BY <2>3, <2>4, <2>5 DEF FileFollows
<1>6. \A e \in DOMAIN writeQueue' : FileFollows(e)'
  BY <1>5
<1> QED
  BY <1>4, <1>6 DEF UiInv, FileFollows

-----------------------------------------------------------------------------
\* Storage tells the UI what it does.

LEMMA OpeningIsShown ==
    ASSUME IInv, UiInv, NumbersFit, NEW f \in sent, StepOf(f, "open"), NEW d, d = Entry(f),
           UNCHANGED items
    PROVE  UiInv'
<1> DEFINE own == JobId(d)
           m == [job |-> own, num |-> 0]
           part == Head(toStorage[f.app]).part
           name == ActualName(NameIn(part))
<1>1. d \notin DOMAIN writeQueue /\ OpenFile(d, part)
  BY DEF StepOf
<1>2. PICK ok \in BOOLEAN :
         /\ writeQueue' = Put(writeQueue, d,
               [name |-> name, open |-> ok, content |-> <<>>, failed |-> ~ok])
         /\ toUi' = Append(toUi, m)
  BY <1>1 DEF OpenFile
<1> HIDE DEF part, name
<1>3. /\ DOMAIN writeQueue' = DOMAIN writeQueue \cup {d}
      /\ \A e \in DOMAIN writeQueue \ {d} : writeQueue'[e] = writeQueue[e]
      /\ writeQueue'[d] = [name |-> name, open |-> ok, content |-> <<>>, failed |-> ~ok]
  BY <1>2 DEF Put
<1>4. StatusOf(d)' \in {"open", "failed"} /\ Len(writeQueue'[d].content) = 0
  <2>1. /\ writeQueue'[d].open = ok /\ writeQueue'[d].failed = ~ok
        /\ Len(writeQueue'[d].content) = 0
    BY <1>3
  <2> QED
    BY <2>1 DEF StatusOf
<1>5. \A e \in DOMAIN writeQueue : JobId(e) # own
  <2> TAKE e \in DOMAIN writeQueue
  <2>1. PICK g \in sent : Entry(g) = e
    BY UiFacts
  <2> QED
    BY <1>1, <2>1, JobsDiffer
<1>6. OfJob(toUi, own) = {} /\ own \notin DOMAIN items
  BY <1>5 DEF UiInv, JobsAreStored, OfJob
<1>7. Listed(own)' = "unlisted" /\ Shown(own)' = 0
  <2>1. PICK j : j = own
    OBVIOUS
  <2>2. Listed(j)' = "unlisted" /\ Shown(j)' = 0
    BY <1>6, <2>1 DEF Listed, Shown
  <2> QED
    BY <2>1, <2>2 DEF JobId
<1>8. m \in Infos /\ m.job = own /\ m.num = 0
  <2>1. d \in Ids
    <3>1. TypeOK /\ DownloadersFollowReplies
      BY DEF IInv
    <3>2. f.app \in WebApps /\ fileId[f] \in Nat
      BY <3>1, SentFacts, FetchFacts
    <3> QED
      BY <3>2 DEF Entry, Ids
  <2> QED
    BY <2>1, JobIdIsNat DEF Infos
<1>9. Follows(Append(toUi, m), own, "unlisted", 0, StatusOf(d)', 0)
  <2> HIDE DEF m, own
  <2> QED
    BY <1>4, <1>6, <1>8, UiFacts, FollowsWhenOpened
<1>10. FileFollows(d)'
  <2>1. JobId(d)' = own
    BY DEF JobId
  <2> QED
    BY <1>2, <1>4, <1>7, <1>9, <2>1 DEF FileFollows
<1> QED
  BY <1>2, <1>3, <1>10, InfoSent

\* What is known of the file of f before it is written to or closed
LEMMA FileBefore ==
    ASSUME IInv, UiInv, NEW f \in sent, NEW d, d = Entry(f), d \in DOMAIN writeQueue,
           toStorage[f.app] # <<>>, Head(toStorage[f.app]).file = fileId[f]
    PROVE  LET part == Head(toStorage[f.app]).part
               old == writeQueue[d]
           IN  /\ JobId(d) \in Nat /\ old \in Files /\ Len(old.content) \in Nat
               /\ StatusOf(d) \in {"open", "failed"}
               /\ StatusOf(d) = "open" => old.open /\ ~old.failed
               /\ StatusOf(d) = "failed" => old.failed /\ ~old.open /\ old.content = <<>>
               /\ FileFollows(d)
               /\ StatusOf(d) = "open" /\ part.what # "end" =>
                     /\ part.from \in Nat /\ part.to \in Nat
                     /\ part.from = Len(old.content) + 1 /\ part.from <= part.to
<1> DEFINE q == toStorage[f.app]
           part == Head(q).part
           runs == f.app \in alive
           ends == f \in finished
           old == writeQueue[d]
<1>1. /\ q \in Seq(Requests) /\ q # <<>> /\ Head(q).file = fileId[f]
      /\ readUpTo[f] \in Nat
      /\ GoesOn(q, fileId[f], Status(f), Stored(f), runs, ends, readUpTo[f])
      /\ old \in Files /\ old.content \in Seq(Nat)
      /\ Status(f) \in Statuses \ {"none"}
      /\ Stored(f) = Len(old.content) /\ Stored(f) \in Nat
      /\ Status(f) = "open" <=> old.open
      /\ Status(f) = "failed" <=> old.failed
  BY FirstMessage
<1>2. StatusOf(d) = Status(f)
  BY DEF StatusOf, Status
<1>3. runs \in BOOLEAN /\ ends \in BOOLEAN
  OBVIOUS
<1>4. /\ Status(f) # "closed"
      /\ Status(f) = "open" /\ part.what # "end" =>
            /\ part.from \in Nat /\ part.to \in Nat
            /\ part.from = Stored(f) + 1 /\ Stored(f) + 1 <= part.to
  <2> HIDE DEF q, runs, ends
  <2>1. CASE part.what = "end"
    BY <1>1, <1>3, <2>1, GoesOnWhenClosed DEF part
  <2>2. CASE part.what # "end"
    BY <1>1, <1>3, <2>2, GoesOnWhenWritten DEF part
  <2> QED
    BY <2>1, <2>2
<1>5. Status(f) \in {"open", "failed"}
  BY <1>1, <1>4 DEF Statuses
<1>6. /\ JobId(d) \in Nat /\ Len(old.content) \in Nat
      /\ old.failed => ~old.open /\ old.content = <<>>
  BY UiFacts
<1>7. FileFollows(d)
  BY DEF UiInv, FileFollows
<1>8. Status(f) = "open" => old.open /\ ~old.failed
  BY <1>1, <1>6
<1>9. Status(f) = "failed" => old.failed /\ ~old.open /\ old.content = <<>>
  BY <1>1, <1>6
<1> QED
  BY <1>1, <1>2, <1>4, <1>5, <1>6, <1>7, <1>8, <1>9

LEMMA WritingIsShown ==
    ASSUME IInv, UiInv, NumbersFit, NEW f \in sent, StepOf(f, "write"), NEW d, d = Entry(f),
           UNCHANGED items
    PROVE  UiInv'
<1> DEFINE part == Head(toStorage[f.app]).part
           old == writeQueue[d]
           stored == Len(old.content)
           n == IF old.open THEN Len(Chunks(part)) ELSE 0
           m == [job |-> JobId(d), num |-> n]
<1>1. /\ toStorage[f.app] # <<>> /\ Head(toStorage[f.app]).file = fileId[f]
      /\ d \in DOMAIN writeQueue /\ part.what # "end" /\ WriteData(d, part)
  BY DEF StepOf
<1>2. /\ JobId(d) \in Nat /\ old \in Files /\ stored \in Nat
      /\ StatusOf(d) \in {"open", "failed"}
      /\ StatusOf(d) = "open" => old.open /\ ~old.failed
      /\ StatusOf(d) = "failed" => old.failed /\ ~old.open /\ old.content = <<>>
      /\ FileFollows(d)
      /\ StatusOf(d) = "open" =>
            /\ part.from \in Nat /\ part.to \in Nat
            /\ part.from = stored + 1 /\ part.from <= part.to
  BY <1>1, FileBefore
<1>3. /\ writeQueue' = IF old.open
                       THEN [writeQueue EXCEPT ![d].content = @ \o Chunks(part)]
                       ELSE writeQueue
      /\ toUi' = Append(toUi, m)
  BY <1>1 DEF WriteData
<1>4. toUi \in Seq(Infos) /\ Shown(JobId(d)) \in Nat
  BY UiFacts
<1>5. /\ Listed(JobId(d))' = Listed(JobId(d)) /\ Shown(JobId(d))' = Shown(JobId(d))
      /\ JobId(d)' = JobId(d)
  BY DEF Listed, Shown, JobId
<1> HIDE DEF part
<1>6. CASE StatusOf(d) = "open"
  <2> DEFINE c == old.content \o Chunks(part)
  <2>1. /\ Chunks(part) \in Seq(Nat) /\ Len(Chunks(part)) = part.to - part.from + 1
        /\ old.content \in Seq(Nat) /\ old.open
    BY <1>2, <1>6, ChunksFacts DEF Files
  <2>2. n = Len(Chunks(part)) /\ n \in Nat /\ n > 0
    BY <1>2, <1>6, <2>1
  <2>3. Len(c) = stored + n
    BY <2>1, <2>2, ConcatProperties
  <2> HIDE DEF c, n
  <2>4. /\ DOMAIN writeQueue' = DOMAIN writeQueue
        /\ \A e \in DOMAIN writeQueue \ {d} : writeQueue'[e] = writeQueue[e]
        /\ writeQueue'[d].content = c /\ writeQueue'[d].open = old.open
        /\ writeQueue'[d].failed = old.failed
    BY <1>1, <1>2, <1>3, <2>1 DEF Files, c
  <2>5. StatusOf(d)' = "open"
    BY <1>2, <1>6, <2>4 DEF StatusOf
  <2>6. m \in Infos /\ m.job = JobId(d) /\ m.num = n
    BY <1>2, <2>2 DEF Infos
  <2>7. Follows(Append(toUi, m), JobId(d), Listed(JobId(d)), Shown(JobId(d)), "open", stored + n)
    <3>1. Follows(toUi, JobId(d), Listed(JobId(d)), Shown(JobId(d)), "open", stored)
      BY <1>2, <1>6 DEF FileFollows
    <3> HIDE DEF m, stored
    <3> QED
      BY <1>2, <1>4, <2>2, <2>6, <3>1, FollowsWhenWritten
  <2>8. FileFollows(d)'
    BY <1>3, <1>5, <2>3, <2>4, <2>5, <2>7 DEF FileFollows
  <2> QED
    BY <1>1, <1>3, <2>2, <2>4, <2>8, InfoSent
<1>7. CASE StatusOf(d) = "failed"
  <2>1. n = 0 /\ writeQueue' = writeQueue
    BY <1>2, <1>3, <1>7
  <2>2. StatusOf(d)' = "failed"
    BY <1>7, <2>1 DEF StatusOf
  <2> HIDE DEF n
  <2>3. m \in Infos /\ m.job = JobId(d) /\ m.num = 0
    BY <1>2, <2>1 DEF Infos
  <2>4. Follows(Append(toUi, m), JobId(d), Listed(JobId(d)), Shown(JobId(d)), "failed", stored)
    <3>1. Follows(toUi, JobId(d), Listed(JobId(d)), Shown(JobId(d)), "failed", stored)
      BY <1>2, <1>7 DEF FileFollows
    <3> HIDE DEF m, stored
    <3> QED
      BY <1>4, <2>3, <3>1, FollowsWhenDropped
  <2>5. FileFollows(d)'
    BY <1>3, <1>5, <2>1, <2>2, <2>4 DEF FileFollows
  <2> QED
    BY <1>1, <1>3, <2>1, <2>5, InfoSent
<1> QED
  BY <1>2, <1>6, <1>7

LEMMA ClosingIsShown ==
    ASSUME IInv, UiInv, NumbersFit, NEW f \in sent, StepOf(f, "close"), NEW d, d = Entry(f),
           UNCHANGED items
    PROVE  UiInv'
<1> DEFINE old == writeQueue[d]
           stored == Len(old.content)
           m == [job |-> JobId(d), num |-> 0]
<1>1. /\ toStorage[f.app] # <<>> /\ Head(toStorage[f.app]).file = fileId[f]
      /\ d \in DOMAIN writeQueue /\ CloseFile(d)
  BY DEF StepOf
<1>2. /\ JobId(d) \in Nat /\ old \in Files /\ stored \in Nat
      /\ StatusOf(d) \in {"open", "failed"}
      /\ StatusOf(d) = "open" => old.open /\ ~old.failed
      /\ StatusOf(d) = "failed" => old.failed /\ ~old.open /\ old.content = <<>>
      /\ FileFollows(d)
  BY <1>1, FileBefore
<1>3. /\ writeQueue' = [writeQueue EXCEPT ![d].open = FALSE]
      /\ toUi' = Append(toUi, m)
  BY <1>1 DEF CloseFile
<1>4. toUi \in Seq(Infos) /\ Shown(JobId(d)) \in Nat
  BY UiFacts
<1>5. /\ Listed(JobId(d))' = Listed(JobId(d)) /\ Shown(JobId(d))' = Shown(JobId(d))
      /\ JobId(d)' = JobId(d)
  BY DEF Listed, Shown, JobId
<1>6. /\ DOMAIN writeQueue' = DOMAIN writeQueue
      /\ \A e \in DOMAIN writeQueue \ {d} : writeQueue'[e] = writeQueue[e]
      /\ writeQueue'[d].content = old.content /\ writeQueue'[d].open = FALSE
      /\ writeQueue'[d].failed = old.failed
  BY <1>1, <1>2, <1>3 DEF Files
<1>7. m \in Infos /\ m.job = JobId(d) /\ m.num = 0
  BY <1>2 DEF Infos
<1>8. StatusOf(d)' = IF StatusOf(d) = "open" THEN "closed" ELSE "failed"
  <2>1. StatusOf(d)' = IF old.failed THEN "failed" ELSE "closed"
    BY <1>6 DEF StatusOf
  <2> QED
    BY <1>2, <2>1
<1>9. Follows(Append(toUi, m), JobId(d), Listed(JobId(d)), Shown(JobId(d)), StatusOf(d)', stored)
  <2> HIDE DEF m, stored
  <2>1. CASE StatusOf(d) = "open"
    <3>1. Follows(toUi, JobId(d), Listed(JobId(d)), Shown(JobId(d)), "open", stored)
      BY <1>2, <2>1 DEF FileFollows, stored
    <3>2. Follows(Append(toUi, m), JobId(d), Listed(JobId(d)), Shown(JobId(d)), "closed", stored)
      BY <1>2, <1>4, <1>7, <3>1, FollowsWhenClosed
    <3> QED
      BY <1>8, <2>1, <3>2
  <2>2. CASE StatusOf(d) = "failed"
    <3>1. Follows(toUi, JobId(d), Listed(JobId(d)), Shown(JobId(d)), "failed", stored)
      BY <1>2, <2>2 DEF FileFollows, stored
    <3>2. Follows(Append(toUi, m), JobId(d), Listed(JobId(d)), Shown(JobId(d)), "failed", stored)
      BY <1>4, <1>7, <3>1, FollowsWhenDropped
    <3> QED
      BY <1>8, <2>2, <3>2
  <2> QED
    BY <1>2, <2>1, <2>2
<1>10. FileFollows(d)'
  BY <1>3, <1>5, <1>6, <1>9 DEF FileFollows
<1> QED
  BY <1>1, <1>3, <1>6, <1>10, InfoSent

LEMMA WriteFileIsShown ==
    ASSUME IInv, UiInv, NumbersFit, NEW a \in WebApps, WriteFile(a)
    PROVE  UiInv'
<1> DEFINE m == Head(toStorage[a])
<1>1. /\ toStorage[a] # <<>>
      /\ \/ Key(a, m.file) \notin DOMAIN writeQueue /\ OpenFile(Key(a, m.file), m.part)
         \/ /\ Key(a, m.file) \in DOMAIN writeQueue /\ m.part.what # "end"
            /\ WriteData(Key(a, m.file), m.part)
         \/ /\ Key(a, m.file) \in DOMAIN writeQueue /\ m.part.what = "end"
            /\ CloseFile(Key(a, m.file))
      /\ UNCHANGED items
  BY DEF WriteFile
<1>2. PICK f \in sent : f.app = a /\ fileId[f] = m.file
  <2>1. toStorage[a] \in Seq(Requests)
    BY DEF IInv, TypeOK, Requests
  <2>2. 1 \in DOMAIN toStorage[a] /\ m = toStorage[a][1]
    BY <1>1, <2>1, OneLess
  <2> QED
    BY <2>2 DEF IInv, RequestsAreOwn
<1>3. Key(a, m.file) = Entry(f)
  BY <1>2 DEF Key, Entry
<1>4. StepOf(f, "open") \/ StepOf(f, "write") \/ StepOf(f, "close")
  BY <1>1, <1>2, <1>3 DEF StepOf
<1>5. PICK d : d = Entry(f)
  OBVIOUS
<1> QED
  BY <1>1, <1>4, <1>5, OpeningIsShown, WritingIsShown, ClosingIsShown

-----------------------------------------------------------------------------
\* The UI reads what storage has told it.

LEMMA HandleDownloadInfoShows ==
    ASSUME IInv, UiInv, NumbersFit, HandleDownloadInfo
    PROVE  UiInv'
<1>1. PICK m : m = Head(toUi)
  OBVIOUS
<1>2. /\ toUi # <<>> /\ toUi' = Tail(toUi) /\ writeQueue' = writeQueue
      /\ items' = IF m.job \notin DOMAIN items
                  THEN Put(items, m.job, [received |-> 0, finished |-> FALSE])
                  ELSE IF m.num > 0
                       THEN [items EXCEPT ![m.job].received = @ + m.num]
                       ELSE [items EXCEPT ![m.job].finished = TRUE]
  BY <1>1 DEF HandleDownloadInfo, storage
<1>3. toUi \in Seq(Infos) /\ \A job : Shown(job) \in Nat
  BY UiFacts
<1>4. /\ \A j \in DOMAIN items : items[j] \in [received : Nat, finished : BOOLEAN]
      /\ m \in Infos /\ m.num \in Nat /\ m = toUi[1] /\ 1 \in DOMAIN toUi
      /\ \A i \in DOMAIN toUi' : i + 1 \in DOMAIN toUi /\ toUi'[i] = toUi[i + 1]
  <2>1. Shorter(toUi, m.job, toUi')
    BY <1>2, <1>3, OneInfoLess
  <2>2. m = toUi[1] /\ m \in Infos /\ 1 \in DOMAIN toUi
    BY <1>1, <2>1 DEF Shorter
  <2>3. \A j \in DOMAIN items : items[j] \in [received : Nat, finished : BOOLEAN]
    BY DEF IInv, TypeOK
  <2> QED
    BY <2>1, <2>2, <2>3 DEF Shorter, Infos
<1>5. DOMAIN items' = DOMAIN items \cup {m.job}
  BY <1>2 DEF Put
<1>6. JobsAreStored'
  <2>1. \A i \in DOMAIN toUi' : \E d \in DOMAIN writeQueue' : JobId(d) = toUi'[i].job
    BY <1>2, <1>4 DEF UiInv, JobsAreStored
  <2>2. \A j \in DOMAIN items' : \E d \in DOMAIN writeQueue' : JobId(d) = j
    BY <1>2, <1>4, <1>5 DEF UiInv, JobsAreStored
  <2> QED
    BY <2>1, <2>2 DEF JobsAreStored, JobId
<1>7. ASSUME NEW d \in DOMAIN writeQueue PROVE FileFollows(d)'
  <2>1. PICK job : job = JobId(d)
    OBVIOUS
  <2>2. PICK status : status = StatusOf(d)
    OBVIOUS
  <2>3. PICK total \in Nat : total = Len(writeQueue[d].content)
    BY UiFacts
  <2>4. Follows(toUi, job, Listed(job), Shown(job), status, total)
    BY <2>1, <2>2, <2>3 DEF UiInv
  <2>5. Follows(Tail(toUi), job, Listed(job)', Shown(job)', status, total)
    <3>1. CASE m.job # job
      <4>1. job \in DOMAIN items' <=> job \in DOMAIN items
        BY <1>5, <3>1
      <4>2. job \in DOMAIN items => items'[job] = items[job]
        BY <1>2, <3>1 DEF Put
      <4>3. Listed(job)' = Listed(job) /\ Shown(job)' = Shown(job)
        BY <4>1, <4>2 DEF Listed, Shown
      <4> QED
        BY <1>1, <1>2, <1>3, <2>4, <3>1, <4>3, FollowsBehindOthers
    <3>2. CASE m.job = job /\ job \notin DOMAIN items
      <4>1. Listed(job) = "unlisted"
        BY <3>2 DEF Listed
      <4>2. Listed(job)' = "running" /\ Shown(job)' = 0
        BY <1>2, <3>2 DEF Listed, Shown, Put
      <4>3. Follows(Tail(toUi), job, "running", 0, status, total)
        BY <1>1, <1>2, <1>3, <2>4, <3>2, <4>1, FollowsWhenListed
      <4> QED
        BY <4>2, <4>3
    <3>3. CASE m.job = job /\ job \in DOMAIN items /\ m.num > 0
      <4>1. Listed(job) \in {"running", "finished"} /\ Shown(job) = items[job].received
        BY <3>3 DEF Listed, Shown
      <4>2. /\ toUi # <<>> /\ Head(toUi).job = job /\ Head(toUi).num > 0
            /\ Shown(job) \in Nat
        BY <1>1, <1>2, <1>3, <3>3
      <4>3. /\ job \in DOMAIN items'
            /\ items'[job].received = items[job].received + m.num
            /\ items'[job].finished = items[job].finished
        BY <1>2, <1>4, <3>3
      <4>4. Listed(job)' = Listed(job) /\ Shown(job)' = Shown(job) + Head(toUi).num
        BY <1>1, <3>3, <4>1, <4>3 DEF Listed, Shown
      <4>5. PICK now : now = Shown(job) + Head(toUi).num
        OBVIOUS
      <4>6. Follows(Tail(toUi), job, Listed(job), now, status, total)
        BY <1>3, <2>4, <4>1, <4>2, <4>5, FollowsWhenShown
      <4> QED
        BY <4>4, <4>5, <4>6
    <3>4. CASE m.job = job /\ job \in DOMAIN items /\ ~(m.num > 0)
      <4>1. Listed(job) \in {"running", "finished"} /\ Shown(job) = items[job].received
        BY <3>4 DEF Listed, Shown
      <4>2. m.num = 0
        BY <1>4, <3>4
      <4>3. Follows(Tail(toUi), job, "finished", Shown(job), status, total)
        BY <1>1, <1>2, <1>3, <2>4, <3>4, <4>1, <4>2, FollowsWhenFinished
      <4>4. /\ job \in DOMAIN items'
            /\ items'[job].received = items[job].received
            /\ items'[job].finished = TRUE
        BY <1>2, <1>4, <3>4
      <4>5. Listed(job)' = "finished" /\ Shown(job)' = Shown(job)
        BY <3>4, <4>1, <4>4 DEF Listed, Shown
      <4> QED
        BY <4>3, <4>5
    <3> QED
      BY <3>1, <3>2, <3>3, <3>4
  <2>6. JobId(d)' = job /\ StatusOf(d)' = status
    BY <1>2, <2>1, <2>2 DEF JobId, StatusOf
  <2> QED
    BY <1>2, <2>3, <2>5, <2>6 DEF FileFollows
<1> QED
  BY <1>2, <1>6, <1>7 DEF UiInv, FileFollows

\* Web apps and the network change nothing that storage or the UI knows.
LEMMA NothingShown ==
    ASSUME UiInv, UNCHANGED <<writeQueue, toUi, items>>
    PROVE  UiInv'
<1>1. JobsAreStored'
  BY DEF UiInv, JobsAreStored, JobId
<1>2. ASSUME NEW d \in DOMAIN writeQueue PROVE FileFollows(d)'
  <2>1. FileFollows(d)
    BY DEF UiInv, FileFollows
  <2>2. /\ Listed(JobId(d))' = Listed(JobId(d)) /\ Shown(JobId(d))' = Shown(JobId(d))
        /\ StatusOf(d)' = StatusOf(d) /\ JobId(d)' = JobId(d)
    BY DEF Listed, Shown, StatusOf, JobId
  <2> QED
    BY <2>1, <2>2 DEF FileFollows
<1> QED
  BY <1>1, <1>2 DEF UiInv, FileFollows

\* What the UI calls finished is stored, its file closed and complete or never
\* opened, and the progress it shows is what was written, however messages about
\* different downloads mix, as long as no web app numbers more downloads than the
\* JobBase (1024) job ids that storage leaves it (Storage::writeFile,
\* DownloadManager::handleDownloadInfo).
THEOREM FinishedMeansStored == Spec /\ []NumbersFit => []FinishedIsStored
<1>1. Init => UiInv
  BY DEF Init, UiInv, JobsAreStored
<1>2. IInv /\ NumbersFit /\ UiInv /\ [Next]_vars => UiInv'
  <2> SUFFICES ASSUME IInv, NumbersFit, UiInv, [Next]_vars PROVE UiInv'
    OBVIOUS
  <2>1. CASE UNCHANGED vars
    BY <2>1, NothingShown DEF vars, storage
  <2>2. CASE HandleDownloadInfo
    BY <2>2, HandleDownloadInfoShows
  <2>3. ASSUME NEW f \in Fetches,
               \/ HandleMessage(f) \/ CreateRequest(f) \/ DownloadRequested(f)
               \/ HandleUnsupportedContent(f) \/ Abort(f)
        PROVE  UiInv'
    BY <2>3, NothingShown
       DEF HandleMessage, CreateRequest, DownloadRequested, HandleUnsupportedContent, Abort,
           storage
  <2>4. ASSUME NEW a \in WebApps, AppDies(a) PROVE UiInv'
    BY <2>4, NothingShown DEF AppDies, storage
  <2>5. ASSUME NEW a \in WebApps, WriteFile(a) PROVE UiInv'
    BY <2>5, WriteFileIsShown
  <2> QED
    BY <2>1, <2>2, <2>3, <2>4, <2>5 DEF Next
<1>3. IInv /\ UiInv => FinishedIsStored
  <2> SUFFICES ASSUME IInv, UiInv, NEW d \in DOMAIN writeQueue,
                      JobId(d) \in DOMAIN items, items[JobId(d)].finished
               PROVE  /\ ~writeQueue[d].open
                      /\ items[JobId(d)].received = Len(writeQueue[d].content)
    BY DEF FinishedIsStored
  <2>1. Listed(JobId(d)) = "finished" /\ Shown(JobId(d)) = items[JobId(d)].received
    BY DEF Listed, Shown
  <2>2. Follows(toUi, JobId(d), "finished", Shown(JobId(d)), StatusOf(d),
                Len(writeQueue[d].content))
    BY <2>1 DEF UiInv
  <2>3. /\ toUi \in Seq(Infos) /\ Len(writeQueue[d].content) \in Nat
        /\ writeQueue[d].failed => ~writeQueue[d].open /\ writeQueue[d].content = <<>>
    BY UiFacts
  <2>4. /\ StatusOf(d) \in {"failed", "closed"}
        /\ StatusOf(d) = "failed" => Shown(JobId(d)) = 0
        /\ StatusOf(d) = "closed" => Shown(JobId(d)) = Len(writeQueue[d].content)
    BY <2>2, <2>3, FollowedToTheEnd
  <2>5. CASE writeQueue[d].failed
    BY <2>1, <2>3, <2>4, <2>5 DEF StatusOf
  <2>6. CASE ~writeQueue[d].failed
    BY <2>1, <2>4, <2>6 DEF StatusOf
  <2> QED
    BY <2>5, <2>6
<1> QED
  BY <1>1, <1>2, <1>3, Invariance, PTL DEF Spec

-----------------------------------------------------------------------------
\* Downloads end: what storage tells the UI lists a file and shows its end.

LEMMA LastIsInfo ==
    ASSUME NEW q \in Seq(Infos), NEW m, Append(q, m) \in Seq(Infos)
    PROVE  m \in Infos
<1> DEFINE t == Append(q, m)
<1>1. Len(t) = Len(q) + 1 /\ Len(q) \in Nat /\ t[Len(q) + 1] = m
  OBVIOUS
<1>2. t \in Seq(Infos)
  OBVIOUS
<1> HIDE DEF t
<1>3. Len(q) + 1 \in 1..Len(t)
  BY <1>1
<1>4. t[Len(q) + 1] \in Infos
  BY <1>2, <1>3, ElementOfSeq
<1> QED
  BY <1>1, <1>4

\* What storage says of the file of f when it handles a message about it: the end
\* of a known file is a 0.
Tells(f, m) ==
    /\ m \in Infos /\ m.job = JobId(Entry(f))
    /\ toUi' = Append(toUi, m)
    /\ DOMAIN writeQueue' = DOMAIN writeQueue \cup {Entry(f)}
    /\ Head(toStorage[f.app]).part.what = "end" /\ Entry(f) \in DOMAIN writeQueue => m.num = 0

LEMMA StorageTells ==
    ASSUME IInv, NEW a \in WebApps, WriteFile(a)
    PROVE  /\ toStorage[a] # <<>> /\ toStorage[a] \in Seq(Requests)
           /\ \E f \in sent : /\ f.app = a /\ fileId[f] = Head(toStorage[a]).file
                              /\ \E m \in Infos : Tells(f, m)
<1> DEFINE h == Head(toStorage[a])
<1>1. /\ toStorage[a] # <<>>
      /\ \/ Key(a, h.file) \notin DOMAIN writeQueue /\ OpenFile(Key(a, h.file), h.part)
         \/ /\ Key(a, h.file) \in DOMAIN writeQueue /\ h.part.what # "end"
            /\ WriteData(Key(a, h.file), h.part)
         \/ /\ Key(a, h.file) \in DOMAIN writeQueue /\ h.part.what = "end"
            /\ CloseFile(Key(a, h.file))
      /\ UNCHANGED fileId
  BY DEF WriteFile, downloader
<1>2. toStorage[a] \in Seq(Requests)
  BY DEF IInv, TypeOK, Requests
<1>3. PICK f \in sent : f.app = a /\ fileId[f] = h.file
  <2>1. 1 \in DOMAIN toStorage[a] /\ h = toStorage[a][1]
    BY <1>1, <1>2, OneLess
  <2> QED
    BY <2>1 DEF IInv, RequestsAreOwn
<1>4. Key(a, h.file) = Entry(f)
  BY <1>3 DEF Key, Entry
<1>5. StepOf(f, "open") \/ StepOf(f, "write") \/ StepOf(f, "close")
  BY <1>1, <1>3, <1>4 DEF StepOf
<1>6. StepDone(f)
  BY <1>1, <1>5, OpenFileDone, WriteDataDone, CloseFileDone
<1>7. toUi \in Seq(Infos) /\ toUi' \in Seq(Infos)
        /\ DOMAIN writeQueue' = DOMAIN writeQueue \cup {Entry(f)}
  BY <1>6, UiFacts DEF StepDone, Infos
<1>8. PICK n : /\ toUi' = Append(toUi, [job |-> JobId(Entry(f)), num |-> n])
               /\ h.part.what = "end" /\ Entry(f) \in DOMAIN writeQueue => n = 0
  <2>1. CASE Entry(f) \notin DOMAIN writeQueue /\ OpenFile(Entry(f), h.part)
    <3>1. toUi' = Append(toUi, [job |-> JobId(Entry(f)), num |-> 0])
      BY <2>1 DEF OpenFile
    <3> QED
      BY <2>1, <3>1
  <2>2. CASE h.part.what # "end" /\ WriteData(Entry(f), h.part)
    <3>1. \E n : toUi' = Append(toUi, [job |-> JobId(Entry(f)), num |-> n])
      BY <2>2 DEF WriteData
    <3> QED
      BY <2>2, <3>1
  <2>3. CASE CloseFile(Entry(f))
    <3>1. toUi' = Append(toUi, [job |-> JobId(Entry(f)), num |-> 0])
      BY <2>3 DEF CloseFile
    <3> QED
      BY <3>1
  <2> QED
    BY <1>1, <1>4, <2>1, <2>2, <2>3
<1>9. PICK m : m = [job |-> JobId(Entry(f)), num |-> n]
  OBVIOUS
<1>10. m \in Infos
  BY <1>7, <1>8, <1>9, LastIsInfo
<1>11. Tells(f, m)
  BY <1>3, <1>7, <1>8, <1>9, <1>10 DEF Tells
<1> QED
  BY <1>1, <1>2, <1>3, <1>10, <1>11

\* Every file that storage knows is in the list, or a message about it is unread.
LEMMA FilesGetListed ==
    ASSUME IInv, KnownAreListed,
           \/ HandleDownloadInfo
           \/ \E a \in WebApps : WriteFile(a)
           \/ UNCHANGED <<writeQueue, toUi, items>>
    PROVE  KnownAreListed'
<1>1. toUi \in Seq(Infos)
  BY UiFacts
<1>2. CASE UNCHANGED <<writeQueue, toUi, items>>
  BY <1>2 DEF KnownAreListed, JobId
<1>3. ASSUME NEW a \in WebApps, WriteFile(a) PROVE KnownAreListed'
  <2>1. PICK f \in sent : \E m \in Infos : Tells(f, m)
    BY <1>3, StorageTells
  <2>2. PICK m \in Infos : Tells(f, m)
    BY <2>1
  <2>3. items' = items
    BY <1>3 DEF WriteFile
  <2>4. SUFFICES ASSUME NEW d \in DOMAIN writeQueue'
                 PROVE  JobId(d) \in DOMAIN items \/ OfJob(toUi', JobId(d)) # {}
    BY <2>3 DEF KnownAreListed, JobId
  <2>5. PICK job : job = JobId(d)
    OBVIOUS
  <2>6. Longer(toUi, m, job, toUi')
    BY <1>1, <2>2, OneInfoMore DEF Tells
  <2>7. CASE d = Entry(f)
    <3>1. m.job = job
      BY <2>2, <2>5, <2>7 DEF Tells
    <3>2. Len(toUi) + 1 \in OfJob(toUi', job)
      BY <2>6, <3>1 DEF Longer
    <3> QED
      BY <2>5, <3>2
  <2>8. CASE d # Entry(f)
    <3>1. job \in DOMAIN items \/ OfJob(toUi, job) # {}
      BY <2>2, <2>5, <2>8 DEF Tells, KnownAreListed
    <3>2. OfJob(toUi, job) \subseteq OfJob(toUi', job)
      BY <2>6 DEF Longer
    <3> QED
      BY <2>5, <3>1, <3>2
  <2> QED
    BY <2>7, <2>8
<1>4. CASE HandleDownloadInfo
  <2>1. PICK h : h = Head(toUi)
    OBVIOUS
  <2>2. /\ toUi # <<>> /\ toUi' = Tail(toUi) /\ writeQueue' = writeQueue
        /\ DOMAIN items' = DOMAIN items \cup {h.job}
    BY <1>4, <2>1 DEF HandleDownloadInfo, storage, Put
  <2>3. SUFFICES ASSUME NEW d \in DOMAIN writeQueue
                 PROVE  JobId(d) \in DOMAIN items' \/ OfJob(toUi', JobId(d)) # {}
    BY <2>2 DEF KnownAreListed, JobId
  <2>4. PICK job : job = JobId(d)
    OBVIOUS
  <2>5. Shorter(toUi, job, toUi')
    BY <1>1, <2>2, OneInfoLess
  <2>6. job \in DOMAIN items \/ OfJob(toUi, job) # {}
    BY <2>4 DEF KnownAreListed
  <2>7. CASE h.job = job
    BY <2>2, <2>4, <2>7
  <2>8. CASE h.job # job /\ OfJob(toUi, job) # {}
    <3>1. PICK i \in OfJob(toUi, job) : i # 1
      BY <2>1, <2>5, <2>8 DEF Shorter
    <3>2. i - 1 \in OfJob(toUi', job)
      BY <2>5, <3>1 DEF Shorter
    <3> QED
      BY <2>4, <3>2
  <2> QED
    BY <2>2, <2>4, <2>6, <2>7, <2>8
<1> QED
  BY <1>2, <1>3, <1>4

\* What the UI will have read, it has read when storage has told it more.
LEMMA WillFinishStill ==
    ASSUME NEW q \in Seq(Infos), NEW m \in Infos, NEW job, NEW list, WillFinish(q, job, list)
    PROVE  WillFinish(Append(q, m), job, list)
<1>1. PICK t : t = Append(q, m)
  OBVIOUS
<1>2. Longer(q, m, job, t)
  BY <1>1, OneInfoMore
<1>3. \A i \in OfJob(q, job) : i \in OfJob(t, job) /\ t[i] = q[i]
  BY <1>2 DEF Longer
<1> QED
  BY <1>1, <1>3 DEF WillFinish

\* A 0 about a job that the UI knows, or hears of before, is the end.
LEMMA WillFinishByThis ==
    ASSUME NEW q \in Seq(Infos), NEW m \in Infos, NEW job, NEW list,
           m.job = job, m.num = 0,
           list \in {"running", "finished"} \/ OfJob(q, job) # {}
    PROVE  WillFinish(Append(q, m), job, list)
<1>1. PICK t : t = Append(q, m)
  OBVIOUS
<1>2. Longer(q, m, job, t)
  BY <1>1, OneInfoMore
<1>3. Len(q) + 1 \in OfJob(t, job) /\ t[Len(q) + 1].num = 0 /\ Len(q) \in Nat
  BY <1>2 DEF Longer
<1>4. CASE list \in {"running", "finished"}
  BY <1>1, <1>3, <1>4 DEF WillFinish
<1>5. CASE OfJob(q, job) # {}
  <2>1. PICK k : k \in OfJob(q, job)
    BY <1>5
  <2>2. k \in OfJob(t, job) /\ k < Len(q) + 1
    BY <1>2, <2>1 DEF Longer
  <2> QED
    BY <1>1, <1>3, <2>2 DEF WillFinish
<1> QED
  BY <1>4, <1>5

\* How the list changes when the UI reads message h
NowListed(h, job, list) ==
    IF h.job # job THEN list
    ELSE IF list = "unlisted" THEN "running"
    ELSE IF list = "running" /\ h.num > 0 THEN "running" ELSE "finished"

LEMMA WillFinishWhenRead ==
    ASSUME NEW q \in Seq(Infos), q # <<>>, NEW job, NEW list \in {"unlisted", "running", "finished"},
           WillFinish(q, job, list)
    PROVE  WillFinish(Tail(q), job, NowListed(Head(q), job, list))
<1>1. PICK t : t = Tail(q)
  OBVIOUS
<1>2. PICK h : h = Head(q)
  OBVIOUS
<1>3. PICK now : now = NowListed(h, job, list)
  OBVIOUS
<1>4. Shorter(q, job, t)
  BY <1>1, OneInfoLess
<1>5. \A i \in OfJob(q, job) : i # 1 => i - 1 \in OfJob(t, job) /\ t[i - 1] = q[i]
  BY <1>4 DEF Shorter
<1>6. 1 \in OfJob(q, job) => h.job = job /\ q[1] = h
  BY <1>2, <1>4 DEF Shorter
<1>7. CASE list = "finished"
  BY <1>1, <1>2, <1>7 DEF WillFinish, NowListed
<1>8. ASSUME list = "running", NEW i \in OfJob(q, job), q[i].num = 0
      PROVE  WillFinish(t, job, now)
  <2>1. CASE i = 1
    BY <1>3, <1>6, <1>8, <2>1 DEF WillFinish, NowListed
  <2>2. CASE i # 1
    BY <1>3, <1>5, <1>8, <2>2 DEF WillFinish, NowListed
  <2> QED
    BY <2>1, <2>2
<1>9. ASSUME NEW i \in OfJob(q, job), NEW k \in OfJob(q, job), k < i, q[i].num = 0
      PROVE  WillFinish(t, job, now)
  <2>1. i \in Nat \ {0} /\ k \in Nat \ {0} /\ i # 1
    BY <1>9, InfoFacts
  <2>2. i - 1 \in OfJob(t, job) /\ t[i - 1].num = 0
    BY <1>5, <1>9, <2>1
  <2>3. CASE k = 1
    BY <1>3, <1>6, <2>2, <2>3 DEF WillFinish, NowListed
  <2>4. CASE k # 1
    <3>1. k - 1 \in OfJob(t, job) /\ k - 1 < i - 1
      BY <1>5, <1>9, <2>1, <2>4
    <3> QED
      BY <2>2, <3>1 DEF WillFinish
  <2> QED
    BY <2>3, <2>4
<1> QED
  BY <1>1, <1>2, <1>3, <1>7, <1>8, <1>9 DEF WillFinish

\* The end of a file stays on its way when more is sent.
LEMMA EndOnTheWay ==
    ASSUME NEW q \in Seq(Requests), NEW u \in Seq(Requests), NEW file,
           Of(q, file, "end") # {}
    PROVE  Of(q \o u, file, "end") # {}
<1>1. PICK t : t = q \o u
  OBVIOUS
<1>2. \A i \in DOMAIN q : i \in DOMAIN t /\ t[i] = q[i]
  BY <1>1, SomeMore
<1>3. PICK i : i \in Of(q, file, "end")
  OBVIOUS
<1>4. i \in Of(t, file, "end")
  BY <1>2, <1>3 DEF Of, About
<1> QED
  BY <1>1, <1>4

LEMMA EndIsSent ==
    ASSUME NEW q \in Seq(Requests), NEW file \in Nat
    PROVE  /\ End(file, TRUE, FALSE) \in Seq(Requests)
           /\ Of(q \o End(file, TRUE, FALSE), file, "end") # {}
<1>1. PICK m : m = Request(file, [what |-> "end"])
  OBVIOUS
<1>2. m.file = file /\ m.part.what = "end" /\ m \in Requests
  BY <1>1 DEF Request, Requests, Parts
<1>3. End(file, TRUE, FALSE) = <<m>>
  BY <1>1 DEF End
<1>4. <<m>> \in Seq(Requests) /\ q \o <<m>> = Append(q, m)
  BY <1>2, OneMessage
<1>5. PICK t : t = Append(q, m)
  OBVIOUS
<1>6. DOMAIN t = 1..(Len(q) + 1) /\ t[Len(q) + 1] = m /\ Len(q) \in Nat
  BY <1>2, <1>5, OneMore
<1>7. Len(q) + 1 \in Of(t, file, "end")
  BY <1>2, <1>6 DEF Of, About
<1> QED
  BY <1>3, <1>4, <1>5, <1>7

\* What g has sent to its end, or sends now
EndKept(g) ==
    \/ Of(toStorage'[g.app], fileId'[g], "end") # {}
    \/ /\ g \in sent \cap finished /\ fileId'[g] = fileId[g] /\ g.app \in alive
       /\ Of(toStorage[g.app], fileId[g], "end") # {} =>
             Of(toStorage'[g.app], fileId[g], "end") # {}

LEMMA EndsStayOnTheWay ==
    ASSUME EndsArrive, UNCHANGED <<toUi, items>>,
           \A g \in sent' \cap finished' : g.app \in alive' => EndKept(g)
    PROVE  EndsArrive'
<1> SUFFICES ASSUME NEW g \in sent' \cap finished', g.app \in alive',
                    Of(toStorage'[g.app], fileId'[g], "end") = {}
             PROVE  WillFinish(toUi, JobId(Entry(g)'), Listed(JobId(Entry(g)))')
  BY DEF EndsArrive, JobId
<1>1. /\ g \in sent \cap finished /\ fileId'[g] = fileId[g] /\ g.app \in alive
      /\ Of(toStorage[g.app], fileId[g], "end") = {}
  BY DEF EndKept
<1>2. Entry(g)' = Entry(g)
  BY <1>1 DEF Entry
<1>3. WillFinish(toUi, JobId(Entry(g)), Listed(JobId(Entry(g))))
  BY <1>1 DEF EndsArrive
<1>4. Listed(JobId(Entry(g)))' = Listed(JobId(Entry(g)))
  BY <1>2 DEF Listed, JobId
<1> QED
  BY <1>2, <1>3, <1>4 DEF JobId

\* The messages in the pipe of a web app are still there.
LEMMA PipeGrows ==
    ASSUME IInv, NEW a \in WebApps, NEW u, u \in Seq(Requests),
           toStorage' = [toStorage EXCEPT ![a] = @ \o u],
           NEW g \in sent \cap finished, fileId'[g] = fileId[g], g.app \in alive
    PROVE  EndKept(g)
<1>1. toStorage \in [WebApps -> Seq(Requests)] /\ g \in Fetches /\ g.app \in WebApps
  BY FetchFacts DEF IInv, TypeOK, Requests
<1>2. PICK q : q = toStorage[g.app]
  OBVIOUS
<1>3. q \in Seq(Requests)
  BY <1>1, <1>2
<1>4. CASE g.app = a
  <2>1. toStorage'[g.app] = q \o u
    BY <1>1, <1>2, <1>4
  <2>2. Of(q, fileId[g], "end") # {} => Of(q \o u, fileId[g], "end") # {}
    BY <1>3, EndOnTheWay
  <2> QED
    BY <1>2, <2>1, <2>2 DEF EndKept
<1>5. CASE g.app # a
  BY <1>1, <1>5 DEF EndKept
<1> QED
  BY <1>4, <1>5

\* Storage passes an end on to the UI when it reads it.
LEMMA WriteFileEnds ==
    ASSUME IInv, KnownAreListed, EndsArrive, NEW a \in WebApps, WriteFile(a)
    PROVE  EndsArrive'
<1>1. PICK f \in sent : /\ f.app = a /\ fileId[f] = Head(toStorage[a]).file
                        /\ \E m \in Infos : Tells(f, m)
  BY StorageTells
<1>2. PICK m \in Infos : Tells(f, m)
  BY <1>1
<1>3. /\ toStorage[a] # <<>> /\ toStorage' = [toStorage EXCEPT ![a] = Tail(@)]
      /\ UNCHANGED <<alive, fileId, sent, finished, items>>
  BY DEF WriteFile, downloader
<1>4. /\ toStorage \in [WebApps -> Seq(Requests)] /\ toStorage[a] \in Seq(Requests)
      /\ toUi \in Seq(Infos) /\ toUi' = Append(toUi, m)
  BY <1>2, UiFacts DEF IInv, TypeOK, Requests, Tells
<1>5. SUFFICES ASSUME NEW g \in sent \cap finished, g.app \in alive
               PROVE  \/ Of(toStorage'[g.app], fileId[g], "end") # {}
                      \/ WillFinish(toUi', JobId(Entry(g)), Listed(JobId(Entry(g))))
  <2>1. \A g \in sent : JobId(Entry(g))' = JobId(Entry(g))
                        /\ Listed(JobId(Entry(g)))' = Listed(JobId(Entry(g)))
    BY <1>3 DEF JobId, Entry, Listed
  <2> QED
    BY <1>3, <2>1 DEF EndsArrive
<1>6. PICK job : job = JobId(Entry(g))
  OBVIOUS
<1>7. PICK list : list = Listed(job)
  OBVIOUS
<1>8. CASE WillFinish(toUi, job, list)
  BY <1>4, <1>6, <1>7, <1>8, WillFinishStill
<1>9. CASE Of(toStorage[g.app], fileId[g], "end") # {} /\ g.app # a
  <2>1. g.app \in WebApps
    BY FetchFacts DEF IInv, TypeOK
  <2> QED
    BY <1>3, <1>4, <1>9, <2>1
<1>10. CASE Of(toStorage[a], fileId[g], "end") # {} /\ g.app = a
  <2>1. PICK q : q = toStorage[a]
    OBVIOUS
  <2>2. PICK i \in Of(q, fileId[g], "end") : TRUE
    BY <1>10, <2>1
  <2>3. PICK t : t = Tail(q)
    OBVIOUS
  <2>4. /\ Len(q) \in Nat \ {0} /\ DOMAIN q = 1..Len(q) /\ DOMAIN t = 1..(Len(q) - 1)
        /\ Head(q) = q[1] /\ \A j \in DOMAIN t : t[j] = q[j + 1]
    BY <1>3, <1>4, <2>1, <2>3, OneLess
  <2>5. i \in 1..Len(q) /\ q[i].file = fileId[g] /\ q[i].part.what = "end"
    BY <2>2, <2>4 DEF Of, About
  <2>6. CASE i # 1
    <3>1. i - 1 \in DOMAIN t /\ (i - 1) + 1 = i
      BY <2>4, <2>5, <2>6
    <3>2. i - 1 \in DOMAIN t /\ t[i - 1] = q[i]
      BY <2>4, <3>1
    <3>3. i - 1 \in Of(t, fileId[g], "end")
      BY <2>5, <3>2 DEF Of, About
    <3>4. toStorage'[g.app] = t
      BY <1>3, <1>4, <1>10, <2>1, <2>3
    <3> QED
      BY <3>3, <3>4
  <2>7. CASE i = 1
    <3>1. f = g
      <4>1. f \in Fetches /\ g \in Fetches /\ fileId[f] # NoFile
        BY SentFacts DEF IInv
      <4> QED
        BY <1>1, <1>10, <2>1, <2>4, <2>5, <2>7, <4>1 DEF IInv, FileIdsDiffer
    <3>2. Status(f) # "none"
      <4>1. StartFirstEndLast(q, fileId[f], Status(f) # "none")
        BY <1>1, <2>1 DEF IInv, DownloadsGoOn, GoesOn
      <4>2. 1 \in About(q, fileId[f]) /\ q[1].part.what # "start"
        BY <2>4, <2>5, <2>7, <3>1 DEF About
      <4>3. \A j \in Of(q, fileId[f], "start") : j \in Nat /\ ~(j < 1)
        BY <2>4 DEF Of, About
      <4> QED
        BY <4>1, <4>2, <4>3 DEF StartFirstEndLast
    <3>3. Entry(f) \in DOMAIN writeQueue
      BY <3>2 DEF Status
    <3>4. m.num = 0 /\ m.job = job
      BY <1>1, <1>2, <1>6, <2>1, <2>4, <2>5, <2>7, <3>1, <3>3 DEF Tells
    <3>5. list \in {"running", "finished"} \/ OfJob(toUi, job) # {}
      <4>1. job \in DOMAIN items \/ OfJob(toUi, job) # {}
        BY <1>6, <3>1, <3>3 DEF KnownAreListed
      <4> QED
        BY <1>7, <4>1 DEF Listed
    <3>6. WillFinish(Append(toUi, m), job, list)
      BY <1>4, <3>4, <3>5, WillFinishByThis
    <3> QED
      BY <1>4, <1>6, <1>7, <3>6
  <2> QED
    BY <2>6, <2>7
<1> QED
  BY <1>5, <1>6, <1>7, <1>8, <1>9, <1>10 DEF EndsArrive

\* The UI reads the next message.
LEMMA HandleDownloadInfoEnds ==
    ASSUME IInv, EndsArrive, HandleDownloadInfo
    PROVE  EndsArrive'
<1>1. PICK h : h = Head(toUi)
  OBVIOUS
<1>2. /\ toUi # <<>> /\ toUi' = Tail(toUi) /\ toUi \in Seq(Infos)
      /\ items' = IF h.job \notin DOMAIN items
                  THEN Put(items, h.job, [received |-> 0, finished |-> FALSE])
                  ELSE IF h.num > 0
                       THEN [items EXCEPT ![h.job].received = @ + h.num]
                       ELSE [items EXCEPT ![h.job].finished = TRUE]
      /\ UNCHANGED <<alive, fileId, sent, finished, toStorage>>
  BY <1>1, UiFacts DEF HandleDownloadInfo, downloader
<1>3. \A j \in DOMAIN items : items[j] \in [received : Nat, finished : BOOLEAN]
  BY DEF IInv, TypeOK
<1>4. ASSUME NEW job PROVE Listed(job)' = NowListed(h, job, Listed(job))
  <2>1. CASE h.job # job
    <3>1. /\ job \in DOMAIN items' <=> job \in DOMAIN items
          /\ job \in DOMAIN items => items'[job] = items[job]
      BY <1>2, <2>1 DEF Put
    <3> QED
      BY <2>1, <3>1 DEF Listed, NowListed
  <2>2. CASE h.job = job /\ job \notin DOMAIN items
    <3>1. job \in DOMAIN items' /\ items'[job] = [received |-> 0, finished |-> FALSE]
      BY <1>2, <2>2 DEF Put
    <3> QED
      BY <2>2, <3>1 DEF Listed, NowListed
  <2>3. CASE h.job = job /\ job \in DOMAIN items /\ h.num > 0
    <3>1. job \in DOMAIN items' /\ items'[job].finished = items[job].finished
      BY <1>2, <1>3, <2>3
    <3> QED
      BY <2>3, <3>1 DEF Listed, NowListed
  <2>4. CASE h.job = job /\ job \in DOMAIN items /\ ~(h.num > 0)
    <3>1. job \in DOMAIN items' /\ items'[job].finished = TRUE
      BY <1>2, <1>3, <2>4
    <3> QED
      BY <2>4, <3>1 DEF Listed, NowListed
  <2> QED
    BY <2>1, <2>2, <2>3, <2>4
<1>5. SUFFICES ASSUME NEW g \in sent \cap finished, g.app \in alive,
                      WillFinish(toUi, JobId(Entry(g)), Listed(JobId(Entry(g))))
               PROVE  WillFinish(toUi', JobId(Entry(g)), Listed(JobId(Entry(g)))')
  <2>1. \A g \in sent : JobId(Entry(g))' = JobId(Entry(g))
    BY <1>2 DEF JobId, Entry
  <2> QED
    BY <1>2, <2>1 DEF EndsArrive
<1>6. PICK job : job = JobId(Entry(g))
  OBVIOUS
<1>7. PICK list : list = Listed(job)
  OBVIOUS
<1>8. list \in {"unlisted", "running", "finished"}
  BY <1>7 DEF Listed
<1>9. WillFinish(Tail(toUi), job, NowListed(Head(toUi), job, list))
  BY <1>2, <1>5, <1>6, <1>7, <1>8, WillFinishWhenRead
<1>10. Listed(JobId(Entry(g)))' = NowListed(h, job, list)
  <2>1. JobId(Entry(g))' = JobId(Entry(g))
    BY <1>2 DEF JobId, Entry
  <2>2. Listed(job)' = NowListed(h, job, Listed(job))
    BY <1>4
  <2> QED
    BY <1>6, <1>7, <2>1, <2>2 DEF Listed
<1> QED
  BY <1>1, <1>2, <1>6, <1>9, <1>10

\* A downloader of a reply that has finished sends the end at once.
LEMMA AttachEnds ==
    ASSUME IInv, EndsArrive, UnsentSawNothing, NEW f \in Fetches, Attach(f),
           UNCHANGED <<alive, written, toUi, items>>
    PROVE  EndsArrive' /\ UnsentSawNothing'
<1>1. /\ fileId[f] = NoFile
      /\ fileId' = [fileId EXCEPT ![f] = nextId[f.app]]
      /\ nextId' = [nextId EXCEPT ![f.app] = @ + 1]
      /\ attachedAt' = [attachedAt EXCEPT ![f] = written[f]]
  BY DEF Attach
<1>2. /\ f \notin sent /\ nextId[f.app] \in Nat /\ fileId'[f] = nextId[f.app]
      /\ \A g \in Fetches \ {f} : fileId'[g] = fileId[g]
      /\ About(toStorage[f.app], nextId[f.app]) = {}
  BY <1>1, NewDownload
<1>3. /\ toStorage \in [WebApps -> Seq(Requests)] /\ toStorage[f.app] \in Seq(Requests)
      /\ f.app \in WebApps /\ written[f] \in Nat
      /\ attachedAt \in [Fetches -> 0..MaxChunks] /\ sent \in SUBSET Fetches
  BY FetchFacts DEF IInv, TypeOK, Requests
<1>4. sent \subseteq sent'
  BY DEF Attach
<1>5. UnsentSawNothing'
  <2> SUFFICES ASSUME NEW g \in Fetches, fileId'[g] # NoFile, g \notin sent'
               PROVE  written[g] = attachedAt'[g]
    BY DEF UnsentSawNothing
  <2> QED
    BY <1>1, <1>2, <1>3, <1>4 DEF UnsentSawNothing
<1>6. CASE state[f] # "Finished"
  <2>1. UNCHANGED <<toStorage, sent, finished>>
    BY <1>6 DEF Attach
  <2>2. \A g \in sent' \cap finished' : g.app \in alive' => EndKept(g)
    BY <1>2, <1>3, <2>1 DEF EndKept
  <2> QED
    BY <1>5, <2>2, EndsStayOnTheWay
<1>7. CASE state[f] = "Finished"
  <2> DEFINE q == toStorage[f.app]
             file == nextId[f.app]
             w == written[f]
             e == End(file, TRUE, FALSE)
  <2>1. PICK s \in Starts(file, FALSE), d \in DownloadReadyRead(file, TRUE, 1, w) :
           toStorage' = [toStorage EXCEPT ![f.app] = @ \o s \o d \o e]
    BY <1>7 DEF Attach
  <2>2. sent' = sent \cup {f} /\ finished' = finished \cup {f}
    BY <1>7 DEF Attach
  <2>3. q \in Seq(Requests) /\ file \in Nat /\ w \in Nat /\ About(q, file) = {}
    BY <1>2, <1>3
  <2>4. PICK u \in Seq(Requests) : q \o s \o d \o e = q \o u /\ Of(q \o u, file, "end") # {}
    <3> DEFINE sd == s \o d
               u == sd \o e
    <3>1. /\ s \in Starts(file, FALSE) /\ d \in DownloadReadyRead(file, TRUE, 1, w)
      OBVIOUS
    <3> HIDE DEF q, file, w
    <3>2. u \in Seq(Requests) /\ q \o s \o d \o e = q \o u
      BY <2>3, <3>1, AllSent
    <3>3. sd \in Seq(Requests) /\ AllAbout(sd, file)
      <4>1. s \in Seq(Requests) /\ AllAbout(s, file)
        BY <2>3, <3>1, StartSent
      <4>2. d \in Seq(Requests) /\ AllAbout(d, file)
        <5>1. CASE w = 0
          BY <3>1, <5>1 DEF DownloadReadyRead, AllAbout
        <5>2. CASE w # 0
          <6>1. 1 \in Nat /\ 1 <= w
            BY <2>3, <5>2
          <6>2. d = OneData(file, 1, w)
            BY <2>3, <3>1, <6>1, ReadMore
          <6>3. /\ DataRequest(file, 1, w) \in Requests
                /\ DataRequest(file, 1, w).file = file
            BY <2>3 DEF DataRequest, Request, Requests, Parts
          <6> QED
            BY <2>3, <6>2, <6>3, OneMessage DEF OneData, AllAbout
        <5> QED
          BY <5>1, <5>2
      <4> QED
        BY <2>3, <4>1, <4>2, Both
    <3> HIDE DEF sd
    <3>4. e \in Seq(Requests) /\ AllAbout(e, file)
      <4>1. e = <<Request(file, [what |-> "end"])>>
        BY DEF End
      <4>2. /\ Request(file, [what |-> "end"]) \in Requests
            /\ Request(file, [what |-> "end"]).file = file
        BY <2>3 DEF Request, Requests, Parts
      <4> QED
        BY <2>3, <4>1, <4>2, OneMessage DEF AllAbout
    <3> DEFINE v == q \o sd
    <3>5. v \in Seq(Requests)
      BY <2>3, <3>3, SomeMore
    <3> HIDE DEF v
    <3>6. Of(v \o e, file, "end") # {}
      BY <2>3, <3>5, EndIsSent
    <3> HIDE DEF e
    <3>7. v \o e = q \o u
      BY <2>3, <3>3, <3>4, Both DEF v
    <3> QED
      BY <3>2, <3>6, <3>7
  <2> HIDE DEF e, w
  <2>5. toStorage' = [toStorage EXCEPT ![f.app] = @ \o u]
    BY <2>1, <2>4
  <2>6. EndKept(f)
    <3>1. toStorage'[f.app] = q \o u
      BY <1>3, <2>5
    <3> QED
      BY <1>2, <2>4, <3>1 DEF EndKept
  <2>7. ASSUME NEW g \in sent' \cap finished', g.app \in alive', g # f PROVE EndKept(g)
    <3>1. g \in sent \cap finished /\ g \in Fetches /\ g.app \in alive
      BY <1>3, <2>2, <2>7
    <3>2. fileId'[g] = fileId[g]
      BY <1>2, <2>7, <3>1
    <3> QED
      BY <1>3, <2>5, <3>1, <3>2, PipeGrows
  <2> QED
    BY <1>5, <2>6, <2>7, EndsStayOnTheWay
<1> QED
  BY <1>6, <1>7

\* Data that comes after the downloader is sent on.
LEMMA DataEnds ==
    ASSUME IInv, EndsArrive, UnsentSawNothing, NEW f \in Fetches, f.app \in alive,
           state[f] # "none", state[f] # "Aborted", Stream!Data(f), FeedData(f),
           UNCHANGED <<alive, toUi, items>>
    PROVE  EndsArrive' /\ UnsentSawNothing'
<1>1. /\ TypeOK /\ RepliesFollowTheStream /\ DownloadersFollowReplies
      /\ phase[f] = "open" /\ written' = [written EXCEPT ![f] = @ + 1]
  BY DEF IInv, Stream!Data, FeedData
<1> DEFINE to == written[f] + 1
<1>2. /\ f \notin finished /\ to \in Nat /\ readUpTo[f] \in Nat /\ readUpTo[f] + 1 <= to
      /\ f.app \in WebApps
  <2>1. state[f] # "Finished" /\ written[f] \in Nat /\ readUpTo[f] \in Nat /\ f.app \in WebApps
    BY <1>1, FetchFacts DEF RepliesFollowTheStream
  <2>2. f \notin finished /\ readUpTo[f] <= written[f]
    BY <1>1, <2>1 DEF DownloadersFollowReplies
  <2> QED
    BY <2>1, <2>2
<1>3. \A g \in Fetches \ {f} : written'[g] = written[g]
  BY <1>1 DEF TypeOK
<1> HIDE DEF to
<1>4. CASE fileId[f] = NoFile
  <2>1. UNCHANGED <<fileId, sent, finished, attachedAt, toStorage>>
    BY <1>4 DEF FeedData, downloader
  <2>2. UnsentSawNothing'
    BY <1>3, <1>4, <2>1 DEF UnsentSawNothing
  <2>3. \A g \in sent' \cap finished' : g.app \in alive' => EndKept(g)
    BY <2>1 DEF EndKept
  <2> QED
    BY <2>2, <2>3, EndsStayOnTheWay
<1>5. CASE fileId[f] # NoFile
  <2>1. sent' = sent \cup {f} /\ UNCHANGED <<fileId, finished, attachedAt>>
    BY <1>5 DEF FeedData
  <2>2. PICK d \in DownloadReadyRead(fileId[f], f \in sent, readUpTo[f] + 1, to) :
           toStorage' = [toStorage EXCEPT ![f.app] = @ \o d]
    BY <1>5 DEF FeedData, Unread, to
  <2>3. d \in Seq(Requests)
    BY <1>2, <1>5, DataRead
  <2>4. \A g \in sent' \cap finished' : g.app \in alive' => EndKept(g)
    BY <1>2, <2>1, <2>2, <2>3, PipeGrows
  <2>5. UnsentSawNothing'
    BY <1>3, <2>1 DEF UnsentSawNothing
  <2> QED
    BY <2>4, <2>5, EndsStayOnTheWay
<1> QED
  BY <1>4, <1>5

\* The end of an answer has the downloader send the end of its file.
LEMMA EndEnds ==
    ASSUME IInv, EndsArrive, UnsentSawNothing, NEW f \in Fetches, f.app \in alive,
           state[f] # "none", state[f] # "Aborted", Stream!End(f), FeedEnd(f),
           UNCHANGED <<alive, toUi, items>>
    PROVE  EndsArrive' /\ UnsentSawNothing'
<1>1. /\ TypeOK /\ RepliesFollowTheStream /\ DownloadersFollowReplies
      /\ phase[f] = "open" /\ f.app \in WebApps
  BY FetchFacts DEF IInv, Stream!End
<1>2. f \notin finished
  BY <1>1 DEF RepliesFollowTheStream, DownloadersFollowReplies
<1>3. UNCHANGED <<written, fileId, sent, attachedAt>>
  BY DEF FeedEnd, downloader
<1>4. UnsentSawNothing'
  BY <1>3 DEF UnsentSawNothing
<1>5. CASE fileId[f] = NoFile
  <2>1. UNCHANGED <<finished, toStorage>>
    BY <1>5 DEF FeedEnd, downloader
  <2>2. \A g \in sent' \cap finished' : g.app \in alive' => EndKept(g)
    BY <1>3, <2>1 DEF EndKept
  <2> QED
    BY <1>4, <2>2, EndsStayOnTheWay
<1>6. CASE fileId[f] # NoFile
  <2> DEFINE e == End(fileId[f], f \in sent, f \in finished)
  <2>1. /\ toStorage' = [toStorage EXCEPT ![f.app] = @ \o e]
        /\ finished' = finished \cup {f}
    BY <1>6 DEF FeedEnd
  <2>2. /\ fileId[f] \in Nat /\ toStorage[f.app] \in Seq(Requests)
        /\ toStorage \in [WebApps -> Seq(Requests)]
    BY <1>1, <1>6, FetchFacts DEF TypeOK, Requests
  <2>3. e \in Seq(Requests)
    <3>1. CASE f \in sent
      <4>1. (f \in sent) = TRUE /\ (f \in finished) = FALSE
        BY <1>2, <3>1
      <4> QED
        BY <2>2, <4>1, EndIsSent
    <3>2. CASE f \notin sent
      BY <3>2 DEF End
    <3> QED
      BY <3>1, <3>2
  <2>4. f \in sent => EndKept(f)
    <3> SUFFICES ASSUME f \in sent PROVE EndKept(f)
      OBVIOUS
    <3>1. (f \in sent) = TRUE /\ (f \in finished) = FALSE
      BY <1>2
    <3>2. toStorage'[f.app] = toStorage[f.app] \o End(fileId[f], TRUE, FALSE)
      BY <1>1, <2>1, <2>2, <3>1
    <3>3. Of(toStorage[f.app] \o End(fileId[f], TRUE, FALSE), fileId[f], "end") # {}
      BY <2>2, EndIsSent
    <3> QED
      BY <1>3, <3>2, <3>3 DEF EndKept
  <2> HIDE DEF e
  <2>5. ASSUME NEW g \in sent' \cap finished', g.app \in alive', g # f PROVE EndKept(g)
    <3>1. g \in sent \cap finished /\ fileId'[g] = fileId[g] /\ g.app \in alive
      BY <1>3, <2>1, <2>5
    <3> QED
      BY <1>1, <2>1, <2>3, <3>1, PipeGrows
  <2> QED
    BY <1>3, <1>4, <2>4, <2>5, EndsStayOnTheWay
<1> QED
  BY <1>5, <1>6

\* Nothing that happens to an end has happened.
LEMMA NothingEnds ==
    ASSUME EndsArrive, UnsentSawNothing,
           UNCHANGED <<alive, written, fileId, sent, finished, attachedAt, toStorage, toUi, items>>
    PROVE  EndsArrive' /\ UnsentSawNothing'
<1>1. \A g \in sent' \cap finished' : g.app \in alive' => EndKept(g)
  BY DEF EndKept
<1> QED
  BY <1>1, EndsStayOnTheWay DEF UnsentSawNothing

LEMMA HandleMessageEnds ==
    ASSUME IInv, EndsArrive, UnsentSawNothing, NEW f \in Fetches, HandleMessage(f)
    PROVE  EndsArrive' /\ UnsentSawNothing'
<1>1. f.app \in alive /\ state[f] # "none" /\ UNCHANGED <<alive, toUi, items>>
  BY DEF HandleMessage
<1>2. CASE UNCHANGED <<reply, downloader, toStorage>>
  BY <1>1, <1>2, NothingEnds DEF reply, downloader
<1>3. CASE FeedMetaData(f)
  BY <1>1, <1>3, NothingEnds DEF FeedMetaData, downloader
<1>4. CASE state[f] # "Aborted" /\ Stream!Data(f) /\ FeedData(f)
  BY <1>1, <1>4, DataEnds
<1>5. CASE state[f] # "Aborted" /\ Stream!End(f) /\ FeedEnd(f)
  BY <1>1, <1>5, EndEnds
<1>6. \/ Dispatched(f, FeedMetaData(f))
      \/ Stream!Data(f) /\ Dispatched(f, FeedData(f))
      \/ Stream!End(f) /\ Dispatched(f, FeedEnd(f))
  BY DEF HandleMessage
<1> QED
  BY <1>2, <1>3, <1>4, <1>5, <1>6 DEF Dispatched

\* What is lost is about downloads of the web app that dies.
LEMMA AppDiesEnds ==
    ASSUME IInv, EndsArrive, UnsentSawNothing, NEW a \in WebApps, AppDies(a)
    PROVE  EndsArrive' /\ UnsentSawNothing'
<1>1. PICK n \in 0..Len(toStorage[a]) : toStorage' = [toStorage EXCEPT ![a] = SubSeq(@, 1, n)]
  BY DEF AppDies
<1>2. /\ alive' = alive \ {a}
      /\ UNCHANGED <<written, fileId, sent, finished, attachedAt, toUi, items>>
  BY DEF AppDies, reply, downloader
<1>3. toStorage \in [WebApps -> Seq(Requests)] /\ sent \subseteq Fetches
  BY DEF IInv, TypeOK, Requests
<1>4. ASSUME NEW g \in sent' \cap finished', g.app \in alive' PROVE EndKept(g)
  <2>1. g \in sent \cap finished /\ g.app \in alive /\ g.app # a /\ fileId'[g] = fileId[g]
    BY <1>2, <1>4
  <2>2. g.app \in WebApps
    BY <1>3, <2>1, FetchFacts DEF IInv
  <2>3. toStorage'[g.app] = toStorage[g.app]
    BY <1>1, <1>3, <2>1, <2>2
  <2> QED
    BY <2>1, <2>3 DEF EndKept
<1>5. UnsentSawNothing'
  BY <1>2 DEF UnsentSawNothing
<1> QED
  BY <1>2, <1>4, <1>5, EndsStayOnTheWay

\* When web apps, storage and UI have read everything, every download of a web app
\* that lives is shown as finished: no order of end, downloader, messages to storage
\* and messages to the UI leaves one unfinished for good, but for those that
\* OpDownloader::finished gives up.  This is the safety part of DownloadsEnd.
THEOREM NoDownloadHangs == Spec => []NothingIsStuck
<1>1. Init => EndInv
  <2> SUFFICES ASSUME Init PROVE EndInv
    OBVIOUS
  <2>1. DOMAIN writeQueue = {} /\ sent = {} /\ \A f \in Fetches : fileId[f] = NoFile
    BY DEF Init
  <2> QED
    BY <2>1 DEF EndInv, KnownAreListed, EndsArrive, UnsentSawNothing
<1>2. IInv /\ EndInv /\ [Next]_vars => EndInv'
  <2> SUFFICES ASSUME IInv, KnownAreListed, EndsArrive, UnsentSawNothing, [Next]_vars
               PROVE  KnownAreListed' /\ EndsArrive' /\ UnsentSawNothing'
    BY DEF EndInv
  <2>1. CASE UNCHANGED vars
    BY <2>1, FilesGetListed, NothingEnds DEF vars, storage, reply, downloader
  <2>2. CASE HandleDownloadInfo
    <3>1. UnsentSawNothing'
      BY <2>2 DEF HandleDownloadInfo, reply, downloader, UnsentSawNothing
    <3> QED
      BY <2>2, <3>1, FilesGetListed, HandleDownloadInfoEnds
  <2>3. ASSUME NEW f \in Fetches, HandleMessage(f)
        PROVE  KnownAreListed' /\ EndsArrive' /\ UnsentSawNothing'
    <3>1. UNCHANGED <<writeQueue, toUi, items>>
      BY <2>3 DEF HandleMessage, storage
    <3> QED
      BY <2>3, <3>1, FilesGetListed, HandleMessageEnds
  <2>4. ASSUME NEW f \in Fetches, CreateRequest(f) \/ Abort(f)
        PROVE  KnownAreListed' /\ EndsArrive' /\ UnsentSawNothing'
    BY <2>4, FilesGetListed, NothingEnds DEF CreateRequest, Abort, storage, downloader
  <2>5. ASSUME NEW f \in Fetches, DownloadRequested(f) \/ HandleUnsupportedContent(f)
        PROVE  KnownAreListed' /\ EndsArrive' /\ UnsentSawNothing'
    <3>1. Attach(f) /\ UNCHANGED <<alive, written, writeQueue, toUi, items>>
      BY <2>5 DEF DownloadRequested, HandleUnsupportedContent, storage, reply
    <3> QED
      BY <3>1, FilesGetListed, AttachEnds
  <2>6. ASSUME NEW a \in WebApps, AppDies(a)
        PROVE  KnownAreListed' /\ EndsArrive' /\ UnsentSawNothing'
    <3>1. UNCHANGED <<writeQueue, toUi, items>>
      BY <2>6 DEF AppDies, storage
    <3> QED
      BY <2>6, <3>1, FilesGetListed, AppDiesEnds
  <2>7. ASSUME NEW a \in WebApps, WriteFile(a)
        PROVE  KnownAreListed' /\ EndsArrive' /\ UnsentSawNothing'
    <3>1. UnsentSawNothing'
      BY <2>7 DEF WriteFile, reply, downloader, UnsentSawNothing
    <3> QED
      BY <2>7, <3>1, FilesGetListed, WriteFileEnds
  <2> QED
    BY <2>1, <2>2, <2>3, <2>4, <2>5, <2>6, <2>7 DEF Next
<1>3. IInv /\ EndInv => NothingIsStuck
  <2> SUFFICES ASSUME IInv, EndInv, ~CanStep, NEW f \in Fetches, fileId[f] # NoFile,
                      f.app \in alive
               PROVE  \/ f \in finished \ sent /\ written[f] = attachedAt[f]
                      \/ /\ JobId(Entry(f)) \in DOMAIN items
                         /\ items[JobId(Entry(f))].finished
    BY DEF NothingIsStuck
  <2>1. toUi = <<>> /\ Len(toUi) < UiPipeBound
    BY DownloadAssumption DEF CanStep
  <2>2. toStorage[f.app] = <<>>
    <3>1. f.app \in WebApps
      BY DownloadAssumption
    <3> QED
      BY <2>1, <3>1 DEF CanStep
  <2>3. f \in finished
    <3>1. state[f] \in {"Idle", "Finished"} /\ (state[f] = "Finished" <=> f \in finished)
      BY DEF IInv, DownloadersFollowReplies
    <3>2. phase[f] = "ended"
      BY <3>1 DEF CanStep
    <3> QED
      BY <3>1, <3>2 DEF IInv, RepliesFollowTheStream
  <2>4. CASE f \in sent
    <3>1. Of(toStorage[f.app], fileId[f], "end") = {}
      BY <2>2 DEF Of, About
    <3>2. WillFinish(toUi, JobId(Entry(f)), Listed(JobId(Entry(f))))
      BY <2>3, <2>4, <3>1 DEF EndInv, EndsArrive
    <3>3. OfJob(toUi, JobId(Entry(f))) = {}
      BY <2>1 DEF OfJob
    <3>4. Listed(JobId(Entry(f))) = "finished"
      BY <3>2, <3>3 DEF WillFinish
    <3> QED
      BY <3>4 DEF Listed
  <2>5. CASE f \notin sent
    BY <2>3, <2>5 DEF EndInv, UnsentSawNothing
  <2> QED
    BY <2>4, <2>5
<1> QED
  BY <1>1, <1>2, <1>3, Invariance, PTL DEF Spec
=============================================================================
