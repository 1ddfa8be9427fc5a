---------------------------- MODULE NetworkProofs ----------------------------
(***************************************************************************)
(* Proofs about Network: types, one wait at a time, nobody's answer is cut *)
(* short by others, the refinement of UrlStream, and that no fetch is left *)
(* without its end, for any fetches of any web apps.                       *)
(***************************************************************************)
EXTENDS Network, FiniteSetTheorems, TLAPS

-----------------------------------------------------------------------------
\* Lemmas about queues and about what is sent

\* What is left when the first message is taken
LEMMA FirstTaken ==
    ASSUME NEW q \in Seq(Msgs), q # <<>>
    PROVE  /\ Head(q) = q[1] /\ 1 \in DOMAIN q /\ Head(q) \in Msgs
           /\ Tail(q) \in Seq(Msgs)
           /\ \A i \in DOMAIN Tail(q) : /\ Tail(q)[i] = q[i + 1]
                                        /\ i + 1 \in DOMAIN q /\ i + 1 # 1
OBVIOUS

LEMMA OneMore ==
    ASSUME NEW q \in Seq(Msgs), NEW m \in Msgs
    PROVE  /\ Append(q, m) \in Seq(Msgs)
           /\ \A i \in DOMAIN Append(q, m) :
                 \/ i \in DOMAIN q /\ Append(q, m)[i] = q[i]
                 \/ i = Len(q) + 1 /\ i \notin DOMAIN q /\ Append(q, m)[i] = m
OBVIOUS

LEMMA MessageFacts ==
    ASSUME NEW m \in Msgs
    PROVE  /\ m.type \in {"FETCH_URL", "FETCH_URL_ABORT", "COOKIE_GET_RETURN"}
           /\ m.type # "COOKIE_GET_RETURN" => m.of \in Fetches
BY DEF Msgs

Kinds == {"META", "DATA", "END"}

\* Where a kind of message is in an answer
Places(s, msg) == {i \in DOMAIN s : s[i] = msg}

\* An answer that can go on
Open(s) == s # <<>> => Places(s, "META") = {1} /\ Places(s, "END") = {}

\* One more message, with the metadata in front if it is the first
Longer(s, msg) == s \o (IF s = <<>> THEN <<"META", msg>> ELSE <<msg>>)

LEMMA LongerAnswer ==
    ASSUME NEW s \in Seq(Kinds), Open(s), NEW msg \in {"DATA", "END"}
    PROVE  /\ Longer(s, msg) \in Seq(Kinds) /\ Longer(s, msg) # <<>>
           /\ Len(Longer(s, msg)) \in Nat \ DOMAIN s
           /\ Places(Longer(s, msg), "META") = {1}
           /\ Places(Longer(s, msg), msg) = Places(s, msg) \cup {Len(Longer(s, msg))}
           /\ \A other \in {"DATA", "END"} \ {msg} :
                 Places(Longer(s, msg), other) = Places(s, other)
<1> DEFINE r == Longer(s, msg)
<1>1. CASE s = <<>>
  <2>1. r = <<"META", msg>>
    BY <1>1 DEF Longer
  <2>2. DOMAIN r = {1, 2} /\ Len(r) = 2 /\ r[1] = "META" /\ r[2] = msg /\ DOMAIN s = {}
    BY <1>1, <2>1
  <2>3. \A k : Places(s, k) = {}
    BY <2>2 DEF Places
  <2>4. r \in Seq(Kinds) /\ r # <<>>
    BY <2>1 DEF Kinds
  <2> HIDE DEF r
  <2>5. Places(r, "META") = {1} /\ Places(r, msg) = {2}
    BY <2>2 DEF Places
  <2>6. \A other \in {"DATA", "END"} \ {msg} : Places(r, other) = {}
    BY <2>2 DEF Places
  <2>7. Len(r) \in Nat \ DOMAIN s /\ Places(r, msg) = Places(s, msg) \cup {Len(r)}
    BY <2>2, <2>3, <2>5
  <2>8. \A other \in {"DATA", "END"} \ {msg} : Places(r, other) = Places(s, other)
    BY <2>3, <2>6
  <2> QED
    BY <2>4, <2>5, <2>7, <2>8 DEF r
<1>2. CASE s # <<>>
  <2>1. r = s \o <<msg>>
    BY <1>2 DEF Longer
  <2>2. /\ Len(s) \in Nat /\ Len(r) = Len(s) + 1 /\ DOMAIN s = 1..Len(s)
        /\ DOMAIN r = 1..(Len(s) + 1) /\ r[Len(s) + 1] = msg
        /\ \A i \in DOMAIN s : r[i] = s[i]
    BY <2>1 DEF Kinds
  <2>3. r \in Seq(Kinds) /\ r # <<>>
    BY <2>1 DEF Kinds
  <2> HIDE DEF r
  <2>4. Places(r, msg) = Places(s, msg) \cup {Len(r)}
    BY <2>2 DEF Places
  <2>5. \A other \in {"META", "DATA", "END"} \ {msg} : Places(r, other) = Places(s, other)
    BY <2>2 DEF Places
  <2>6. Places(r, "META") = {1}
    BY <1>2, <2>5 DEF Open
  <2> QED
    BY <2>2, <2>3, <2>4, <2>5, <2>6 DEF r
<1> QED
  BY <1>1, <1>2

LEMMA FirstAnswer ==
    /\ <<"META">> \in Seq(Kinds)
    /\ Places(<<"META">>, "META") = {1}
    /\ Places(<<"META">>, "DATA") = {} /\ Places(<<"META">>, "END") = {}
<1>1. <<"META">> \in Seq(Kinds)
  BY DEF Kinds
<1>2. DOMAIN <<"META">> = {1} /\ <<"META">>[1] = "META"
  OBVIOUS
<1> QED
  BY <1>1, <1>2 DEF Places

-----------------------------------------------------------------------------
\* The invariant in terms of two queues, to speak of what a step leaves in them

Own(in, q) ==
    /\ \A i \in DOMAIN in : IsAbort(in[i]) => in[i].of \in aborted
    /\ \A i \in DOMAIN q : IsAbort(q[i]) => q[i].of \in aborted

New(in, q) ==
    /\ \A i \in DOMAIN in : IsFetch(in[i]) => Unbegun(in[i].of)
    /\ \A i \in DOMAIN q : IsFetch(q[i]) => Unbegun(q[i].of)
    /\ \A i, j \in DOMAIN in : i # j /\ IsFetch(in[i]) /\ IsFetch(in[j]) => in[i].of # in[j].of
    /\ \A i, j \in DOMAIN q : i # j /\ IsFetch(q[i]) /\ IsFetch(q[j]) => q[i].of # q[j].of
    /\ \A i \in DOMAIN in, j \in DOMAIN q : IsFetch(in[i]) /\ IsFetch(q[j]) => in[i].of # q[j].of

\* No fetch of f is on its way.
Gone(f, in, q) ==
    /\ \A i \in DOMAIN in : IsFetch(in[i]) => in[i].of # f
    /\ \A i \in DOMAIN q : IsFetch(q[i]) => q[i].of # f

\* What is known of a message that was taken, and of those that are left
Taken(m, in, q) ==
    /\ m \in Msgs /\ in \in Seq(Msgs) /\ q \in Seq(Msgs)
    /\ Own(in, q) /\ New(in, q)
    /\ IsAbort(m) => m.of \in aborted
    /\ IsFetch(m) => Unbegun(m.of) /\ Gone(m.of, in, q)

LEMMA TakenFromStdin ==
    ASSUME IInv, stdin # <<>>
    PROVE  Taken(Head(stdin), Tail(stdin), msgQueue)
<1> DEFINE m == Head(stdin)
           t == Tail(stdin)
<1>1. /\ m = stdin[1] /\ 1 \in DOMAIN stdin /\ m \in Msgs /\ t \in Seq(Msgs)
      /\ msgQueue \in Seq(Msgs)
      /\ \A i \in DOMAIN t : t[i] = stdin[i + 1] /\ i + 1 \in DOMAIN stdin /\ i + 1 # 1
      /\ DOMAIN t \subseteq Int
  BY FirstTaken DEF IInv, TypeOK
<1> HIDE DEF m, t
<1>2. Own(t, msgQueue) /\ (IsAbort(m) => m.of \in aborted)
  BY <1>1 DEF Own, IInv, AbortsAreOwn
<1>3. /\ \A i \in DOMAIN t : IsFetch(t[i]) => Unbegun(t[i].of)
      /\ \A i \in DOMAIN msgQueue : IsFetch(msgQueue[i]) => Unbegun(msgQueue[i].of)
  BY <1>1 DEF IInv, FetchesAreNew
<1>4. \A i, j \in DOMAIN t : i # j /\ IsFetch(t[i]) /\ IsFetch(t[j]) => t[i].of # t[j].of
  <2> TAKE i, j \in DOMAIN t
  <2>1. i # j => i + 1 # j + 1
    BY <1>1
  <2> QED
    BY <1>1, <2>1 DEF IInv, FetchesAreNew
<1>5. \A i \in DOMAIN t, j \in DOMAIN msgQueue :
         IsFetch(t[i]) /\ IsFetch(msgQueue[j]) => t[i].of # msgQueue[j].of
  BY <1>1 DEF IInv, FetchesAreNew
<1>6. New(t, msgQueue)
  BY <1>3, <1>4, <1>5 DEF New, IInv, FetchesAreNew
<1>7. IsFetch(m) => Unbegun(m.of) /\ Gone(m.of, t, msgQueue)
  BY <1>1 DEF Gone, IInv, FetchesAreNew
<1> QED
  BY <1>1, <1>2, <1>6, <1>7 DEF Taken, m, t

LEMMA TakenFromQueue ==
    ASSUME IInv, msgQueue # <<>>
    PROVE  Taken(Head(msgQueue), stdin, Tail(msgQueue))
<1> DEFINE m == Head(msgQueue)
           t == Tail(msgQueue)
<1>1. /\ m = msgQueue[1] /\ 1 \in DOMAIN msgQueue /\ m \in Msgs /\ t \in Seq(Msgs)
      /\ stdin \in Seq(Msgs)
      /\ \A i \in DOMAIN t : /\ t[i] = msgQueue[i + 1]
                             /\ i + 1 \in DOMAIN msgQueue /\ i + 1 # 1
      /\ DOMAIN t \subseteq Int
  BY FirstTaken DEF IInv, TypeOK
<1> HIDE DEF m, t
<1>2. Own(stdin, t) /\ (IsAbort(m) => m.of \in aborted)
  BY <1>1 DEF Own, IInv, AbortsAreOwn
<1>3. /\ \A i \in DOMAIN t : IsFetch(t[i]) => Unbegun(t[i].of)
      /\ \A i \in DOMAIN stdin : IsFetch(stdin[i]) => Unbegun(stdin[i].of)
  BY <1>1 DEF IInv, FetchesAreNew
<1>4. \A i, j \in DOMAIN t : i # j /\ IsFetch(t[i]) /\ IsFetch(t[j]) => t[i].of # t[j].of
  <2> TAKE i, j \in DOMAIN t
  <2>1. i # j => i + 1 # j + 1
    BY <1>1
  <2> QED
    BY <1>1, <2>1 DEF IInv, FetchesAreNew
<1>5. \A i \in DOMAIN stdin, j \in DOMAIN t :
         IsFetch(stdin[i]) /\ IsFetch(t[j]) => stdin[i].of # t[j].of
  BY <1>1 DEF IInv, FetchesAreNew
<1>6. New(stdin, t)
  BY <1>3, <1>4, <1>5 DEF New, IInv, FetchesAreNew
<1>7. IsFetch(m) => Unbegun(m.of) /\ Gone(m.of, stdin, t)
  BY <1>1 DEF Gone, IInv, FetchesAreNew
<1> QED
  BY <1>1, <1>2, <1>6, <1>7 DEF Taken, m, t

-----------------------------------------------------------------------------
\* A reply sends

LEMMA AtIsPlaces ==
    /\ \A f, msg : At(f, msg) = Places(sent[f], msg)
    /\ \A f, msg : At(f, msg)' = Places(sent'[f], msg)
BY DEF At, Places

LEMMA ListedAreOpen ==
    ASSUME IInv, NEW g \in requestQueue
    PROVE  g \in Fetches /\ sent[g] \in Seq(Kinds) /\ Open(sent[g])
BY AtIsPlaces DEF IInv, TypeOK, AnswersHaveShape, Open, Ended, Kinds

LEMMA SendsKeepsShape ==
    ASSUME IInv, NEW g \in requestQueue, NEW r \in Seq(Kinds), r # <<>>,
           Places(r, "META") = {1},
           \/ Places(r, "END") = {} /\ requestQueue' = requestQueue
           \/ Places(r, "END") = {Len(r)} /\ requestQueue' = requestQueue \ {g},
           sent' = [sent EXCEPT ![g] = r], UNCHANGED <<fetched, waiting>>
    PROVE  /\ sent' \in [Fetches -> Seq(Kinds)] /\ requestQueue' \in SUBSET Fetches
           /\ AnswersHaveShape' /\ OnlyFetchedAreServed' /\ WaitingIsNew'
           /\ \A f : Unbegun(f) => Unbegun(f)'
           /\ \A f \in Fetches \ {g} : Ended(f)' <=> Ended(f)
           /\ Ended(g)' => Places(r, "END") # {}
<1>1. g \in Fetches /\ sent \in [Fetches -> Seq(Kinds)] /\ requestQueue \in SUBSET Fetches
  BY DEF IInv, TypeOK, Kinds
<1>2. sent' \in [Fetches -> Seq(Kinds)] /\ requestQueue' \in SUBSET Fetches
  BY <1>1
<1>3. \A f \in Fetches \ {g} : sent'[f] = sent[f] /\ (Ended(f)' <=> Ended(f))
  BY <1>1, AtIsPlaces DEF Ended
<1>4. sent'[g] = r /\ (Ended(g)' <=> Places(r, "END") # {})
  BY <1>1, AtIsPlaces DEF Ended
<1>5. AnswersHaveShape'
  <2>1. ASSUME NEW f \in Fetches, sent'[f] # <<>>
        PROVE  /\ At(f, "META")' = {1}
               /\ Ended(f)' => At(f, "END")' = {Len(sent'[f])} /\ f \notin requestQueue'
    <3>1. CASE f = g
      BY <1>4, <3>1, AtIsPlaces
    <3>2. CASE f # g
      BY <1>3, <2>1, <3>2, AtIsPlaces DEF IInv, AnswersHaveShape
    <3> QED
      BY <3>1, <3>2
  <2> QED
    BY <2>1 DEF AnswersHaveShape
<1>6. OnlyFetchedAreServed'
  BY <1>3, <1>1 DEF OnlyFetchedAreServed, IInv
<1>7. WaitingIsNew' /\ \A f : Unbegun(f) => Unbegun(f)'
  BY <1>1 DEF WaitingIsNew, IInv, Unbegun, TypeOK
<1> QED
  BY <1>2, <1>3, <1>4, <1>5, <1>6, <1>7

LEMMA FinishSends ==
    ASSUME IInv, NEW g \in requestQueue, Finish(g), UNCHANGED <<fetched, waiting>>
    PROVE  /\ sent' \in [Fetches -> Seq(Kinds)] /\ requestQueue' \in SUBSET Fetches
           /\ AnswersHaveShape' /\ OnlyFetchedAreServed' /\ WaitingIsNew'
           /\ \A f : Unbegun(f) => Unbegun(f)'
           /\ \A f \in Fetches \ {g} : Ended(f)' <=> Ended(f)
<1> DEFINE r == Longer(sent[g], "END")
<1>1. g \in Fetches /\ sent[g] \in Seq(Kinds) /\ Open(sent[g])
  BY ListedAreOpen
<1>2. /\ r \in Seq(Kinds) /\ r # <<>> /\ Places(r, "META") = {1}
      /\ Places(r, "END") = Places(sent[g], "END") \cup {Len(r)}
  BY <1>1, LongerAnswer
<1>3. Places(sent[g], "END") = {}
  <2>1. CASE sent[g] = <<>>
    BY <2>1 DEF Places
  <2>2. CASE sent[g] # <<>>
    BY <1>1, <2>2 DEF Open
  <2> QED
    BY <2>1, <2>2
<1>4. sent' = [sent EXCEPT ![g] = r] /\ requestQueue' = requestQueue \ {g}
  BY DEF Finish, Send, WithMeta, Removed, Longer
<1> HIDE DEF r
<1> QED
  BY <1>2, <1>3, <1>4, SendsKeepsShape

LEMMA KeptNew ==
    ASSUME \A f : Unbegun(f) => Unbegun(f)', New(stdin', msgQueue')
    PROVE  FetchesAreNew'
BY DEF New, FetchesAreNew

-----------------------------------------------------------------------------
\* Each action keeps the invariant

LEMMA Inside ==
    ASSUME IInv, UNCHANGED <<stdin, fetched, aborted, asking, msgQueue, waitForReply,
                             waiting, requestQueue, left, failed, sent>>,
           answered' \in BOOLEAN, frame' \in Frames, posted' \in Nat
    PROVE  IInv'
<1>1. TypeOK' /\ FlagIsRight' /\ AbortsAreOwn'
  BY DEF IInv, TypeOK, FlagIsRight, AbortsAreOwn
<1>2. \A f : Unbegun(f) => Unbegun(f)'
  BY DEF Unbegun
<1>3. FetchesAreNew'
  BY <1>2 DEF IInv, FetchesAreNew
<1>4. WaitingIsNew' /\ OnlyFetchedAreServed'
  BY DEF IInv, WaitingIsNew, OnlyFetchedAreServed
<1>5. \A f : Ended(f)' <=> Ended(f)
  BY AtIsPlaces DEF Ended
<1>6. AnswersHaveShape' /\ CutShortOnlyByOwner'
  BY <1>5, AtIsPlaces DEF IInv, AnswersHaveShape, CutShortOnlyByOwner
<1> QED
  BY <1>1, <1>3, <1>4, <1>6 DEF IInv

\* A message is handled.
LEMMA DispatchKeeps ==
    ASSUME IInv, NEW m, NEW in, NEW q, Taken(m, in, q), DispatchMsg(m),
           waiting # NoFetch => m.type = "COOKIE_GET_RETURN",
           stdin' = in, msgQueue' = q, UNCHANGED <<apps, frame, posted>>
    PROVE  IInv'
<1>1. /\ m \in Msgs /\ in \in Seq(Msgs) /\ q \in Seq(Msgs) /\ Own(in, q) /\ New(in, q)
      /\ IsAbort(m) => m.of \in aborted
      /\ IsFetch(m) => Unbegun(m.of) /\ Gone(m.of, in, q)
  BY DEF Taken
<1>2. AbortsAreOwn' /\ New(stdin', msgQueue')
  BY <1>1 DEF AbortsAreOwn, Own, apps
<1>3. \A f, k : At(f, k)' = Places(sent'[f], k) /\ At(f, k) = Places(sent[f], k)
  BY AtIsPlaces
<1>4. CASE m.type = "FETCH_URL"
  <2>1. /\ waiting' = m.of /\ waitForReply' = TRUE /\ asking' = TRUE
        /\ UNCHANGED <<answered, requestQueue, left, failed, sent, fetched, aborted, frame,
                       posted>>
    BY <1>4 DEF DispatchMsg, replies, apps
  <2>2. m.of \in Fetches /\ m.of # NoFetch
    BY <1>1, <1>4, MessageFacts, FetchesAssumption
  <2>3. Unbegun(m.of) /\ Gone(m.of, in, q)
    BY <1>1, <1>4 DEF IsFetch
  <2>4. TypeOK' /\ FlagIsRight'
    BY <1>1, <2>1, <2>2 DEF IInv, TypeOK, FlagIsRight
  <2>5. \A f : Unbegun(f) /\ f # m.of => Unbegun(f)'
    BY <2>1 DEF Unbegun
  <2>6. FetchesAreNew'
    BY <1>1, <2>3, <2>5 DEF FetchesAreNew, New, Gone
  <2>7. WaitingIsNew' /\ OnlyFetchedAreServed'
    BY <2>1, <2>3 DEF WaitingIsNew, OnlyFetchedAreServed, Unbegun, IInv
  <2>8. AnswersHaveShape' /\ CutShortOnlyByOwner'
    BY <1>3, <2>1 DEF IInv, AnswersHaveShape, CutShortOnlyByOwner, Ended
  <2> QED
    BY <1>2, <2>4, <2>6, <2>7, <2>8 DEF IInv
<1>5. CASE m.type = "COOKIE_GET_RETURN"
  <2>1. /\ answered' = TRUE
        /\ UNCHANGED <<asking, waitForReply, waiting, requestQueue, left, failed, sent,
                       fetched, aborted, frame, posted>>
    BY <1>5 DEF DispatchMsg, replies, apps
  <2>2. TypeOK' /\ FlagIsRight'
    BY <1>1, <2>1 DEF IInv, TypeOK, FlagIsRight
  <2>3. \A f : Unbegun(f) => Unbegun(f)'
    BY <2>1 DEF Unbegun
  <2>4. FetchesAreNew'
    BY <1>2, <2>3, KeptNew
  <2>5. WaitingIsNew' /\ OnlyFetchedAreServed'
    BY <2>1 DEF WaitingIsNew, OnlyFetchedAreServed, IInv
  <2>6. AnswersHaveShape' /\ CutShortOnlyByOwner'
    BY <1>3, <2>1 DEF IInv, AnswersHaveShape, CutShortOnlyByOwner, Ended
  <2> QED
    BY <1>2, <2>2, <2>4, <2>5, <2>6 DEF IInv
<1>6. CASE m.type = "FETCH_URL_ABORT"
  <2>1. /\ UNCHANGED <<asking, waitForReply, answered, waiting, left, failed, fetched,
                       aborted, frame, posted>>
        /\ \/ UNCHANGED <<sent, requestQueue>>
           \/ \E g \in AbortTargets(m.of) : Finish(g)
    BY <1>6 DEF DispatchMsg, apps
  <2>2. m.of \in Fetches /\ m.of \in aborted
    BY <1>1, <1>6, MessageFacts DEF IsAbort
  <2>3. CASE UNCHANGED <<sent, requestQueue>>
    <3>1. TypeOK' /\ FlagIsRight'
      BY <1>1, <2>1, <2>3 DEF IInv, TypeOK, FlagIsRight
    <3>2. \A f : Unbegun(f) => Unbegun(f)'
      BY <2>1, <2>3 DEF Unbegun
    <3>3. FetchesAreNew'
      BY <1>2, <3>2, KeptNew
    <3>4. WaitingIsNew' /\ OnlyFetchedAreServed'
      BY <2>1, <2>3 DEF WaitingIsNew, OnlyFetchedAreServed, IInv
    <3>5. AnswersHaveShape' /\ CutShortOnlyByOwner'
      BY <1>3, <2>1, <2>3 DEF IInv, AnswersHaveShape, CutShortOnlyByOwner, Ended
    <3> QED
      BY <1>2, <3>1, <3>3, <3>4, <3>5 DEF IInv
  <2>4. CASE \E g \in AbortTargets(m.of) : Finish(g)
    <3>1. PICK g \in AbortTargets(m.of) : Finish(g)
      BY <2>4
    <3>2. g \in requestQueue /\ g = m.of
      BY <2>2, FetchesAssumption DEF AbortTargets, IInv, TypeOK
    <3>3. /\ sent' \in [Fetches -> Seq(Kinds)] /\ requestQueue' \in SUBSET Fetches
          /\ AnswersHaveShape' /\ OnlyFetchedAreServed' /\ WaitingIsNew'
          /\ \A f : Unbegun(f) => Unbegun(f)'
          /\ \A f \in Fetches \ {g} : Ended(f)' <=> Ended(f)
      BY <2>1, <3>1, <3>2, FinishSends
    <3>4. TypeOK' /\ FlagIsRight'
      BY <1>1, <2>1, <3>3 DEF IInv, TypeOK, FlagIsRight, Kinds
    <3>5. FetchesAreNew'
      BY <1>2, <3>3, KeptNew
    <3>6. CutShortOnlyByOwner'
      BY <2>1, <2>2, <3>2, <3>3 DEF IInv, CutShortOnlyByOwner
    <3> QED
      BY <1>2, <3>3, <3>4, <3>5, <3>6 DEF IInv
  <2> QED
    BY <2>1, <2>3, <2>4
<1> QED
  BY <1>1, <1>4, <1>5, <1>6, MessageFacts

\* A message waits for the one that waits.
LEMMA DeferKeeps ==
    ASSUME IInv, stdin # <<>>, stdin' = Tail(stdin),
           msgQueue' = Append(msgQueue, Head(stdin)),
           UNCHANGED <<fetched, aborted, asking, waitForReply, answered, frame, waiting,
                       posted, requestQueue, left, failed, sent>>
    PROVE  IInv'
<1> DEFINE m == Head(stdin)
           t == Tail(stdin)
           q == Append(msgQueue, m)
<1>1. /\ m \in Msgs /\ t \in Seq(Msgs) /\ msgQueue \in Seq(Msgs)
      /\ Own(t, msgQueue) /\ New(t, msgQueue)
      /\ IsAbort(m) => m.of \in aborted
      /\ IsFetch(m) => Unbegun(m.of) /\ Gone(m.of, t, msgQueue)
  BY TakenFromStdin DEF Taken
<1> HIDE DEF m, t
<1>2. /\ q \in Seq(Msgs)
      /\ \A i \in DOMAIN q : \/ i \in DOMAIN msgQueue /\ q[i] = msgQueue[i]
                             \/ i \notin DOMAIN msgQueue /\ i = Len(msgQueue) + 1 /\ q[i] = m
  BY <1>1, OneMore
<1> HIDE DEF q
<1>3. stdin' = t /\ msgQueue' = q
  BY DEF m, t, q
<1>4. AbortsAreOwn'
  BY <1>1, <1>2, <1>3 DEF Own, AbortsAreOwn
<1>5. New(t, q)
  <2>1. \A i \in DOMAIN t : IsFetch(t[i]) => Unbegun(t[i].of)
    BY <1>1 DEF New
  <2>2. \A i \in DOMAIN q : IsFetch(q[i]) => Unbegun(q[i].of)
    BY <1>1, <1>2 DEF New
  <2>3. \A i, j \in DOMAIN t : i # j /\ IsFetch(t[i]) /\ IsFetch(t[j]) => t[i].of # t[j].of
    BY <1>1 DEF New
  <2>4. ASSUME NEW i \in DOMAIN q, NEW j \in DOMAIN q, i # j, IsFetch(q[i]), IsFetch(q[j])
        PROVE  q[i].of # q[j].of
    <3>1. CASE i \in DOMAIN msgQueue /\ q[i] = msgQueue[i]
               /\ j \in DOMAIN msgQueue /\ q[j] = msgQueue[j]
      BY <1>1, <2>4, <3>1 DEF New
    <3>2. CASE i \in DOMAIN msgQueue /\ q[i] = msgQueue[i] /\ q[j] = m
      BY <1>1, <2>4, <3>2 DEF Gone
    <3>3. CASE q[i] = m /\ j \in DOMAIN msgQueue /\ q[j] = msgQueue[j]
      BY <1>1, <2>4, <3>3 DEF Gone
    <3> QED
      BY <1>2, <2>4, <3>1, <3>2, <3>3
  <2>5. ASSUME NEW i \in DOMAIN t, NEW j \in DOMAIN q, IsFetch(t[i]), IsFetch(q[j])
        PROVE  t[i].of # q[j].of
    <3>1. CASE j \in DOMAIN msgQueue /\ q[j] = msgQueue[j]
      BY <1>1, <2>5, <3>1 DEF New
    <3>2. CASE q[j] = m
      BY <1>1, <2>5, <3>2 DEF Gone
    <3> QED
      BY <1>2, <3>1, <3>2
  <2> QED
    BY <2>1, <2>2, <2>3, <2>4, <2>5 DEF New
<1>6. \A f : Unbegun(f) => Unbegun(f)'
  BY DEF Unbegun
<1>7. FetchesAreNew'
  BY <1>3, <1>5, <1>6, KeptNew
<1>8. TypeOK' /\ FlagIsRight'
  BY <1>1, <1>2, <1>3 DEF IInv, TypeOK, FlagIsRight
<1>9. WaitingIsNew' /\ OnlyFetchedAreServed'
  BY DEF WaitingIsNew, OnlyFetchedAreServed, IInv
<1>10. AnswersHaveShape' /\ CutShortOnlyByOwner'
  BY AtIsPlaces DEF IInv, AnswersHaveShape, CutShortOnlyByOwner, Ended
<1> QED
  BY <1>4, <1>7, <1>8, <1>9, <1>10 DEF IInv

\* A message arrives; a fetch is a new one.
LEMMA ArrivalKeeps ==
    ASSUME IInv, NEW m \in Msgs, stdin' = Append(stdin, m),
           IsAbort(m) => m.of \in aborted',
           IsFetch(m) => m.of \in fetched' /\ m.of \notin fetched,
           fetched \subseteq fetched', aborted \subseteq aborted',
           fetched' \in SUBSET Fetches, aborted' \in SUBSET Fetches, asking' \in BOOLEAN,
           UNCHANGED <<msgQueue, waitForReply, answered, frame, waiting, posted,
                       requestQueue, left, failed, sent>>
    PROVE  IInv'
<1> DEFINE in == Append(stdin, m)
<1>1. /\ in \in Seq(Msgs)
      /\ \A i \in DOMAIN in : \/ i \in DOMAIN stdin /\ in[i] = stdin[i]
                              \/ i \notin DOMAIN stdin /\ i = Len(stdin) + 1 /\ in[i] = m
  BY OneMore DEF IInv, TypeOK
<1>2. stdin' = in
  OBVIOUS
<1> HIDE DEF in
<1>3. AbortsAreOwn'
  BY <1>1, <1>2 DEF IInv, AbortsAreOwn
<1>4. \A f : Unbegun(f) => Unbegun(f)' /\ f \in fetched
  BY DEF Unbegun
<1>5. IsFetch(m) => Unbegun(m.of)'
  <2> SUFFICES ASSUME IsFetch(m)
               PROVE  Unbegun(m.of)'
    OBVIOUS
  <2>1. m.of \in Fetches /\ m.of # NoFetch
    BY MessageFacts, FetchesAssumption DEF IsFetch
  <2>2. m.of \notin requestQueue /\ sent[m.of] = <<>> /\ m.of # waiting
    BY <2>1 DEF IInv, OnlyFetchedAreServed, WaitingIsNew
  <2> QED
    BY <2>2 DEF Unbegun
<1>6. FetchesAreNew'
  BY <1>1, <1>2, <1>4, <1>5 DEF IInv, FetchesAreNew
<1>7. TypeOK' /\ FlagIsRight'
  BY <1>1, <1>2 DEF IInv, TypeOK, FlagIsRight
<1>8. WaitingIsNew' /\ OnlyFetchedAreServed'
  BY DEF WaitingIsNew, OnlyFetchedAreServed, IInv
<1>9. AnswersHaveShape' /\ CutShortOnlyByOwner'
  BY AtIsPlaces DEF IInv, AnswersHaveShape, CutShortOnlyByOwner, Ended
<1> QED
  BY <1>3, <1>6, <1>7, <1>8, <1>9 DEF IInv

\* A reply signals that there is metadata, or data.
LEMMA SignalKeeps ==
    ASSUME IInv, NEW f \in Fetches, MetaDataChanged(f) \/ ReadyRead(f)
    PROVE  IInv'
<1>1. /\ f \in requestQueue
      /\ UNCHANGED <<stdin, fetched, aborted, asking, msgQueue, waitForReply, answered, frame,
                     waiting, posted, requestQueue, failed>>
      /\ left' \in [Fetches -> 0..MaxChunks]
      /\ \A g \in Fetches : left'[g] > 0 => left[g] > 0
      /\ \/ sent[f] = <<>> /\ sent' = [sent EXCEPT ![f] = @ \o <<"META">>]
         \/ sent' = [sent EXCEPT ![f] = Longer(sent[f], "DATA")]
  <2>1. MaxChunks \in Nat /\ left \in [Fetches -> 0..MaxChunks]
        /\ sent \in [Fetches -> Seq(Kinds)]
    BY FetchesAssumption DEF IInv, TypeOK, Kinds
  <2>2. CASE MetaDataChanged(f)
    BY <2>1, <2>2 DEF MetaDataChanged, Send, apps, pump
  <2>3. CASE ReadyRead(f)
    <3>1. /\ f \in requestQueue /\ left[f] > 0 /\ left' = [left EXCEPT ![f] = @ - 1]
          /\ Send(f, WithMeta(f, "DATA"))
          /\ UNCHANGED <<stdin, fetched, aborted, asking, msgQueue, waitForReply, answered,
                         frame, waiting, posted, requestQueue, failed>>
      BY <2>3 DEF ReadyRead, apps, pump
    <3>2. sent' = [sent EXCEPT ![f] = Longer(sent[f], "DATA")]
      BY <3>1 DEF Send, WithMeta, Longer
    <3>3. /\ left' \in [Fetches -> 0..MaxChunks]
          /\ \A g \in Fetches : left'[g] > 0 => left[g] > 0
      BY <2>1, <3>1
    <3> QED
      BY <3>1, <3>2, <3>3
  <2> QED
    BY <2>2, <2>3
<1>2. sent[f] \in Seq(Kinds) /\ Open(sent[f])
  BY <1>1, ListedAreOpen
<1>3. PICK r \in Seq(Kinds) : /\ r # <<>> /\ Places(r, "META") = {1}
                              /\ Places(r, "END") = {}
                              /\ sent' = [sent EXCEPT ![f] = r]
  <2>1. CASE sent[f] = <<>> /\ sent' = [sent EXCEPT ![f] = @ \o <<"META">>]
    <3>1. sent[f] \o <<"META">> = <<"META">>
      BY <2>1
    <3>2. sent' = [sent EXCEPT ![f] = <<"META">>] /\ <<"META">> # <<>>
      BY <2>1, <3>1
    <3> QED
      BY <3>2, FirstAnswer
  <2>2. CASE sent' = [sent EXCEPT ![f] = Longer(sent[f], "DATA")]
    <3> DEFINE r == Longer(sent[f], "DATA")
    <3>1. /\ r \in Seq(Kinds) /\ r # <<>> /\ Places(r, "META") = {1}
          /\ Places(r, "END") = Places(sent[f], "END")
      BY <1>2, LongerAnswer
    <3>2. Places(sent[f], "END") = {}
      BY <1>2 DEF Open, Places
    <3> QED
      BY <2>2, <3>1, <3>2
  <2> QED
    BY <1>1, <2>1, <2>2
<1>4. /\ sent' \in [Fetches -> Seq(Kinds)] /\ requestQueue' \in SUBSET Fetches
      /\ AnswersHaveShape' /\ OnlyFetchedAreServed' /\ WaitingIsNew'
      /\ \A g : Unbegun(g) => Unbegun(g)'
      /\ \A g \in Fetches \ {f} : Ended(g)' <=> Ended(g)
      /\ ~Ended(f)'
  BY <1>1, <1>3, SendsKeepsShape
<1>5. TypeOK' /\ FlagIsRight' /\ AbortsAreOwn'
  BY <1>1, <1>4 DEF IInv, TypeOK, FlagIsRight, AbortsAreOwn, Kinds
<1>6. New(stdin', msgQueue')
  BY <1>1 DEF IInv, FetchesAreNew, New
<1>7. FetchesAreNew'
  BY <1>4, <1>6, KeptNew
<1>8. CutShortOnlyByOwner'
  BY <1>1, <1>4 DEF IInv, CutShortOnlyByOwner
<1> QED
  BY <1>4, <1>5, <1>7, <1>8 DEF IInv

\* A reply signals that it has finished.
LEMMA FinishedKeeps ==
    ASSUME IInv, NEW f \in Fetches, Finished(f)
    PROVE  IInv'
<1>1. /\ f \in requestQueue /\ Finish(f)
      /\ (left[f] = 0 /\ failed' = failed) \/ failed' = failed \cup {f}
      /\ UNCHANGED <<stdin, fetched, aborted, asking, msgQueue, waitForReply, answered, frame,
                     waiting, posted, left>>
  BY DEF Finished, apps, pump
<1>2. /\ sent' \in [Fetches -> Seq(Kinds)] /\ requestQueue' \in SUBSET Fetches
      /\ AnswersHaveShape' /\ OnlyFetchedAreServed' /\ WaitingIsNew'
      /\ \A g : Unbegun(g) => Unbegun(g)'
      /\ \A g \in Fetches \ {f} : Ended(g)' <=> Ended(g)
  BY <1>1, FinishSends
<1>3. TypeOK' /\ FlagIsRight' /\ AbortsAreOwn'
  <2>1. failed' \in SUBSET Fetches
    BY <1>1 DEF IInv, TypeOK
  <2>2. TypeOK'
    BY <1>1, <1>2, <2>1 DEF IInv, TypeOK, Kinds
  <2>3. FlagIsRight' /\ AbortsAreOwn'
    BY <1>1 DEF IInv, FlagIsRight, AbortsAreOwn
  <2> QED
    BY <2>2, <2>3
<1>4. New(stdin', msgQueue')
  BY <1>1 DEF IInv, FetchesAreNew, New
<1>5. FetchesAreNew'
  BY <1>2, <1>4, KeptNew
<1>6. CutShortOnlyByOwner'
  BY <1>1, <1>2 DEF IInv, CutShortOnlyByOwner
<1> QED
  BY <1>2, <1>3, <1>5, <1>6 DEF IInv

LEMMA WaitEndsKeeps ==
    ASSUME IInv, WaitEnds
    PROVE  IInv'
<1>1. /\ waiting # NoFetch
      /\ answered' = FALSE /\ waitForReply' = FALSE /\ posted' = posted + 1
      /\ requestQueue' = requestQueue \cup {waiting} /\ waiting' = NoFetch
      /\ UNCHANGED <<stdin, fetched, aborted, asking, msgQueue, frame, left, failed, sent>>
  BY DEF WaitEnds, PostActivated, Created, apps
<1>2. waiting \in Fetches /\ waiting \in fetched /\ sent[waiting] = <<>>
  BY <1>1 DEF IInv, TypeOK, WaitingIsNew
<1>3. TypeOK' /\ FlagIsRight' /\ AbortsAreOwn'
  <2>1. posted' \in Nat /\ requestQueue' \in SUBSET Fetches
    BY <1>1, <1>2 DEF IInv, TypeOK
  <2>2. TypeOK'
    BY <1>1, <2>1 DEF IInv, TypeOK
  <2>3. FlagIsRight' /\ AbortsAreOwn'
    BY <1>1 DEF IInv, FlagIsRight, AbortsAreOwn
  <2> QED
    BY <2>2, <2>3
<1>4. \A f \in Fetches : Unbegun(f) => Unbegun(f)'
  BY <1>1, FetchesAssumption DEF Unbegun
<1>5. FetchesAreNew'
  <2>1. /\ \A i \in DOMAIN stdin : stdin[i] \in Msgs
        /\ \A i \in DOMAIN msgQueue : msgQueue[i] \in Msgs
    BY DEF IInv, TypeOK
  <2>2. /\ \A i \in DOMAIN stdin : IsFetch(stdin[i]) => stdin[i].of \in Fetches
        /\ \A i \in DOMAIN msgQueue : IsFetch(msgQueue[i]) => msgQueue[i].of \in Fetches
    BY <2>1, MessageFacts DEF IsFetch
  <2> QED
    BY <1>1, <1>4, <2>2 DEF IInv, FetchesAreNew
<1>6. WaitingIsNew' /\ OnlyFetchedAreServed'
  BY <1>1, <1>2 DEF IInv, WaitingIsNew, OnlyFetchedAreServed
<1>7. AnswersHaveShape' /\ CutShortOnlyByOwner'
  <2>1. \A f \in Fetches : sent[f] # <<>> => f # waiting
    BY <1>2
  <2> QED
    BY <1>1, <2>1, AtIsPlaces DEF IInv, AnswersHaveShape, CutShortOnlyByOwner, Ended
<1> QED
  BY <1>3, <1>5, <1>6, <1>7 DEF IInv

LEMMA DrainKeeps ==
    ASSUME IInv, Drain
    PROVE  IInv'
<1>1. /\ waiting = NoFetch /\ msgQueue # <<>> /\ DispatchMsg(Head(msgQueue))
      /\ msgQueue' = Tail(msgQueue) /\ stdin' = stdin /\ UNCHANGED <<apps, frame, posted>>
  BY DEF Drain
<1>2. Taken(Head(msgQueue), stdin, Tail(msgQueue))
  BY <1>1, TakenFromQueue
<1> QED
  BY <1>1, <1>2, DispatchKeeps

LEMMA ReadKeeps ==
    ASSUME IInv, Read
    PROVE  IInv'
<1>1. CASE Deferred(Head(stdin))
  <2>1. /\ stdin # <<>> /\ stdin' = Tail(stdin)
        /\ msgQueue' = Append(msgQueue, Head(stdin))
        /\ UNCHANGED <<fetched, aborted, asking, waitForReply, answered, frame, waiting,
                       posted, requestQueue, left, failed, sent>>
    BY <1>1 DEF Read, apps, replies
  <2> QED
    BY <2>1, DeferKeeps
<1>2. CASE ~Deferred(Head(stdin))
  <2>1. /\ stdin # <<>> /\ stdin' = Tail(stdin) /\ msgQueue' = msgQueue
        /\ DispatchMsg(Head(stdin)) /\ UNCHANGED <<apps, frame, posted>>
    BY <1>2 DEF Read
  <2>2. waiting # NoFetch => Head(stdin).type = "COOKIE_GET_RETURN"
    BY <1>2 DEF Deferred, IInv, FlagIsRight
  <2>3. Taken(Head(stdin), Tail(stdin), msgQueue)
    BY <2>1, TakenFromStdin
  <2> QED
    BY <2>1, <2>2, <2>3, DispatchKeeps
<1> QED
  BY <1>1, <1>2

LEMMA InvInit == Init => IInv
<1> SUFFICES ASSUME Init
             PROVE  IInv
  OBVIOUS
<1>1. TypeOK
  <2>1. /\ stdin \in Seq(Msgs) /\ msgQueue \in Seq(Msgs)
        /\ sent \in [Fetches -> Seq({"META", "DATA", "END"})]
    BY DEF Init
  <2>2. /\ fetched \in SUBSET Fetches /\ aborted \in SUBSET Fetches
        /\ requestQueue \in SUBSET Fetches /\ failed \in SUBSET Fetches
        /\ asking \in BOOLEAN /\ waitForReply \in BOOLEAN /\ answered \in BOOLEAN
        /\ frame \in Frames /\ waiting \in Fetches \cup {NoFetch} /\ posted \in Nat
        /\ left \in [Fetches -> 0..MaxChunks]
    BY DEF Init, Frames
  <2> QED
    BY <2>1, <2>2 DEF TypeOK
<1>2. \A f \in Fetches : sent[f] = <<>>
  BY DEF Init
<1>3. \A f \in Fetches : ~Ended(f)
  BY <1>2 DEF Ended, At
<1> QED
  BY <1>1, <1>2, <1>3
     DEF Init, IInv, FlagIsRight, AbortsAreOwn, FetchesAreNew, WaitingIsNew,
         OnlyFetchedAreServed, AnswersHaveShape, CutShortOnlyByOwner

LEMMA InvNext == IInv /\ [Next]_vars => IInv'
<1> SUFFICES ASSUME IInv, [Next]_vars
             PROVE  IInv'
  OBVIOUS
<1>1. CASE DataReadable \/ PostedCall \/ DrainEnds \/ ReadEnds
  <2>1. /\ UNCHANGED <<stdin, fetched, aborted, asking, msgQueue, waitForReply,
                       waiting, requestQueue, left, failed, sent>>
        /\ answered' \in BOOLEAN /\ frame' \in Frames /\ posted' \in Nat
    BY <1>1 DEF DataReadable, PostedCall, DrainEnds, ReadEnds, apps, replies, IInv, TypeOK,
                Frames
  <2> QED
    BY <2>1, Inside
<1>2. CASE Drain
  BY <1>2, DrainKeeps
<1>3. CASE Read
  BY <1>3, ReadKeeps
<1>4. CASE WaitEnds
  BY <1>4, WaitEndsKeeps
<1>5. CASE CookieAnswers
  <2> DEFINE m == [type |-> "COOKIE_GET_RETURN", of |-> NoFetch]
  <2>1. m \in Msgs /\ ~IsAbort(m) /\ ~IsFetch(m)
    BY DEF Msgs, IsAbort, IsFetch
  <2>2. /\ stdin' = Append(stdin, m) /\ asking' \in BOOLEAN
        /\ UNCHANGED <<fetched, aborted, msgQueue, waitForReply, answered, frame, waiting,
                       posted, requestQueue, left, failed, sent>>
    BY <1>5 DEF CookieAnswers, apps, pump, replies
  <2> HIDE DEF m
  <2>3. fetched' \in SUBSET Fetches /\ aborted' \in SUBSET Fetches
    BY <2>2 DEF IInv, TypeOK
  <2> QED
    BY <2>1, <2>2, <2>3, ArrivalKeeps
<1>6. ASSUME NEW f \in Fetches, AppFetches(f)
      PROVE  IInv'
  <2> DEFINE m == [type |-> "FETCH_URL", of |-> f]
  <2>1. m \in Msgs /\ ~IsAbort(m) /\ m.of = f
    BY DEF Msgs, IsAbort
  <2>2. /\ stdin' = Append(stdin, m) /\ f \notin fetched /\ fetched' = fetched \cup {f}
        /\ UNCHANGED <<aborted, asking, msgQueue, waitForReply, answered, frame, waiting,
                       posted, requestQueue, left, failed, sent>>
    BY <1>6 DEF AppFetches, pump, replies
  <2> HIDE DEF m
  <2>3. fetched' \in SUBSET Fetches /\ aborted' \in SUBSET Fetches /\ asking' \in BOOLEAN
    BY <2>2 DEF IInv, TypeOK
  <2> QED
    BY <2>1, <2>2, <2>3, ArrivalKeeps
<1>7. ASSUME NEW f \in Fetches, AppAborts(f)
      PROVE  IInv'
  <2> DEFINE m == [type |-> "FETCH_URL_ABORT", of |-> f]
  <2>1. m \in Msgs /\ ~IsFetch(m) /\ m.of = f
    BY DEF Msgs, IsFetch
  <2>2. /\ stdin' = Append(stdin, m) /\ aborted' = aborted \cup {f}
        /\ UNCHANGED <<fetched, asking, msgQueue, waitForReply, answered, frame, waiting,
                       posted, requestQueue, left, failed, sent>>
    BY <1>7 DEF AppAborts, pump, replies
  <2> HIDE DEF m
  <2>3. fetched' \in SUBSET Fetches /\ aborted' \in SUBSET Fetches /\ asking' \in BOOLEAN
    BY <2>2 DEF IInv, TypeOK
  <2> QED
    BY <2>1, <2>2, <2>3, ArrivalKeeps
<1>8. ASSUME NEW f \in Fetches, MetaDataChanged(f) \/ ReadyRead(f)
      PROVE  IInv'
  BY <1>8, SignalKeeps
<1>9. ASSUME NEW f \in Fetches, Finished(f)
      PROVE  IInv'
  BY <1>9, FinishedKeeps
<1>10. CASE UNCHANGED vars
  <2>1. /\ UNCHANGED <<stdin, fetched, aborted, asking, msgQueue, waitForReply,
                       waiting, requestQueue, left, failed, sent>>
        /\ answered' \in BOOLEAN /\ frame' \in Frames /\ posted' \in Nat
    BY <1>10 DEF vars, IInv, TypeOK
  <2> QED
    BY <2>1, Inside
<1> QED
  BY <1>1, <1>2, <1>3, <1>4, <1>5, <1>6, <1>7, <1>8, <1>9, <1>10 DEF Next, Runs

LEMMA NetworkInvariant == Spec => []IInv
BY InvInit, InvNext, PTL DEF Spec

\* Every variable keeps its type; in particular a listed request is a fetch
\* whose reply exists (TypeOK).
THEOREM NetworkTypeCorrectness == Spec => []TypeOK
<1>1. IInv => TypeOK
  BY DEF IInv
<1> QED
  BY <1>1, NetworkInvariant, PTL

\* An answer ends before its data only when its own web app has aborted it or
\* the network has failed, whoever uses the same URL id (CutShortOnlyByOwner).
THEOREM AnswersAreCutShortByOwnersOnly == Spec => []CutShortOnlyByOwner
<1>1. IInv => CutShortOnlyByOwner
  BY DEF IInv
<1> QED
  BY <1>1, NetworkInvariant, PTL

\* A request begins to wait only when none waits, and the flag says so: the
\* assertions at Manager.cpp:198 and 209 hold (OneWaitAtATime).
THEOREM WaitsNeverNest == Spec => OneWaitAtATime
<1> DEFINE Step == waiting' # waiting => (waiting = NoFetch) = ~waitForReply
                                        /\ (waiting = NoFetch \/ waiting' = NoFetch)
<1>1. IInv /\ [Next]_vars => [Step]_vars
  <2> SUFFICES ASSUME IInv, Next, waiting' # waiting
               PROVE  Step
    OBVIOUS
  <2>1. (waiting = NoFetch) = ~waitForReply
    BY DEF IInv, FlagIsRight, TypeOK
  <2>2. CASE WaitEnds
    BY <2>1, <2>2 DEF WaitEnds
  <2>3. CASE Drain
    BY <2>1, <2>3 DEF Drain
  <2>4. CASE Read
    <3>1. CASE waiting = NoFetch
      BY <2>1, <3>1
    <3>2. CASE waiting # NoFetch
      <4>1. waitForReply
        BY <3>2 DEF IInv, FlagIsRight
      <4>2. waiting' = waiting
        <5>1. CASE Deferred(Head(stdin))
          BY <2>4, <5>1 DEF Read
        <5>2. CASE ~Deferred(Head(stdin))
          <6>1. Head(stdin).type = "COOKIE_GET_RETURN" /\ DispatchMsg(Head(stdin))
            BY <2>4, <4>1, <5>2 DEF Read, Deferred
          <6> QED
            BY <6>1 DEF DispatchMsg
        <5> QED
          BY <5>1, <5>2
      <4> QED
        BY <4>2
    <3> QED
      BY <3>1, <3>2
  <2>5. CASE DataReadable \/ PostedCall \/ DrainEnds \/ ReadEnds \/ CookieAnswers
    BY <2>5 DEF DataReadable, PostedCall, DrainEnds, ReadEnds, CookieAnswers, pump
  <2>6. CASE \E f \in Fetches : \/ MetaDataChanged(f) \/ ReadyRead(f) \/ Finished(f)
                                \/ AppFetches(f) \/ AppAborts(f)
    BY <2>6 DEF MetaDataChanged, ReadyRead, Finished, AppFetches, AppAborts, pump
  <2> QED
    BY <2>2, <2>3, <2>4, <2>5, <2>6 DEF Next, Runs
<1> QED
  BY <1>1, NetworkInvariant, PTL DEF Spec, OneWaitAtATime

-----------------------------------------------------------------------------
\* The refinement of UrlStream

LEMMA PlacesAreFinite ==
    ASSUME NEW s \in Seq(Kinds), NEW msg
    PROVE  IsFiniteSet(Places(s, msg)) /\ Cardinality(Places(s, msg)) \in Nat
<1>1. Len(s) \in Nat /\ DOMAIN s = 1..Len(s)
  OBVIOUS
<1>2. IsFiniteSet(1..Len(s))
  BY <1>1, FS_Interval
<1>3. Places(s, msg) \in SUBSET (1..Len(s))
  BY <1>1 DEF Places
<1> QED
  BY <1>2, <1>3, FS_Subset, FS_CardinalityType

\* The phase and the number of chunks of one answer
PhaseOf(s) ==
    CASE s = <<>>                                                     -> "silent"
      [] Places(s, "META") = {1} /\ Places(s, "END") = {}             -> "open"
      [] Places(s, "META") = {1} /\ Places(s, "END") = {Len(s)}       -> "ended"
      [] OTHER                                                        -> "broken"
ChunksOf(s) == Cardinality(Places(s, "DATA"))

PhaseBar == [f \in Fetches |-> Phase(f)]
ChunksBar == [f \in Fetches |-> Cardinality(At(f, "DATA"))]

LEMMA BarsAreOfSent ==
    /\ PhaseBar = [f \in Fetches |-> PhaseOf(sent[f])]
    /\ PhaseBar' = [f \in Fetches |-> PhaseOf(sent'[f])]
    /\ ChunksBar = [f \in Fetches |-> ChunksOf(sent[f])]
    /\ ChunksBar' = [f \in Fetches |-> ChunksOf(sent'[f])]
BY DEF PhaseBar, ChunksBar, Phase, PhaseOf, ChunksOf, Ended, At, Places

LEMMA PhasesOfLonger ==
    ASSUME NEW s \in Seq(Kinds), Open(s)
    PROVE  /\ PhaseOf(s) = IF s = <<>> THEN "silent" ELSE "open"
           /\ PhaseOf(Longer(s, "DATA")) = "open"
           /\ PhaseOf(Longer(s, "END")) = "ended"
           /\ ChunksOf(Longer(s, "DATA")) = ChunksOf(s) + 1
           /\ ChunksOf(Longer(s, "END")) = ChunksOf(s)
           /\ s = <<>> => ChunksOf(s) = 0
           /\ PhaseOf(<<"META">>) = "open" /\ ChunksOf(<<"META">>) = 0
           /\ ChunksOf(s) \in Nat
<1>1. PhaseOf(s) = IF s = <<>> THEN "silent" ELSE "open"
  <2>1. CASE s = <<>>
    <3>1. Places(s, "META") # {1}
      BY <2>1 DEF Places
    <3> QED
      BY <2>1, <3>1 DEF PhaseOf
  <2>2. CASE s # <<>>
    <3>1. Places(s, "META") = {1} /\ Places(s, "END") = {}
      BY <2>2 DEF Open
    <3>2. Places(s, "END") # {Len(s)}
      BY <3>1
    <3> QED
      BY <2>2, <3>1, <3>2 DEF PhaseOf
  <2> QED
    BY <2>1, <2>2
<1>2. Places(s, "END") = {} /\ (s = <<>> => Places(s, "DATA") = {})
  BY DEF Open, Places
<1>3. PhaseOf(Longer(s, "DATA")) = "open" /\ ChunksOf(Longer(s, "DATA")) = ChunksOf(s) + 1
  <2> DEFINE r == Longer(s, "DATA")
  <2>1. /\ r # <<>> /\ Len(r) \in Nat \ DOMAIN s /\ Places(r, "META") = {1}
        /\ Places(r, "DATA") = Places(s, "DATA") \cup {Len(r)}
        /\ Places(r, "END") = {}
    BY <1>2, LongerAnswer
  <2> HIDE DEF r
  <2>2. Len(r) \notin Places(s, "DATA")
    BY <2>1 DEF Places
  <2>3. Cardinality(Places(r, "DATA")) = Cardinality(Places(s, "DATA")) + 1
    BY <2>1, <2>2, PlacesAreFinite, FS_AddElement
  <2> QED
    BY <2>1, <2>3 DEF PhaseOf, ChunksOf, r
<1>4. PhaseOf(Longer(s, "END")) = "ended" /\ ChunksOf(Longer(s, "END")) = ChunksOf(s)
  <2> DEFINE r == Longer(s, "END")
  <2>1. /\ r # <<>> /\ Places(r, "META") = {1}
        /\ Places(r, "END") = {Len(r)}
        /\ Places(r, "DATA") = Places(s, "DATA")
    BY <1>2, LongerAnswer
  <2> HIDE DEF r
  <2> QED
    BY <2>1 DEF PhaseOf, ChunksOf, r
<1>5. PhaseOf(<<"META">>) = "open" /\ ChunksOf(<<"META">>) = 0
  BY FirstAnswer, FS_EmptySet DEF PhaseOf, ChunksOf
<1>6. s = <<>> => ChunksOf(s) = 0
  BY <1>2, FS_EmptySet DEF ChunksOf
<1>7. ChunksOf(s) \in Nat
  BY PlacesAreFinite DEF ChunksOf
<1> QED
  BY <1>1, <1>3, <1>4, <1>5, <1>6, <1>7

\* One more message in one answer is a step of UrlStream.
LEMMA SendIsStep ==
    ASSUME IInv, NEW g \in requestQueue,
           \/ sent[g] = <<>> /\ sent' = [sent EXCEPT ![g] = <<"META">>]
           \/ \E msg \in {"DATA", "END"} : sent' = [sent EXCEPT ![g] = Longer(sent[g], msg)]
    PROVE  Streams!Next
<1>1. g \in Fetches /\ sent[g] \in Seq(Kinds) /\ Open(sent[g])
  BY ListedAreOpen
<1>2. sent \in [Fetches -> Seq(Kinds)]
  BY DEF IInv, TypeOK, Kinds
<1> DEFINE s == sent[g]
           r == sent'[g]
<1>3. /\ PhaseBar[g] = PhaseOf(s) /\ ChunksBar[g] = ChunksOf(s)
      /\ PhaseBar' = [PhaseBar EXCEPT ![g] = PhaseOf(r)]
      /\ ChunksBar' = [ChunksBar EXCEPT ![g] = ChunksOf(r)]
      /\ ChunksOf(r) = ChunksOf(s) => ChunksBar' = ChunksBar
      /\ PhaseOf(r) = PhaseOf(s) => PhaseBar' = PhaseBar
  <2>1. \A f \in Fetches \ {g} : sent'[f] = sent[f]
    BY <1>1, <1>2
  <2> HIDE DEF s, r
  <2>2. PhaseBar[g] = PhaseOf(s) /\ ChunksBar[g] = ChunksOf(s)
    BY <1>1, BarsAreOfSent DEF s
  <2>3. PhaseBar' = [PhaseBar EXCEPT ![g] = PhaseOf(r)]
    BY <1>1, <2>1, BarsAreOfSent DEF r
  <2>4. ChunksBar' = [ChunksBar EXCEPT ![g] = ChunksOf(r)]
    BY <1>1, <2>1, BarsAreOfSent DEF r
  <2>5. ChunksOf(r) = ChunksOf(s) => ChunksBar' = ChunksBar
    BY <1>1, <2>2, <2>4, BarsAreOfSent
  <2>6. PhaseOf(r) = PhaseOf(s) => PhaseBar' = PhaseBar
    BY <1>1, <2>2, <2>3, BarsAreOfSent
  <2> QED
    BY <2>2, <2>3, <2>4, <2>5, <2>6
<1>4. CASE s = <<>> /\ r = <<"META">>
  <2>1. PhaseOf(s) = "silent" /\ PhaseOf(r) = "open" /\ ChunksOf(s) = 0 /\ ChunksOf(r) = 0
    BY <1>1, <1>4, PhasesOfLonger
  <2>2. Streams!Meta(g)
    BY <1>3, <2>1 DEF Streams!Meta, PhaseBar, ChunksBar
  <2> QED
    BY <1>1, <2>2 DEF Streams!Next
<1>5. CASE r = Longer(s, "DATA")
  <2>1. /\ PhaseOf(s) = IF s = <<>> THEN "silent" ELSE "open"
        /\ PhaseOf(r) = "open" /\ ChunksOf(r) = ChunksOf(s) + 1
        /\ s = <<>> => ChunksOf(s) = 0
    BY <1>1, <1>5, PhasesOfLonger
  <2>2. CASE s = <<>>
    <3>1. Streams!MetaAndData(g)
      BY <1>3, <2>1, <2>2 DEF Streams!MetaAndData, PhaseBar, ChunksBar
    <3> QED
      BY <1>1, <3>1 DEF Streams!Next
  <2>3. CASE s # <<>>
    <3>1. PhaseBar' = PhaseBar
      BY <1>3, <2>1, <2>3
    <3>2. Streams!Data(g)
      BY <1>3, <2>1, <2>3, <3>1 DEF Streams!Data, PhaseBar, ChunksBar
    <3> QED
      BY <1>1, <3>2 DEF Streams!Next
  <2> QED
    BY <2>2, <2>3
<1>6. CASE r = Longer(s, "END")
  <2>1. /\ PhaseOf(s) = IF s = <<>> THEN "silent" ELSE "open"
        /\ PhaseOf(r) = "ended" /\ ChunksOf(r) = ChunksOf(s)
    BY <1>1, <1>6, PhasesOfLonger
  <2>2. Streams!MetaAndEnd(g) \/ Streams!End(g)
    BY <1>3, <2>1 DEF Streams!MetaAndEnd, Streams!End, PhaseBar, ChunksBar
  <2> QED
    BY <1>1, <2>2 DEF Streams!Next
<1> QED
  BY <1>1, <1>2, <1>4, <1>5, <1>6

LEMMA RefinementInit == Init => Streams!Init
<1> SUFFICES ASSUME Init
             PROVE  Streams!Init
  OBVIOUS
<1>1. \A f \in Fetches : sent[f] = <<>>
  BY DEF Init
<1>2. \A f \in Fetches : Phase(f) = "silent" /\ At(f, "DATA") = {}
  BY <1>1 DEF Phase, At
<1> QED
  BY <1>2, FS_EmptySet DEF Streams!Init

LEMMA RefinementNext == IInv /\ [Next]_vars => [Streams!Next]_(Streams!vars)
<1> SUFFICES ASSUME IInv, [Next]_vars, ~UNCHANGED Streams!vars
             PROVE  Streams!Next
  OBVIOUS
<1>1. sent' # sent
  <2> SUFFICES ASSUME sent' = sent
               PROVE  FALSE
    OBVIOUS
  <2>1. PhaseBar' = PhaseBar /\ ChunksBar' = ChunksBar
    BY BarsAreOfSent
  <2> QED
    BY <2>1 DEF Streams!vars, PhaseBar, ChunksBar
<1>2. ASSUME NEW g \in requestQueue, Finish(g)
      PROVE  Streams!Next
  <2>1. sent' = [sent EXCEPT ![g] = Longer(sent[g], "END")]
    BY <1>2 DEF Finish, Send, WithMeta, Longer
  <2> QED
    BY <2>1, SendIsStep
<1>3. ASSUME NEW m \in Msgs, DispatchMsg(m)
      PROVE  Streams!Next
  <2>1. PICK g \in AbortTargets(m.of) : Finish(g)
    <3>1. m.type = "FETCH_URL_ABORT"
      BY <1>1, <1>3, MessageFacts DEF DispatchMsg, replies
    <3> QED
      BY <1>1, <1>3, <3>1 DEF DispatchMsg
  <2> QED
    BY <1>2, <2>1 DEF AbortTargets
<1>4. ASSUME NEW f \in Fetches, MetaDataChanged(f)
      PROVE  Streams!Next
  <2>1. /\ f \in requestQueue /\ sent[f] = <<>>
        /\ sent' = [sent EXCEPT ![f] = @ \o <<"META">>]
    BY <1>4 DEF MetaDataChanged, Send
  <2>2. sent[f] \o <<"META">> = <<"META">>
    BY <2>1
  <2>3. sent' = [sent EXCEPT ![f] = <<"META">>]
    BY <2>1, <2>2
  <2> QED
    BY <2>1, <2>3, SendIsStep
<1>5. ASSUME NEW f \in Fetches, ReadyRead(f)
      PROVE  Streams!Next
  <2>1. f \in requestQueue /\ sent' = [sent EXCEPT ![f] = Longer(sent[f], "DATA")]
    BY <1>5 DEF ReadyRead, Send, WithMeta, Longer
  <2> QED
    BY <2>1, SendIsStep
<1>6. ASSUME NEW f \in Fetches, Finished(f)
      PROVE  Streams!Next
  BY <1>2, <1>6 DEF Finished
<1>7. CASE Drain
  <2>1. msgQueue # <<>> /\ DispatchMsg(Head(msgQueue))
    BY <1>7 DEF Drain
  <2>2. Head(msgQueue) \in Msgs
    BY <2>1, FirstTaken DEF IInv, TypeOK
  <2> QED
    BY <1>3, <2>1, <2>2
<1>8. CASE Read
  <2>1. stdin # <<>> /\ DispatchMsg(Head(stdin))
    BY <1>1, <1>8 DEF Read, replies
  <2>2. Head(stdin) \in Msgs
    BY <2>1, FirstTaken DEF IInv, TypeOK
  <2> QED
    BY <1>3, <2>1, <2>2
<1>9. CASE \/ DataReadable \/ PostedCall \/ DrainEnds \/ ReadEnds \/ WaitEnds \/ CookieAnswers
           \/ \E f \in Fetches : AppFetches(f) \/ AppAborts(f)
           \/ UNCHANGED vars
  BY <1>1, <1>9 DEF DataReadable, PostedCall, DrainEnds, ReadEnds, WaitEnds, CookieAnswers,
                    AppFetches, AppAborts, replies, vars
<1> QED
  BY <1>4, <1>5, <1>6, <1>7, <1>8, <1>9 DEF Next, Runs

\* For every web app and URL the network process sends one metadata message, then
\* data, then one end and nothing more, whatever is fetched, waits, fails or is
\* aborted meanwhile: Network implements UrlStream (KeepsStreamPromise).
THEOREM NetworkImplementsUrlStream == Spec => KeepsStreamPromise
<1>1. Spec => Streams!Init /\ [][Streams!Next]_(Streams!vars)
  BY RefinementInit, RefinementNext, NetworkInvariant, PTL DEF Spec
<1> QED
  BY <1>1 DEF KeepsStreamPromise, Streams!Spec

-----------------------------------------------------------------------------
\* No fetch is lost on its way, and the pump never stalls

\* The messages of a pipe when one is taken from it, and when one is put into it
LEMMA OnTheRest ==
    ASSUME NEW q \in Seq(Msgs), q # <<>>, NEW m, On(q, m), m # Head(q)
    PROVE  On(Tail(q), m)
<1>1. PICK i \in DOMAIN q : q[i] = m
  BY DEF On
<1>2. i - 1 \in DOMAIN Tail(q) /\ Tail(q)[i - 1] = q[i]
  BY <1>1
<1> QED
  BY <1>1, <1>2 DEF On

LEMMA OnMore ==
    ASSUME NEW q \in Seq(Msgs), NEW x \in Msgs
    PROVE  On(Append(q, x), x) /\ \A m : On(q, m) => On(Append(q, x), m)
<1>1. /\ Len(q) + 1 \in DOMAIN Append(q, x) /\ Append(q, x)[Len(q) + 1] = x
      /\ \A i \in DOMAIN q : i \in DOMAIN Append(q, x) /\ Append(q, x)[i] = q[i]
  OBVIOUS
<1> QED
  BY <1>1 DEF On

\* A request that is listed has not ended, so whatever is sent for it, the others
\* stay ended.
LEMMA EndsStay ==
    ASSUME IInv,
           sent' = sent \/ \E g \in requestQueue : \E x : sent' = [sent EXCEPT ![g] = x],
           NEW f \in Fetches, Ended(f)
    PROVE  Ended(f)'
<1>1. f \notin requestQueue /\ sent \in [Fetches -> Seq(Kinds)]
  <2>1. sent[f] # <<>>
    BY DEF Ended, At
  <2> QED
    BY <2>1 DEF IInv, AnswersHaveShape, TypeOK, Kinds
<1>2. sent'[f] = sent[f]
  BY <1>1
<1> QED
  BY <1>2, AtIsPlaces DEF Ended

\* NetworkRequest::finish sends the end mark.
LEMMA FinishEnds ==
    ASSUME IInv, NEW g \in requestQueue, Finish(g)
    PROVE  /\ Ended(g)' /\ requestQueue' = requestQueue \ {g}
           /\ \E h \in requestQueue : \E x : sent' = [sent EXCEPT ![h] = x]
<1> DEFINE r == Longer(sent[g], "END")
<1>1. /\ g \in Fetches /\ sent[g] \in Seq(Kinds) /\ Open(sent[g])
      /\ sent \in [Fetches -> Seq(Kinds)]
  BY ListedAreOpen DEF IInv, TypeOK, Kinds
<1>2. Places(r, "END") = Places(sent[g], "END") \cup {Len(r)}
  BY <1>1, LongerAnswer
<1>3. sent' = [sent EXCEPT ![g] = r] /\ requestQueue' = requestQueue \ {g}
  BY DEF Finish, Send, WithMeta, Removed, Longer
<1> HIDE DEF r
<1>4. sent'[g] = r
  BY <1>1, <1>3
<1>5. Ended(g)'
  BY <1>2, <1>4, AtIsPlaces DEF Ended
<1> QED
  BY <1>3, <1>5

\* Past the pipe and the queue a fetch is being created, listed, or over.
Begun(f) == f = waiting \/ f \in requestQueue \/ Ended(f)

\* A message that is handled loses no fetch, neither its own nor others.
LEMMA DispatchWay ==
    ASSUME IInv, NEW m \in Msgs, DispatchMsg(m),
           waiting # NoFetch => m.type = "COOKIE_GET_RETURN",
           NEW f \in Fetches, Begun(f) \/ m = FetchMsg(f)
    PROVE  Begun(f)'
<1>1. m.type \in {"FETCH_URL", "FETCH_URL_ABORT", "COOKIE_GET_RETURN"} /\ f # NoFetch
  BY MessageFacts, FetchesAssumption
<1>2. CASE m.type = "FETCH_URL"
  <2>1. waiting' = m.of /\ UNCHANGED <<requestQueue, sent>> /\ waiting = NoFetch
    BY <1>2 DEF DispatchMsg, replies
  <2>2. CASE m = FetchMsg(f)
    BY <2>1, <2>2 DEF FetchMsg, Begun
  <2>3. CASE Begun(f)
    BY <1>1, <2>1, <2>3, AtIsPlaces DEF Begun, Ended
  <2> QED
    BY <2>2, <2>3
<1>3. CASE m.type = "FETCH_URL_ABORT"
  <2>1. Begun(f)
    BY <1>3 DEF FetchMsg
  <2>2. /\ waiting' = waiting
        /\ \/ UNCHANGED <<sent, requestQueue>>
           \/ \E g \in AbortTargets(m.of) : Finish(g)
    BY <1>3 DEF DispatchMsg
  <2>3. CASE UNCHANGED <<sent, requestQueue>>
    BY <2>1, <2>2, <2>3, AtIsPlaces DEF Begun, Ended
  <2>4. CASE \E g \in AbortTargets(m.of) : Finish(g)
    <3>1. PICK g \in requestQueue : Finish(g)
      BY <2>4 DEF AbortTargets
    <3>2. /\ Ended(g)' /\ requestQueue' = requestQueue \ {g}
          /\ Ended(f) => Ended(f)'
      BY <3>1, FinishEnds, EndsStay
    <3> QED
      BY <2>1, <2>2, <3>2 DEF Begun
  <2> QED
    BY <2>2, <2>3, <2>4
<1>4. CASE m.type = "COOKIE_GET_RETURN"
  <2>1. UNCHANGED <<waiting, requestQueue, sent>>
    BY <1>4 DEF DispatchMsg, replies
  <2>2. Begun(f)
    BY <1>4 DEF FetchMsg
  <2> QED
    BY <2>1, <2>2, AtIsPlaces DEF Begun, Ended
<1> QED
  BY <1>1, <1>2, <1>3, <1>4

\* A step outside of the handlers loses no fetch that is past the queue.
LEMMA StepWay ==
    ASSUME IInv, NEW f \in Fetches, Begun(f),
           \/ WaitEnds
           \/ \E g \in Fetches : MetaDataChanged(g) \/ ReadyRead(g) \/ Finished(g)
           \/ UNCHANGED <<waiting, requestQueue, sent>>
    PROVE  Begun(f)'
<1>1. CASE WaitEnds
  <2>1. requestQueue' = requestQueue \cup {waiting} /\ sent' = sent
    BY <1>1 DEF WaitEnds, Created
  <2> QED
    BY <2>1, AtIsPlaces DEF Begun, Ended
<1>2. ASSUME NEW g \in Fetches, MetaDataChanged(g) \/ ReadyRead(g) PROVE Begun(f)'
  <2>1. /\ UNCHANGED <<waiting, requestQueue>>
        /\ \E h \in requestQueue : \E x : sent' = [sent EXCEPT ![h] = x]
    BY <1>2 DEF MetaDataChanged, ReadyRead, Send, pump
  <2>2. Ended(f) => Ended(f)'
    BY <2>1, EndsStay
  <2> QED
    BY <2>1, <2>2 DEF Begun
<1>3. ASSUME NEW g \in Fetches, Finished(g) PROVE Begun(f)'
  <2>1. g \in requestQueue /\ Finish(g) /\ waiting' = waiting
    BY <1>3 DEF Finished, pump
  <2>2. /\ Ended(g)' /\ requestQueue' = requestQueue \ {g}
        /\ Ended(f) => Ended(f)'
    BY <2>1, FinishEnds, EndsStay
  <2> QED
    BY <2>1, <2>2 DEF Begun
<1>4. CASE UNCHANGED <<waiting, requestQueue, sent>>
  BY <1>4, AtIsPlaces DEF Begun, Ended
<1> QED
  BY <1>1, <1>2, <1>3, <1>4

\* Every step keeps every fetch that was asked for somewhere.
LEMMA FetchesStay == IInv /\ NoFetchIsLost /\ [Next]_vars => NoFetchIsLost'
<1> SUFFICES ASSUME IInv, NoFetchIsLost, [Next]_vars, NEW f \in fetched'
             PROVE  (On(stdin, FetchMsg(f)) \/ On(msgQueue, FetchMsg(f)) \/ Begun(f))'
  BY DEF NoFetchIsLost, Begun
<1> DEFINE m == FetchMsg(f)
<1>1. f \in Fetches /\ stdin \in Seq(Msgs) /\ msgQueue \in Seq(Msgs)
  BY InvNext DEF IInv, TypeOK
<1>2. f \in fetched => On(stdin, m) \/ On(msgQueue, m) \/ Begun(f)
  BY DEF NoFetchIsLost, Begun
<1>3. FetchMsg(f)' = m
  BY DEF FetchMsg
<1> HIDE DEF m
<1>4. CASE Drain
  <2>1. /\ waiting = NoFetch /\ msgQueue # <<>> /\ DispatchMsg(Head(msgQueue))
        /\ msgQueue' = Tail(msgQueue) /\ stdin' = stdin /\ f \in fetched
    BY <1>4 DEF Drain, apps
  <2>2. Head(msgQueue) \in Msgs
    BY <1>1, <2>1
  <2>3. CASE On(stdin, m)
    BY <1>3, <2>1, <2>3 DEF On
  <2>4. CASE Begun(f) \/ Head(msgQueue) = m
    <3>1. Begun(f)'
      BY <1>1, <2>1, <2>2, <2>4, DispatchWay DEF m
    <3> QED
      BY <3>1
  <2>5. CASE On(msgQueue, m) /\ Head(msgQueue) # m
    <3>1. On(Tail(msgQueue), m)
      BY <1>1, <2>1, <2>5, OnTheRest
    <3> QED
      BY <1>3, <2>1, <3>1 DEF On
  <2> QED
    BY <1>2, <2>1, <2>3, <2>4, <2>5
<1>5. CASE Read
  <2>1. stdin # <<>> /\ stdin' = Tail(stdin) /\ f \in fetched
    BY <1>5 DEF Read, apps
  <2>2. Head(stdin) \in Msgs
    BY <1>1, <2>1
  <2>3. CASE On(stdin, m) /\ Head(stdin) # m
    <3>1. On(Tail(stdin), m)
      BY <1>1, <2>1, <2>3, OnTheRest
    <3> QED
      BY <1>3, <2>1, <3>1 DEF On
  <2>4. CASE Deferred(Head(stdin))
    <3>1. /\ msgQueue' = Append(msgQueue, Head(stdin))
          /\ UNCHANGED <<waiting, requestQueue, sent>>
      BY <1>5, <2>4 DEF Read, replies
    <3>2. /\ On(msgQueue', Head(stdin))
          /\ On(msgQueue, m) => On(msgQueue', m)
      BY <1>1, <2>2, <3>1, OnMore
    <3>3. Begun(f) => Begun(f)'
      BY <1>1, <3>1, StepWay
    <3>4. CASE Head(stdin) = m
      BY <1>3, <3>2, <3>4 DEF On
    <3>5. CASE On(msgQueue, m)
      BY <1>3, <3>2, <3>5 DEF On
    <3> QED
      BY <1>2, <2>1, <2>3, <3>3, <3>4, <3>5
  <2>5. CASE ~Deferred(Head(stdin))
    <3>1. DispatchMsg(Head(stdin)) /\ msgQueue' = msgQueue
      BY <1>5, <2>5 DEF Read
    <3>2. waiting # NoFetch => Head(stdin).type = "COOKIE_GET_RETURN"
      BY <2>5 DEF Deferred, IInv, FlagIsRight
    <3>3. CASE Begun(f) \/ Head(stdin) = m
      <4>1. Begun(f)'
        BY <1>1, <2>2, <3>1, <3>2, <3>3, DispatchWay DEF m
      <4> QED
        BY <4>1
    <3>4. CASE On(msgQueue, m)
      BY <1>3, <3>1, <3>4 DEF On
    <3> QED
      BY <1>2, <2>1, <2>3, <3>3, <3>4
  <2> QED
    BY <2>4, <2>5
<1>6. ASSUME NEW x \in Msgs, stdin' = Append(stdin, x), f \notin fetched => x = m,
             UNCHANGED <<msgQueue, waiting, requestQueue, sent>>
      PROVE  On(stdin', m) \/ On(msgQueue', m) \/ Begun(f)'
  <2>1. On(stdin', x) /\ (On(stdin, m) => On(stdin', m))
    BY <1>1, <1>6, OnMore
  <2>2. Begun(f) => Begun(f)'
    BY <1>1, <1>6, StepWay
  <2> QED
    BY <1>2, <1>6, <2>1, <2>2
<1>7. ASSUME NEW g \in Fetches, AppFetches(g) \/ AppAborts(g)
      PROVE  On(stdin', m) \/ On(msgQueue', m) \/ Begun(f)'
  <2>1. CASE AppFetches(g)
    <3>1. FetchMsg(g) \in Msgs /\ (f \notin fetched => FetchMsg(g) = m)
      BY <2>1 DEF AppFetches, Msgs, FetchMsg, m
    <3> QED
      BY <1>6, <2>1, <3>1 DEF AppFetches, FetchMsg, pump, replies
  <2>2. CASE AppAborts(g)
    <3>1. [type |-> "FETCH_URL_ABORT", of |-> g] \in Msgs
      BY DEF Msgs
    <3> QED
      BY <1>6, <2>2, <3>1 DEF AppAborts, pump, replies
  <2> QED
    BY <1>7, <2>1, <2>2
<1>8. CASE CookieAnswers
  <2>1. [type |-> "COOKIE_GET_RETURN", of |-> NoFetch] \in Msgs
    BY DEF Msgs
  <2>2. On(stdin', m) \/ On(msgQueue', m) \/ Begun(f)'
    BY <1>6, <1>8, <2>1 DEF CookieAnswers, apps, pump, replies
  <2> QED
    BY <1>3, <2>2 DEF On
<1>9. CASE \/ WaitEnds \/ DrainEnds \/ ReadEnds \/ DataReadable \/ PostedCall \/ UNCHANGED vars
           \/ \E g \in Fetches : MetaDataChanged(g) \/ ReadyRead(g) \/ Finished(g)
  <2>1. UNCHANGED <<stdin, msgQueue, fetched>>
    BY <1>9 DEF WaitEnds, DrainEnds, ReadEnds, DataReadable, PostedCall, MetaDataChanged,
                ReadyRead, Finished, apps, pump, vars
  <2>2. \/ WaitEnds
        \/ \E g \in Fetches : MetaDataChanged(g) \/ ReadyRead(g) \/ Finished(g)
        \/ UNCHANGED <<waiting, requestQueue, sent>>
    BY <1>9 DEF DrainEnds, ReadEnds, DataReadable, PostedCall, replies, vars
  <2>3. Begun(f) => Begun(f)'
    BY <1>1, <2>2, StepWay
  <2> QED
    BY <1>2, <1>3, <2>1, <2>3 DEF On
<1> QED
  BY <1>3, <1>4, <1>5, <1>7, <1>8, <1>9 DEF Next, Runs, On

\* Every step keeps the answer of the one that waits on its way.
LEMMA AnswerStays == IInv /\ WaitIsAnswered /\ [Next]_vars => WaitIsAnswered'
<1> DEFINE m == [type |-> "COOKIE_GET_RETURN", of |-> NoFetch]
<1> SUFFICES ASSUME IInv, WaitIsAnswered, [Next]_vars, waiting' # NoFetch
             PROVE  asking' \/ answered' \/ On(stdin', m)
  BY DEF WaitIsAnswered, On
<1>1. stdin \in Seq(Msgs) /\ m \in Msgs
  BY DEF IInv, TypeOK, Msgs
<1>2. waiting # NoFetch => asking \/ answered \/ On(stdin, m)
  BY DEF WaitIsAnswered
<1>3. m.type = "COOKIE_GET_RETURN"
  OBVIOUS
<1> HIDE DEF m
<1>4. ASSUME NEW x \in Msgs, DispatchMsg(x)
      PROVE  \/ asking' \/ answered'
             \/ x # m /\ UNCHANGED <<waiting, asking, answered>>
  <2>1. x.type \in {"FETCH_URL", "FETCH_URL_ABORT", "COOKIE_GET_RETURN"}
    BY MessageFacts
  <2> QED
    BY <1>3, <1>4, <2>1 DEF DispatchMsg
<1>5. CASE Drain
  <2>1. Head(msgQueue) \in Msgs /\ DispatchMsg(Head(msgQueue)) /\ waiting = NoFetch
        /\ stdin' = stdin
    BY <1>5, FirstTaken DEF Drain, IInv, TypeOK
  <2> QED
    BY <1>2, <1>4, <2>1
<1>6. CASE Read
  <2>1. stdin # <<>> /\ stdin' = Tail(stdin) /\ Head(stdin) \in Msgs
    BY <1>1, <1>6, FirstTaken DEF Read
  <2>2. On(stdin, m) /\ Head(stdin) # m => On(stdin', m)
    BY <1>1, <2>1, OnTheRest
  <2>3. CASE Deferred(Head(stdin))
    <3>1. UNCHANGED <<waiting, asking, answered>> /\ Head(stdin) # m
      BY <1>3, <1>6, <2>3 DEF Read, Deferred
    <3> QED
      BY <1>2, <2>2, <3>1
  <2>4. CASE ~Deferred(Head(stdin))
    <3>1. DispatchMsg(Head(stdin))
      BY <1>6, <2>4 DEF Read
    <3> QED
      BY <1>2, <1>4, <2>1, <2>2, <3>1
  <2> QED
    BY <2>3, <2>4
<1>7. CASE CookieAnswers
  <2>1. stdin' = Append(stdin, m)
    BY <1>7 DEF CookieAnswers, m
  <2> QED
    BY <1>1, <2>1, OnMore
<1>8. ASSUME NEW x \in Msgs, stdin' = Append(stdin, x), UNCHANGED <<waiting, asking, answered>>
      PROVE  asking' \/ answered' \/ On(stdin', m)
  BY <1>1, <1>2, <1>8, OnMore
<1>9. ASSUME NEW f \in Fetches, AppFetches(f) \/ AppAborts(f)
      PROVE  asking' \/ answered' \/ On(stdin', m)
  <2>1. /\ [type |-> "FETCH_URL", of |-> f] \in Msgs
        /\ [type |-> "FETCH_URL_ABORT", of |-> f] \in Msgs
    BY DEF Msgs
  <2> QED
    BY <1>8, <1>9, <2>1 DEF AppFetches, AppAborts, pump
<1>10. CASE WaitEnds
  BY <1>10 DEF WaitEnds
<1>11. CASE \/ DrainEnds \/ ReadEnds \/ DataReadable \/ PostedCall \/ UNCHANGED vars
            \/ \E g \in Fetches : MetaDataChanged(g) \/ ReadyRead(g) \/ Finished(g)
  <2>1. UNCHANGED <<stdin, waiting, asking, answered>>
    BY <1>11 DEF DrainEnds, ReadEnds, DataReadable, PostedCall, MetaDataChanged,
                 ReadyRead, Finished, apps, pump, vars
  <2> QED
    BY <1>2, <2>1
<1> QED
  BY <1>5, <1>6, <1>7, <1>9, <1>10, <1>11 DEF Next, Runs

\* Every step leaves a queue that is not empty with somebody to empty it.
LEMMA DrainerStays == IInv /\ QueueHasDrainer /\ [Next]_vars => QueueHasDrainer'
<1> SUFFICES ASSUME IInv, QueueHasDrainer, [Next]_vars, msgQueue' # <<>>
             PROVE  waiting' # NoFetch \/ posted' > 0 \/ frame' \in {"drain", "flush"}
  BY DEF QueueHasDrainer
<1>1. posted \in Nat /\ stdin \in Seq(Msgs)
  BY DEF IInv, TypeOK
<1>2. CASE UNCHANGED <<msgQueue, waiting, posted, frame>>
  BY <1>2 DEF QueueHasDrainer
<1>3. CASE Drain
  BY <1>3 DEF Drain
<1>4. CASE DrainEnds
  BY <1>4 DEF DrainEnds
<1>5. CASE Read
  <2>1. CASE Deferred(Head(stdin))
    BY <1>5, <2>1 DEF Read, Deferred, IInv, FlagIsRight
  <2>2. CASE ~Deferred(Head(stdin))
    <3>1. UNCHANGED <<msgQueue, posted, frame>> /\ DispatchMsg(Head(stdin))
      BY <1>5, <2>2 DEF Read
    <3>2. Head(stdin) \in Msgs
      BY <1>1, <1>5, FirstTaken DEF Read
    <3>3. waiting # NoFetch => waiting' # NoFetch
      <4>1. Head(stdin).type = "FETCH_URL" => Head(stdin).of \in Fetches
        BY <3>2, MessageFacts
      <4>2. \/ waiting' = waiting
            \/ Head(stdin).type = "FETCH_URL" /\ waiting' = Head(stdin).of
        BY <3>1, <3>2, MessageFacts DEF DispatchMsg
      <4> QED
        BY <4>1, <4>2, FetchesAssumption
    <3> QED
      BY <3>1, <3>3 DEF QueueHasDrainer
  <2> QED
    BY <2>1, <2>2
<1>6. CASE ReadEnds
  BY <1>6 DEF ReadEnds, QueueHasDrainer
<1>7. CASE DataReadable
  BY <1>7 DEF DataReadable
<1>8. CASE PostedCall
  BY <1>8 DEF PostedCall, IInv, FlagIsRight
<1>9. CASE WaitEnds
  BY <1>1, <1>9 DEF WaitEnds, PostActivated
<1>10. CASE \/ CookieAnswers \/ UNCHANGED vars
            \/ \E f \in Fetches : \/ MetaDataChanged(f) \/ ReadyRead(f) \/ Finished(f)
                                  \/ AppFetches(f) \/ AppAborts(f)
  BY <1>2, <1>10 DEF CookieAnswers, MetaDataChanged, ReadyRead, Finished, AppFetches,
                     AppAborts, pump, vars
<1> QED
  BY <1>3, <1>4, <1>5, <1>6, <1>7, <1>8, <1>9, <1>10 DEF Next, Runs

\* When no call, no event, no answer and no reply is left to run, every fetch a web
\* app asked for has its end mark, and no request waits for cookies that do not
\* come: neither a fetch nor an abort is forgotten in m_msgQueue, for any web apps
\* and fetches.
THEOREM EveryFetchIsAnswered == Spec => []NothingIsStuck
<1>1. IInv /\ WayInv => NothingIsStuck
  <2> SUFFICES ASSUME IInv, WayInv, ~CanStep
               PROVE  /\ waiting = NoFetch /\ msgQueue = <<>>
                      /\ \A f \in fetched : Ended(f)
    BY DEF NothingIsStuck
  <2>1. waiting = NoFetch
    BY DEF CanStep, WayInv, WaitIsAnswered, On
  <2>2. frame = "idle" /\ stdin = <<>> /\ ~(posted > 0) /\ requestQueue = {}
    BY <2>1 DEF CanStep, InEventLoop
  <2>3. msgQueue = <<>>
    BY <2>1, <2>2 DEF WayInv, QueueHasDrainer
  <2>4. \A f \in fetched : f # NoFetch
    BY FetchesAssumption DEF IInv, TypeOK
  <2>5. \A m : ~On(stdin, m) /\ ~On(msgQueue, m)
    BY <2>2, <2>3 DEF On
  <2> QED
    BY <2>1, <2>2, <2>3, <2>4, <2>5 DEF WayInv, NoFetchIsLost
<1>2. Init => IInv /\ WayInv
  BY InvInit DEF Init, WayInv, NoFetchIsLost, WaitIsAnswered, QueueHasDrainer
<1>3. (IInv /\ WayInv) /\ [Next]_vars => (IInv /\ WayInv)'
  BY InvNext, FetchesStay, AnswerStays, DrainerStays DEF WayInv
<1> QED
  BY <1>1, <1>2, <1>3, PTL DEF Spec
=============================================================================
