--------------------------- MODULE SequenceLemmas ---------------------------
(***************************************************************************)
(* What happens to queues and byte streams when elements are added, taken  *)
(* or handed from one to the next: facts used in ServerProofs and          *)
(* SessionProofs.                                                          *)
(***************************************************************************)
EXTENDS Integers, Sequences, Functions, SequenceTheorems, TLAPS

\* What a queue holds after ThreadPool::submit, or the kernel, has added at its end.
LEMMA Appended ==
    ASSUME NEW S, NEW s \in Seq(S), NEW x \in S
    PROVE  /\ Append(s, x) \in Seq(S)
           /\ Range(Append(s, x)) = Range(s) \cup {x}
           /\ IsInjective(s) /\ x \notin Range(s) => IsInjective(Append(s, x))
<1>1. /\ Append(s, x) \in Seq(S) /\ Len(Append(s, x)) = Len(s) + 1
      /\ \A i \in 1 .. Len(s) : Append(s, x)[i] = s[i]
      /\ Append(s, x)[Len(s) + 1] = x
  BY AppendProperties
<1>2. Len(s) \in Nat /\ DOMAIN s = 1 .. Len(s) /\ DOMAIN Append(s, x) = 1 .. Len(s) + 1
  BY <1>1, LenProperties
<1>3. Range(Append(s, x)) = Range(s) \cup {x}
  BY <1>1, <1>2 DEF Range
<1>4. ASSUME IsInjective(s), x \notin Range(s) PROVE IsInjective(Append(s, x))
  <2>1. \A i \in 1 .. Len(s) : s[i] # x
    BY <1>2, <1>4 DEF Range
  <2> QED
    BY <1>1, <1>2, <1>4, <2>1 DEF IsInjective
<1> QED
  BY <1>1, <1>3, <1>4

\* What a queue holds after a worker, or accept, has taken from its front.
LEMMA Popped ==
    ASSUME NEW S, NEW s \in Seq(S), s # <<>>, IsInjective(s)
    PROVE  /\ Head(s) \in S /\ Head(s) \in Range(s)
           /\ Tail(s) \in Seq(S) /\ IsInjective(Tail(s))
           /\ Range(Tail(s)) = Range(s) \ {Head(s)}
<1>1. /\ Tail(s) \in Seq(S) /\ Len(Tail(s)) = Len(s) - 1 /\ Head(s) \in S /\ Head(s) = s[1]
      /\ \A i \in 1 .. Len(Tail(s)) : Tail(s)[i] = s[i + 1]
  BY HeadTailProperties
<1>2. Len(s) \in Nat /\ Len(s) # 0 /\ DOMAIN s = 1 .. Len(s) /\ DOMAIN Tail(s) = 1 .. Len(s) - 1
  BY <1>1, LenProperties, EmptySeq
<1>3. Head(s) \in Range(s)
  BY <1>1, <1>2 DEF Range
<1>4. IsInjective(Tail(s))
  BY <1>1, <1>2 DEF IsInjective
<1>5. Range(Tail(s)) \subseteq Range(s) \ {Head(s)}
  <2>1. ASSUME NEW i \in 1 .. Len(s) - 1 PROVE s[i + 1] \in Range(s) /\ s[i + 1] # s[1]
    BY <1>2, <2>1 DEF Range, IsInjective
  <2> QED
    BY <1>1, <1>2, <2>1 DEF Range
<1>6. Range(s) \ {Head(s)} \subseteq Range(Tail(s))
  <2>1. ASSUME NEW i \in 1 .. Len(s), s[i] # s[1] PROVE s[i] \in Range(Tail(s))
    <3>1. i - 1 \in DOMAIN Tail(s) /\ Tail(s)[i - 1] = s[i]
      BY <1>1, <1>2, <2>1
    <3> QED
      BY <3>1 DEF Range
  <2> QED
    BY <1>1, <1>2, <2>1 DEF Range
<1> QED
  BY <1>1, <1>3, <1>4, <1>5, <1>6

\* An element that moves over the border of two sequences leaves their
\* concatenation as it is.
LEMMA Moved ==
    ASSUME NEW S, NEW s \in Seq(S), NEW t \in Seq(S), t # <<>>
    PROVE  (s \o <<Head(t)>>) \o Tail(t) = s \o t
<1>1. Head(t) \in S /\ Tail(t) \in Seq(S) /\ <<Head(t)>> \in Seq(S)
  BY HeadTailProperties
<1>2. <<Head(t)>> \o Tail(t) = t
  BY <1>1, HeadTailProperties, ConcatProperties, SeqEqual, LenProperties, EmptySeq
<1> QED
  BY <1>1, <1>2, ConcatAssociative

\* Appending to the last of two sequences appends to their concatenation.
LEMMA AppendedLast ==
    ASSUME NEW S, NEW s \in Seq(S), NEW t \in Seq(S), NEW x \in S
    PROVE  s \o Append(t, x) = (s \o t) \o <<x>> /\ Append(s \o t, x) = (s \o t) \o <<x>>
<1>1. <<x>> \in Seq(S) /\ s \o t \in Seq(S)
  BY ConcatProperties
<1>2. Append(t, x) = t \o <<x>> /\ Append(s \o t, x) = (s \o t) \o <<x>>
  BY <1>1, AppendIsConcat
<1> QED
  BY <1>1, <1>2, ConcatAssociative

\* Three sequences that hold one stream of bytes: what has been received, what
\* is on its way, and what has still to be sent.
Joined(r, s, t) == (r \o s) \o t

\* send moves an element from t to s.
HandedOver(s, t, s1, t1) == t # <<>> /\ s1 = Append(s, Head(t)) /\ t1 = Tail(t)

\* recv moves any number of elements from s to r.
Got(r, s, r1, s1) ==
    \E n \in 1 .. Len(s) : r1 = r \o SubSeq(s, 1, n) /\ s1 = SubSeq(s, n + 1, Len(s))

\* A message, two halves, is taken from r.
Taken(r, r1) == Len(r) >= 2 /\ r1 = SubSeq(r, 3, Len(r))

\* Streams are joined to a stream, and empty ones add nothing.
LEMMA JoinedProperties ==
    ASSUME NEW S, NEW r \in Seq(S), NEW s \in Seq(S), NEW t \in Seq(S)
    PROVE  /\ Joined(r, s, t) \in Seq(S)
           /\ Joined(r, s, t) = <<>> <=> r = <<>> /\ s = <<>> /\ t = <<>>
           /\ Joined(<<>>, <<>>, t) = t
<1>1. r \o s \in Seq(S) /\ (r \o s) \o t \in Seq(S)
  BY ConcatProperties
<1>2. (r \o s) \o t = <<>> <=> r \o s = <<>> /\ t = <<>>
  BY <1>1, ConcatEqualIffEmpty
<1>3. r \o s = <<>> <=> r = <<>> /\ s = <<>>
  BY ConcatEqualIffEmpty
<1>4. (<<>> \o <<>>) \o t = t
  BY ConcatEmptySeq
<1> QED
  BY <1>1, <1>2, <1>3, <1>4 DEF Joined

\* A send leaves the stream as it is.
LEMMA HandedProperties ==
    ASSUME NEW S, NEW r \in Seq(S), NEW s \in Seq(S), NEW t \in Seq(S),
           NEW s1, NEW t1, HandedOver(s, t, s1, t1)
    PROVE  /\ s1 \in Seq(S) /\ t1 \in Seq(S)
           /\ t1 = <<>> <=> Len(t) = 1
           /\ Joined(r, s1, t1) = Joined(r, s, t)
<1>1. Head(t) \in S /\ Tail(t) \in Seq(S) /\ Len(Tail(t)) = Len(t) - 1 /\ Len(t) \in Nat \ {0}
  BY HeadTailProperties, EmptySeq DEF HandedOver
<1>2. Tail(t) = <<>> <=> Len(t) = 1
  <2> DEFINE u == Tail(t)
  <2>1. u \in Seq(S) /\ Len(u) = Len(t) - 1
    BY <1>1
  <2> HIDE DEF u
  <2>2. u = <<>> <=> Len(u) = 0
    BY <2>1, EmptySeq
  <2> QED
    BY <1>1, <2>1, <2>2 DEF u
<1>3. Append(s, Head(t)) \in Seq(S) /\ r \o s \in Seq(S)
  BY <1>1, AppendProperties, ConcatProperties
<1>4. r \o Append(s, Head(t)) = (r \o s) \o <<Head(t)>>
  BY <1>1, AppendedLast
<1>5. ((r \o s) \o <<Head(t)>>) \o Tail(t) = (r \o s) \o t
  BY <1>3, Moved DEF HandedOver
<1> QED
  BY <1>1, <1>2, <1>3, <1>4, <1>5 DEF HandedOver, Joined

\* A recv leaves the stream as it is.
LEMMA GotProperties ==
    ASSUME NEW S, NEW r \in Seq(S), NEW s \in Seq(S), NEW t,
           NEW r1, NEW s1, Got(r, s, r1, s1)
    PROVE  /\ r1 \in Seq(S) /\ s1 \in Seq(S) /\ s # <<>>
           /\ Joined(r1, s1, t) = Joined(r, s, t)
<1>1. PICK n \in 1 .. Len(s) : r1 = r \o SubSeq(s, 1, n) /\ s1 = SubSeq(s, n + 1, Len(s))
  BY DEF Got
<1> DEFINE a == SubSeq(s, 1, n)
           b == SubSeq(s, n + 1, Len(s))
<1>2. Len(s) \in Nat /\ s # <<>>
  BY LenProperties, EmptySeq
<1>3. a \in Seq(S) /\ b \in Seq(S)
  BY <1>2, SubSeqProperties
<1>4. a \o b = s
  BY <1>2, ConcatAdjacentSubSeq, SubSeqFull
<1> HIDE DEF a, b
<1>5. r \o a \in Seq(S)
  BY <1>3, ConcatProperties
<1>6. (r \o a) \o b = r \o (a \o b)
  BY <1>3, ConcatAssociative, SMTT(60)
<1>7. r1 \o s1 = r \o s
  BY <1>1, <1>4, <1>6 DEF a, b
<1> QED
  BY <1>1, <1>2, <1>3, <1>5, <1>7 DEF a, b, Joined

\* The same for two sequences.
Pair(s, t) == s \o t

\* The first message of two sequences is taken from the first.
LEMMA FirstTaken ==
    ASSUME NEW S, NEW s \in Seq(S), NEW t \in Seq(S), NEW s1, Taken(s, s1)
    PROVE  /\ s1 \in Seq(S) /\ Pair(s, t) \in Seq(S) /\ s[1] \in S /\ s[1] = Pair(s, t)[1]
           /\ Taken(Pair(s, t), Pair(s1, t))
<1> USE DEF Taken
<1>1. Len(s) \in Nat /\ Len(t) \in Nat /\ DOMAIN s = 1 .. Len(s) /\ s[1] \in S
  BY LenProperties, ElementOfSeq
<1>2. s \o t \in Seq(S) /\ Len(s \o t) = Len(s) + Len(t) /\ s[1] = (s \o t)[1]
  BY <1>1, ConcatProperties
<1>3. /\ SubSeq(s, 3, Len(s)) \in Seq(S) /\ Len(SubSeq(s, 3, Len(s))) = Len(s) - 2
      /\ \A i \in 1 .. Len(s) - 2 : SubSeq(s, 3, Len(s))[i] = s[i + 2]
  BY <1>1, SubSeqProperties
<1>4. /\ SubSeq(s \o t, 3, Len(s \o t)) \in Seq(S)
      /\ Len(SubSeq(s \o t, 3, Len(s \o t))) = Len(s) + Len(t) - 2
      /\ \A i \in 1 .. Len(s) + Len(t) - 2 : SubSeq(s \o t, 3, Len(s \o t))[i] = (s \o t)[i + 2]
  BY <1>1, <1>2, SubSeqProperties
<1>5. /\ SubSeq(s, 3, Len(s)) \o t \in Seq(S)
      /\ Len(SubSeq(s, 3, Len(s)) \o t) = Len(s) - 2 + Len(t)
  BY <1>1, <1>3, ConcatProperties
<1>6. ASSUME NEW i \in 1 .. Len(s) + Len(t) - 2
      PROVE  (SubSeq(s, 3, Len(s)) \o t)[i] = (s \o t)[i + 2]
  <2>1. CASE i <= Len(s) - 2
    BY <1>1, <1>3, <1>6, <2>1, ConcatProperties
  <2>2. CASE i > Len(s) - 2
    BY <1>1, <1>3, <1>6, <2>2, ConcatProperties
  <2> QED
    BY <1>1, <2>1, <2>2, SMTT(60)
<1>7. SubSeq(s, 3, Len(s)) \o t = SubSeq(s \o t, 3, Len(s \o t))
  <2> DEFINE a == SubSeq(s, 3, Len(s)) \o t
             b == SubSeq(s \o t, 3, Len(s \o t))
  <2>1. a \in Seq(S) /\ b \in Seq(S) /\ Len(a) = Len(b) /\ \A i \in 1 .. Len(a) : a[i] = b[i]
    BY <1>1, <1>4, <1>5, <1>6, SMTT(60)
  <2> HIDE DEF a, b
  <2>2. a = b
    BY <2>1, SeqEqual
  <2> QED
    BY <2>2 DEF a, b
<1>8. Pair(s1, t) = SubSeq(Pair(s, t), 3, Len(Pair(s, t)))
  BY <1>7, Zenon DEF Pair
<1>9. Pair(s, t) \in Seq(S) /\ Len(Pair(s, t)) >= 2 /\ s[1] = Pair(s, t)[1]
  BY <1>1, <1>2 DEF Pair
<1> HIDE DEF Taken
<1>10. Taken(Pair(s, t), Pair(s1, t))
  BY <1>8, <1>9, Zenon DEF Taken
<1>11. s1 \in Seq(S)
  BY <1>3, Zenon DEF Taken
<1> QED
  BY <1>1, <1>9, <1>10, <1>11

\* A message that is taken is the first of the stream.
LEMMA TakenProperties ==
    ASSUME NEW S, NEW r \in Seq(S), NEW s \in Seq(S), NEW t \in Seq(S), NEW r1, Taken(r, r1)
    PROVE  /\ r1 \in Seq(S) /\ r[1] \in S /\ r[1] = Joined(r, s, t)[1]
           /\ Taken(Joined(r, s, t), Joined(r1, s, t))
<1>1. /\ r1 \in Seq(S) /\ Pair(r, s) \in Seq(S) /\ r[1] \in S /\ r[1] = Pair(r, s)[1]
      /\ Taken(Pair(r, s), Pair(r1, s))
  BY FirstTaken
<1>2. Pair(r, s)[1] = Pair(Pair(r, s), t)[1] /\ Taken(Pair(Pair(r, s), t), Pair(Pair(r1, s), t))
  BY <1>1, FirstTaken
<1> QED
  BY <1>1, <1>2 DEF Joined, Pair

\* Two messages of two halves each.
LEMMA TwoMessages ==
    ASSUME NEW S, NEW x \in S, NEW y \in S
    PROVE  <<x, x>> \o <<y, y>> = <<x, x, y, y>> /\ <<x, x, y, y>> \in Seq(S) /\ <<y, y>> \in Seq(S)
<1> DEFINE a == <<x, x>>
           b == <<y, y>>
           c == <<x, x, y, y>>
<1>1. a \in Seq(S) /\ b \in Seq(S) /\ c \in Seq(S) /\ Len(a) = 2 /\ Len(b) = 2 /\ Len(c) = 4
  OBVIOUS
<1>2. /\ a \o b \in Seq(S) /\ Len(a \o b) = 4
      /\ \A i \in 1 .. 4 : (a \o b)[i] = IF i <= 2 THEN a[i] ELSE b[i - 2]
  <2> HIDE DEF a, b
  <2>1. /\ a \o b \in Seq(S) /\ Len(a \o b) = Len(a) + Len(b)
        /\ \A i \in 1 .. Len(a) + Len(b) : (a \o b)[i] = IF i <= Len(a) THEN a[i] ELSE b[i - Len(a)]
    BY <1>1, ConcatProperties
  <2>2. Len(a) + Len(b) = 4
    BY <1>1
  <2> QED
    BY <1>1, <2>1, <2>2
<1>3. \A i \in 1 .. 4 : (IF i <= 2 THEN a[i] ELSE b[i - 2]) = c[i]
  <2>1. \A i \in 1 .. 4 : i = 1 \/ i = 2 \/ i = 3 \/ i = 4
    OBVIOUS
  <2> QED
    BY <2>1
<1> HIDE DEF a, b, c
<1>4. a \o b = c
  BY <1>1, <1>2, <1>3, SeqEqual
<1> QED
  BY <1>1, <1>4 DEF a, b, c

\* What is left of one message, and of two, when the first is taken.
LEMMA RestOfMessages ==
    ASSUME NEW S, NEW x \in S, NEW y \in S, NEW z
    PROVE  /\ Taken(<<y, y>>, z) => z = <<>>
           /\ Taken(<<x, x, y, y>>, z) => z = <<y, y>>
<1>1. SubSeq(<<y, y>>, 3, Len(<<y, y>>)) = <<>>
  BY TwoMessages, SubSeqEmpty
<1>2. SubSeq(<<x, x, y, y>>, 3, Len(<<x, x, y, y>>)) = <<y, y>>
  <2> DEFINE c == <<x, x, y, y>>
             b == <<y, y>>
             d == SubSeq(c, 3, 4)
  <2>1. c \in Seq(S) /\ b \in Seq(S) /\ Len(c) = 4 /\ Len(b) = 2
    BY TwoMessages
  <2>2. d \in Seq(S) /\ Len(d) = 2 /\ \A i \in 1 .. 2 : d[i] = c[i + 2]
    <3> HIDE DEF c
    <3>1. 3 \in Int /\ 4 \in Int /\ \A i \in 3 .. 4 : c[i] \in S
      BY <2>1, LenProperties, SMTT(60)
    <3>2. /\ d \in Seq(S) /\ Len(d) = IF 3 <= 4 THEN 4 - 3 + 1 ELSE 0
          /\ \A i \in 1 .. 4 - 3 + 1 : d[i] = c[3 + i - 1]
      BY <2>1, <3>1, SubSeqProperties, SMTT(60)
    <3> HIDE DEF d
    <3> QED
      BY <3>2
  <2>3. \A i \in 1 .. 2 : c[i + 2] = b[i]
    OBVIOUS
  <2> HIDE DEF b, c, d
  <2>4. d = b
    BY <2>1, <2>2, <2>3, SeqEqual, SMTT(60)
  <2> QED
    BY <2>1, <2>4 DEF b, c, d
<1> QED
  BY <1>1, <1>2, Zenon DEF Taken
=============================================================================
