--------------------------- MODULE KVStore_proofs ---------------------------
(***************************************************************************)
(* For any keys, watches and writes and any capacity of the channels: an   *)
(* active watch of the in-memory key-value store misses no event, channels *)
(* are closed last, and watch contexts end for the reason they give.       *)
(***************************************************************************)
EXTENDS KVStore, TLAPS, SequenceTheorems

-----------------------------------------------------------------------------
(* Streams: what reading, forwarding and attaching make of an ordered one.  *)

Positive == Nat \ {0}

\* A goroutine takes the next revision in hand.
LEMMA OrderedTake ==
  ASSUME NEW p, NEW k, NEW d, NEW n \in Positive, Ordered(p, k, d, 0, n)
  PROVE  Ordered(p, k, d, n, n + 1)
BY DEF Ordered, Positive

\* It writes the revision in its hand to the channel.
LEMMA OrderedForward ==
  ASSUME NEW p \in Seq(Events), NEW k \in Keys, NEW d \in Positive, NEW h \in Positive,
         NEW n \in Positive, Ordered(p, k, d, h, n)
  PROVE  Ordered(Append(p, [key |-> k, rev |-> h]), k, d, 0, n)
<1> DEFINE e == [key |-> k, rev |-> h]
           q == Append(p, e)
<1>1. /\ Len(q) = Len(p) + 1 /\ Len(p) \in Nat /\ q[Len(p) + 1] = e
      /\ \A i \in 1..Len(p) : q[i] = p[i]
  OBVIOUS
<1>2. e.key = k /\ e.rev = h OBVIOUS
<1>3. n = h + 1 /\ d <= h /\ h # 0
  BY DEF Ordered, Positive
<1>a. \A i \in 1..Len(p) : p[i].key = k => p[i].rev \in d..h - 1
  BY DEF Ordered, Positive
<1>b. \A i, j \in 1..Len(p) :
        i < j /\ p[i].key = k /\ p[j].key = k => p[i].rev < p[j].rev
  BY DEF Ordered
<1>c. \A r \in d..h - 1 : \E i \in 1..Len(p) : p[i] = [key |-> k, rev |-> r]
  BY DEF Ordered, Positive
<1> HIDE DEF q, e
<1>4. \A i \in 1..Len(q) : q[i].key = k => q[i].rev \in d..n - 1
  <2> SUFFICES ASSUME NEW i \in 1..Len(q), q[i].key = k PROVE q[i].rev \in d..n - 1
    OBVIOUS
  <2>1. CASE i = Len(p) + 1 BY <2>1, <1>1, <1>2, <1>3 DEF Positive
  <2>2. CASE i # Len(p) + 1
    <3>1. i \in 1..Len(p) /\ q[i] = p[i] BY <2>2, <1>1
    <3>2. p[i].rev \in d..h - 1 BY <3>1, <1>a
    <3>3. QED BY <3>1, <3>2, <1>3 DEF Positive
  <2>3. QED BY <2>1, <2>2
<1>5. \A i, j \in 1..Len(q) :
        i < j /\ q[i].key = k /\ q[j].key = k => q[i].rev < q[j].rev
  <2> SUFFICES ASSUME NEW i \in 1..Len(q), NEW j \in 1..Len(q),
                      i < j, q[i].key = k, q[j].key = k
               PROVE  q[i].rev < q[j].rev
    OBVIOUS
  <2>1. i \in 1..Len(p) /\ q[i] = p[i] BY <1>1
  <2>2. CASE j = Len(p) + 1
    <3>1. p[i].rev \in d..h - 1 BY <2>1, <1>a
    <3>2. QED BY <2>1, <2>2, <3>1, <1>1, <1>2 DEF Positive
  <2>3. CASE j # Len(p) + 1
    <3>1. j \in 1..Len(p) /\ q[j] = p[j] BY <2>3, <1>1
    <3>2. QED BY <2>1, <3>1, <1>b
  <2>4. QED BY <2>2, <2>3
<1>6. \A r \in d..n - 1 : \E i \in 1..Len(q) : q[i] = [key |-> k, rev |-> r]
  <2> SUFFICES ASSUME NEW r \in d..n - 1 PROVE \E i \in 1..Len(q) : q[i] = [key |-> k, rev |-> r]
    OBVIOUS
  <2>1. CASE r = h
    <3>1. Len(p) + 1 \in 1..Len(q) BY <1>1
    <3>2. q[Len(p) + 1] = [key |-> k, rev |-> r] BY <2>1, <1>1 DEF e
    <3>3. QED BY <3>1, <3>2
  <2>2. CASE r # h
    <3>1. r \in d..h - 1 BY <2>2, <1>3 DEF Positive
    <3>2. PICK i \in 1..Len(p) : p[i] = [key |-> k, rev |-> r] BY <3>1, <1>c
    <3>3. i \in 1..Len(q) /\ q[i] = p[i] BY <1>1
    <3>4. QED BY <3>2, <3>3
  <2>3. QED BY <2>1, <2>2
<1>7. d <= n BY <1>3 DEF Positive
<1>8. Ordered(q, k, d, 0, n) BY <1>4, <1>5, <1>6, <1>7 DEF Ordered
<1>9. QED BY <1>8 DEF q, e

\* An event of another key in the channel changes nothing.
LEMMA OrderedForwardOther ==
  ASSUME NEW p \in Seq(Events), NEW e \in Events, NEW k, e.key # k,
         NEW d, NEW h, NEW n, Ordered(p, k, d, h, n)
  PROVE  Ordered(Append(p, e), k, d, h, n)
<1> DEFINE q == Append(p, e)
           upto == IF h # 0 THEN h ELSE n
<1>1. /\ Len(q) = Len(p) + 1 /\ Len(p) \in Nat /\ q[Len(p) + 1] = e
      /\ \A i \in 1..Len(p) : q[i] = p[i]
  OBVIOUS
<1>a. \A i \in 1..Len(p) : p[i].key = k => p[i].rev \in d..upto - 1 BY DEF Ordered
<1>b. \A i, j \in 1..Len(p) :
        i < j /\ p[i].key = k /\ p[j].key = k => p[i].rev < p[j].rev
  BY DEF Ordered
<1>c. \A r \in d..upto - 1 : \E i \in 1..Len(p) : p[i] = [key |-> k, rev |-> r]
  BY DEF Ordered
<1>d. (n # 0 => d <= upto) /\ (h # 0 => n = h + 1) BY DEF Ordered
<1> HIDE DEF q, upto
<1>2. \A i \in 1..Len(q) : q[i].key = k => i \in 1..Len(p) /\ q[i] = p[i] BY <1>1
<1>3. \A i \in 1..Len(p) : i \in 1..Len(q) /\ q[i] = p[i] BY <1>1
<1>4. \A i \in 1..Len(q) : q[i].key = k => q[i].rev \in d..upto - 1 BY <1>2, <1>a
<1>5. \A i, j \in 1..Len(q) :
        i < j /\ q[i].key = k /\ q[j].key = k => q[i].rev < q[j].rev
  BY <1>2, <1>b
<1>6. \A r \in d..upto - 1 : \E i \in 1..Len(q) : q[i] = [key |-> k, rev |-> r]
  BY <1>3, <1>c
<1>7. Ordered(q, k, d, h, n) BY <1>4, <1>5, <1>6, <1>d DEF Ordered, upto
<1>8. QED BY <1>7 DEF q

\* The reader reads an event: it is the one that was due.
LEMMA OrderedReceive ==
  ASSUME NEW p \in Seq(Events), p # <<>>, NEW k \in Keys, Head(p).key = k,
         NEW d \in Positive, NEW h \in Nat, NEW n \in Nat, Ordered(p, k, d, h, n)
  PROVE  /\ Head(p).rev = d /\ d < (IF h # 0 THEN h ELSE n)
         /\ Ordered(Tail(p), k, d + 1, h, n)
<1> DEFINE q == Tail(p)
           upto == IF h # 0 THEN h ELSE n
<1>1. /\ Len(p) \in Nat /\ Len(p) > 0 /\ Head(p) = p[1] /\ Len(q) = Len(p) - 1
      /\ \A i \in 1..Len(q) : q[i] = p[i + 1]
  BY HeadTailProperties
<1>u. upto \in Nat OBVIOUS
<1>a. \A i \in 1..Len(p) : p[i].key = k => p[i].rev \in d..upto - 1 BY DEF Ordered
<1>b. \A i, j \in 1..Len(p) :
        i < j /\ p[i].key = k /\ p[j].key = k => p[i].rev < p[j].rev
  BY DEF Ordered
<1>c. \A r \in d..upto - 1 : \E i \in 1..Len(p) : p[i] = [key |-> k, rev |-> r]
  BY DEF Ordered
<1>d. h # 0 => n = h + 1 BY DEF Ordered
<1> HIDE DEF q, upto
<1>2. 1 \in 1..Len(p) /\ p[1].key = k BY <1>1
<1>3. p[1].rev \in d..upto - 1 BY <1>2, <1>a
<1>4. d < upto /\ d \in d..upto - 1 BY <1>3, <1>u DEF Positive
<1>5. p[1].rev = d
  <2>1. PICK i \in 1..Len(p) : p[i] = [key |-> k, rev |-> d] BY <1>4, <1>c
  <2>2. p[i].key = k /\ p[i].rev = d BY <2>1
  <2>3. CASE i = 1 BY <2>2, <2>3
  <2>4. CASE i # 1
    <3>1. 1 < i BY <2>4
    <3>2. p[1].rev < p[i].rev BY <3>1, <2>2, <1>2, <1>b
    <3>3. QED BY <3>2, <2>2, <1>3, <1>u DEF Positive
  <2>5. QED BY <2>3, <2>4
<1>6. \A i \in 1..Len(q) : i + 1 \in 1..Len(p) /\ 1 < i + 1 /\ q[i] = p[i + 1] BY <1>1
<1>7. \A i \in 1..Len(q) : q[i].key = k => q[i].rev \in d + 1..upto - 1
  <2> SUFFICES ASSUME NEW i \in 1..Len(q), q[i].key = k PROVE q[i].rev \in d + 1..upto - 1
    OBVIOUS
  <2>1. i + 1 \in 1..Len(p) /\ 1 < i + 1 /\ q[i] = p[i + 1] BY <1>6
  <2>2. p[i + 1].rev \in d..upto - 1 BY <2>1, <1>a
  <2>3. p[1].rev < p[i + 1].rev BY <2>1, <1>2, <1>b
  <2>4. QED BY <2>1, <2>2, <2>3, <1>5, <1>u DEF Positive
<1>8. \A i, j \in 1..Len(q) :
        i < j /\ q[i].key = k /\ q[j].key = k => q[i].rev < q[j].rev
  <2> SUFFICES ASSUME NEW i \in 1..Len(q), NEW j \in 1..Len(q),
                      i < j, q[i].key = k, q[j].key = k
               PROVE  q[i].rev < q[j].rev
    OBVIOUS
  <2>1. i + 1 < j + 1 OBVIOUS
  <2>2. QED BY <2>1, <1>6, <1>b
<1>9. \A r \in d + 1..upto - 1 : \E i \in 1..Len(q) : q[i] = [key |-> k, rev |-> r]
  <2> SUFFICES ASSUME NEW r \in d + 1..upto - 1
               PROVE  \E i \in 1..Len(q) : q[i] = [key |-> k, rev |-> r]
    OBVIOUS
  <2>1. r \in d..upto - 1 /\ r # d BY <1>u DEF Positive
  <2>2. PICK i \in 1..Len(p) : p[i] = [key |-> k, rev |-> r] BY <2>1, <1>c
  <2>3. i # 1 BY <2>1, <2>2, <1>5
  <2>4. i - 1 \in 1..Len(q) /\ (i - 1) + 1 = i BY <2>3, <1>1
  <2>5. q[i - 1] = p[i] BY <2>4, <1>6
  <2>6. QED BY <2>2, <2>4, <2>5
<1>10. d + 1 <= upto BY <1>4, <1>u DEF Positive
<1>11. Ordered(q, k, d + 1, h, n)
  BY <1>7, <1>8, <1>9, <1>10, <1>d DEF Ordered, upto
<1>12. QED BY <1>1, <1>4, <1>5, <1>11 DEF q, upto

\* Reading an event of another key changes nothing.
LEMMA OrderedReceiveOther ==
  ASSUME NEW p \in Seq(Events), p # <<>>, NEW k, Head(p).key # k,
         NEW d, NEW h, NEW n, Ordered(p, k, d, h, n)
  PROVE  Ordered(Tail(p), k, d, h, n)
<1> DEFINE q == Tail(p)
           upto == IF h # 0 THEN h ELSE n
<1>1. /\ Len(p) \in Nat /\ Len(p) > 0 /\ Head(p) = p[1] /\ Len(q) = Len(p) - 1
      /\ \A i \in 1..Len(q) : q[i] = p[i + 1]
  BY HeadTailProperties
<1>a. \A i \in 1..Len(p) : p[i].key = k => p[i].rev \in d..upto - 1 BY DEF Ordered
<1>b. \A i, j \in 1..Len(p) :
        i < j /\ p[i].key = k /\ p[j].key = k => p[i].rev < p[j].rev
  BY DEF Ordered
<1>c. \A r \in d..upto - 1 : \E i \in 1..Len(p) : p[i] = [key |-> k, rev |-> r]
  BY DEF Ordered
<1>d. (n # 0 => d <= upto) /\ (h # 0 => n = h + 1) BY DEF Ordered
<1> HIDE DEF q, upto
<1>2. \A i \in 1..Len(q) : i + 1 \in 1..Len(p) /\ q[i] = p[i + 1] BY <1>1
<1>3. \A i \in 1..Len(q) : q[i].key = k => q[i].rev \in d..upto - 1 BY <1>2, <1>a
<1>4. \A i, j \in 1..Len(q) :
        i < j /\ q[i].key = k /\ q[j].key = k => q[i].rev < q[j].rev
  <2> SUFFICES ASSUME NEW i \in 1..Len(q), NEW j \in 1..Len(q),
                      i < j, q[i].key = k, q[j].key = k
               PROVE  q[i].rev < q[j].rev
    OBVIOUS
  <2>1. i + 1 < j + 1 OBVIOUS
  <2>2. QED BY <2>1, <1>2, <1>b
<1>5. \A r \in d..upto - 1 : \E i \in 1..Len(q) : q[i] = [key |-> k, rev |-> r]
  <2> SUFFICES ASSUME NEW r \in d..upto - 1
               PROVE  \E i \in 1..Len(q) : q[i] = [key |-> k, rev |-> r]
    OBVIOUS
  <2>1. PICK i \in 1..Len(p) : p[i] = [key |-> k, rev |-> r] BY <1>c
  <2>2. p[i].key = k BY <2>1
  <2>3. i # 1 BY <2>2, <1>1
  <2>4. i - 1 \in 1..Len(q) /\ (i - 1) + 1 = i BY <2>3, <1>1
  <2>5. q[i - 1] = p[i] BY <2>4, <1>2
  <2>6. QED BY <2>1, <2>4, <2>5
<1>6. Ordered(q, k, d, h, n) BY <1>3, <1>4, <1>5, <1>d DEF Ordered, upto
<1>7. QED BY <1>6 DEF q

\* A stream that begins, and one that has no goroutine.
LEMMA OrderedNew ==
  ASSUME NEW k, NEW d \in Positive, NEW n, n \in {0, d}
  PROVE  Ordered(<<>>, k, d, 0, n)
BY DEF Ordered, Positive

\* Attaching a watch to a key that is being created.
LEMMA OrderedAttach ==
  ASSUME NEW p, NEW k, Ordered(p, k, 1, 0, 0)
  PROVE  Ordered(p, k, 1, 0, 1)
BY DEF Ordered
-----------------------------------------------------------------------------
(* The three stages an event passes: the channel, the adapter's hand, out.  *)

\* A channel read from and a channel written to, as one sequence.
LEMMA SeqFacts ==
  ASSUME NEW S, NEW a \in Seq(S), NEW c \in Seq(S), NEW e \in S
  PROVE  /\ <<>> \o a = a /\ a \o <<>> = a
         /\ a \o Append(c, e) = Append(a \o c, e)
         /\ a \o c \in Seq(S)
         /\ <<e>> \o c \in Seq(S) /\ <<e>> \o c # <<>>
         /\ Head(<<e>> \o c) = e /\ Tail(<<e>> \o c) = c
<1>1. <<>> \o a = a /\ a \o <<>> = a BY ConcatEmptySeq
<1>2. a \o c \in Seq(S) BY ConcatProperties
<1>3. a \o Append(c, e) = Append(a \o c, e)
  <2>1. c \o <<e>> = Append(c, e) /\ (a \o c) \o <<e>> = Append(a \o c, e)
    BY <1>2, AppendIsConcat
  <2>2. <<e>> \in Seq(S) OBVIOUS
  <2>3. (a \o c) \o <<e>> = a \o (c \o <<e>>) BY <2>2, ConcatAssociative
  <2>4. QED BY <2>1, <2>3
<1>4. /\ <<e>> \o c \in Seq(S) /\ Len(<<e>> \o c) = Len(c) + 1 /\ (<<e>> \o c)[1] = e
      /\ \A i \in 1..Len(c) : (<<e>> \o c)[i + 1] = c[i]
  <2>1. <<e>> \in Seq(S) /\ Len(<<e>>) = 1 /\ <<e>>[1] = e OBVIOUS
  <2>2. /\ <<e>> \o c \in Seq(S) /\ Len(<<e>> \o c) = Len(<<e>>) + Len(c)
        /\ \A i \in 1..Len(<<e>>) + Len(c) :
             (<<e>> \o c)[i] = IF i <= Len(<<e>>) THEN <<e>>[i] ELSE c[i - Len(<<e>>)]
    BY <2>1, ConcatProperties
  <2>3. QED BY <2>1, <2>2
<1>5. <<e>> \o c # <<>> BY <1>4
<1>6. Head(<<e>> \o c) = e BY <1>4, <1>5
<1>7. Tail(<<e>> \o c) = c
  <2> DEFINE t == Tail(<<e>> \o c)
  <2>1. t \in Seq(S) /\ Len(t) = Len(c) /\ \A i \in 1..Len(t) : t[i] = (<<e>> \o c)[i + 1]
    BY <1>4, <1>5, HeadTailProperties
  <2>2. \A i \in 1..Len(t) : t[i] = c[i] BY <2>1, <1>4
  <2> HIDE DEF t
  <2>3. t = c BY <2>1, <2>2, SeqEqual
  <2>4. QED BY <2>3 DEF t
<1>8. QED BY <1>1, <1>2, <1>3, <1>4, <1>5, <1>6, <1>7

\* A hand, or a channel of capacity 1, holds nothing or one event.
LEMMA AtMostOne ==
  ASSUME NEW S, NEW a \in Seq(S), Len(a) <= 1, a # <<>>
  PROVE  a = <<Head(a)>> /\ Head(a) \in S
<1>0. Len(a) = 1
  <2>1. Len(a) \in Nat \ {0} BY EmptySeq
  <2>2. QED BY <2>1
<1>1. Len(a) = 1 /\ a[1] \in S /\ Head(a) = a[1] BY <1>0
<1>2. <<Head(a)>> \in Seq(S) /\ Len(<<Head(a)>>) = 1 /\ <<Head(a)>>[1] = a[1] BY <1>1
<1> DEFINE b == <<Head(a)>>
<1>3. Len(a) = Len(b) /\ \A i \in 1..Len(a) : a[i] = b[i] BY <1>1, <1>2
<1>4. b \in Seq(S) BY <1>2
<1> HIDE DEF b
<1>5. a = b BY <1>3, <1>4, SeqEqual
<1>6. QED BY <1>1, <1>5 DEF b

\* A non-empty sequence is its head and its tail.
LEMMA HeadAndTail ==
  ASSUME NEW S, NEW c \in Seq(S), c # <<>>
  PROVE  c = <<Head(c)>> \o Tail(c) /\ Head(c) \in S /\ Tail(c) \in Seq(S)
<1>1. /\ Head(c) \in S /\ Tail(c) \in Seq(S) /\ Head(c) = c[1] /\ Len(c) \in Nat
      /\ Len(Tail(c)) = Len(c) - 1 /\ \A i \in 1..Len(Tail(c)) : Tail(c)[i] = c[i + 1]
  BY HeadTailProperties
<1> DEFINE d == <<Head(c)>> \o Tail(c)
<1>2. /\ d \in Seq(S) /\ Len(d) = Len(Tail(c)) + 1 /\ d[1] = Head(c)
      /\ \A i \in 1..Len(Tail(c)) : d[i + 1] = Tail(c)[i]
  <2>1. <<Head(c)>> \in Seq(S) /\ Len(<<Head(c)>>) = 1 /\ <<Head(c)>>[1] = Head(c) BY <1>1
  <2>2. /\ d \in Seq(S) /\ Len(d) = Len(<<Head(c)>>) + Len(Tail(c))
        /\ \A i \in 1..Len(<<Head(c)>>) + Len(Tail(c)) :
             d[i] = IF i <= Len(<<Head(c)>>) THEN <<Head(c)>>[i] ELSE Tail(c)[i - Len(<<Head(c)>>)]
    BY <2>1, <1>1, ConcatProperties
  <2> HIDE DEF d
  <2>3. QED BY <2>1, <2>2, <1>1
<1> HIDE DEF d
<1>3. Len(d) = Len(c) BY <1>1, <1>2
<1>4. \A i \in 1..Len(c) : c[i] = d[i]
  <2> SUFFICES ASSUME NEW i \in 1..Len(c) PROVE c[i] = d[i]
    OBVIOUS
  <2>1. CASE i = 1 BY <2>1, <1>1, <1>2
  <2>2. CASE i # 1
    <3>1. i - 1 \in 1..Len(Tail(c)) /\ (i - 1) + 1 = i BY <2>2, <1>1
    <3>2. d[(i - 1) + 1] = Tail(c)[i - 1] /\ Tail(c)[i - 1] = c[(i - 1) + 1]
      BY <3>1, <1>1, <1>2
    <3>3. QED BY <3>1, <3>2
  <2>3. QED BY <2>1, <2>2
<1>5. c = d BY <1>2, <1>3, <1>4, SeqEqual
<1>6. QED BY <1>1, <1>5 DEF d

\* An event that enters the last stage, moves to the next one, leaves the first.
LEMMA StagesForward ==
  ASSUME NEW a \in Seq(Events), NEW b \in Seq(Events), NEW c \in Seq(Events), NEW e \in Events
  PROVE  (a \o b) \o Append(c, e) = Append((a \o b) \o c, e)
<1> DEFINE d == a \o b
<1>1. d \in Seq(Events) BY ConcatProperties
<1> HIDE DEF d
<1>2. d \o Append(c, e) = Append(d \o c, e) BY <1>1, SeqFacts
<1>3. QED BY <1>2 DEF d

LEMMA StagesRelay ==
  ASSUME NEW a \in Seq(Events), NEW t \in Seq(Events), NEW e \in Events
  PROVE  (a \o <<e>>) \o t = (a \o <<>>) \o (<<e>> \o t)
<1>1. <<e>> \in Seq(Events) OBVIOUS
<1>2. (a \o <<e>>) \o t = a \o (<<e>> \o t) BY <1>1, ConcatAssociative
<1>3. a \o <<>> = a BY ConcatEmptySeq
<1>4. QED BY <1>2, <1>3

LEMMA StagesReceive ==
  ASSUME NEW b \in Seq(Events), NEW c \in Seq(Events), NEW e \in Events
  PROVE  LET p == (<<e>> \o b) \o c IN p # <<>> /\ Head(p) = e /\ Tail(p) = (<<>> \o b) \o c
<1>1. <<e>> \in Seq(Events) OBVIOUS
<1>2. (<<e>> \o b) \o c = <<e>> \o (b \o c) BY <1>1, ConcatAssociative
<1>3. <<>> \o b = b BY ConcatEmptySeq
<1> DEFINE r == b \o c
<1>4. r \in Seq(Events) BY ConcatProperties
<1> HIDE DEF r
<1>5. <<e>> \o r # <<>> /\ Head(<<e>> \o r) = e /\ Tail(<<e>> \o r) = r BY <1>4, SeqFacts
<1>6. QED BY <1>2, <1>3, <1>5 DEF r

\* What is on its way to a reader is a sequence of events.
LEMMA PipeType ==
  ASSUME TypeOK, NEW w \in Watches
  PROVE  /\ Pipe(w) \in Seq(Events) /\ channel[w] \in Seq(Events)
         /\ adapter[w].hand \in Seq(Events) /\ adapter[w].out \in Seq(Events)
         /\ Len(adapter[w].hand) <= 1 /\ Len(adapter[w].out) <= 1
<1>1. /\ channel[w] \in Seq(Events)
      /\ adapter[w].hand \in Seq(Events) /\ adapter[w].out \in Seq(Events)
      /\ Len(adapter[w].hand) <= 1 /\ Len(adapter[w].out) <= 1
  BY DEF TypeOK
<1>2. QED BY <1>1, ConcatProperties DEF Pipe

\* Nothing is on its way just if the three stages are empty.
LEMMA PipeEmpty ==
  ASSUME TypeOK, NEW w \in Watches
  PROVE  Pipe(w) = <<>> <=> channel[w] = <<>> /\ adapter[w].hand = <<>> /\ adapter[w].out = <<>>
<1>1. adapter[w].out \o adapter[w].hand \in Seq(Events) BY PipeType, ConcatProperties
<1>2. QED BY <1>1, PipeType, ConcatEqualIffEmpty DEF Pipe

-----------------------------------------------------------------------------
(* The inductive invariant, watch by watch.                                 *)

KeysKnown == \A k \in Keys : log[k] # <<>> => k \in keys

ClosedOK(w) ==
  /\ watch[w].state = "closed" => Running(w) = {} /\ \A k \in Keys : hand[w][k] = 0
  /\ adapter[w].closed =>
       watch[w].state = "closed" /\ channel[w] = <<>> /\ adapter[w].hand = <<>>

WatchOK(w) ==
  /\ watch[w].state = "none" => NotBegun(w)
  /\ \A k \in Keys : StreamOf(w, k)
  /\ ClosedOK(w)
  /\ Caused(w)

WatchesOK == \A w \in Watches : WatchOK(w) /\ Attached(w)

LEMMA InductiveByWatch == Inductive <=> TypeOK /\ KeysKnown /\ WatchesOK
BY DEF Inductive, KeysKnown, WatchesOK, WatchOK, ClosedLast, ClosedOK

\* A step leaves everything of watch v alone.
Same(v) ==
  /\ watch'[v] = watch[v] /\ next'[v] = next[v] /\ hand'[v] = hand[v]
  /\ returned'[v] = returned[v] /\ channel'[v] = channel[v] /\ adapter'[v] = adapter[v]
  /\ ended'[v] = ended[v] /\ since'[v] = since[v] /\ due'[v] = due[v]

LEMMA SameKept ==
  ASSUME NEW v \in Watches, WatchOK(v), Same(v), UNCHANGED stores, cancelled \subseteq cancelled'
  PROVE  WatchOK(v)'
<1> USE DEF Same, stores
<1>1. Pipe(v)' = Pipe(v) BY DEF Pipe
<1>2. watch'[v].state = "none" => NotBegun(v)' BY <1>1 DEF WatchOK, NotBegun
<1>3. \A k \in Keys : StreamOf(v, k)'
  <2> SUFFICES ASSUME NEW k \in Keys PROVE StreamOf(v, k)'
    OBVIOUS
  <2>1. StreamOf(v, k) BY DEF WatchOK
  <2>2. Ordered(Pipe(v), k, due[v][k], hand[v][k], next[v][k])' BY <1>1, <2>1 DEF StreamOf
  <2>3. QED BY <2>1, <2>2 DEF StreamOf
<1>4. ClosedOK(v)' BY DEF WatchOK, ClosedOK, Running
<1>5. Caused(v)' BY DEF WatchOK, Caused, Watched
<1>6. QED BY <1>2, <1>3, <1>4, <1>5 DEF WatchOK

\* A step of one watch keeps the invariant if it keeps that watch's part.
LEMMA OneWatchStep ==
  ASSUME Inductive, NEW w \in Watches, TypeOK', WatchOK(w)', UNCHANGED stores,
         cancelled \subseteq cancelled', \A v \in Watches \ {w} : Same(v),
         watch'[w].rev = watch[w].rev, watch'[w].keys = watch[w].keys,
         watch'[w].state = "active" => watch[w].state = "active",
         \A k \in Keys : next[w][k] # 0 => next'[w][k] # 0
  PROVE  Inductive'
<1>a. TypeOK /\ KeysKnown /\ \A v \in Watches : WatchOK(v) /\ Attached(v)
  BY InductiveByWatch DEF WatchesOK
<1>1. KeysKnown' BY <1>a DEF KeysKnown, stores
<1>2. \A v \in Watches : WatchOK(v)' BY <1>a, SameKept
<1>3. \A v \in Watches : Attached(v)'
  <2> SUFFICES ASSUME NEW v \in Watches, watch'[v].state = "active",
                      \A u \in Watches : watch'[u].rev \in {Unset, 0},
                      NEW k \in watch'[v].keys \cap keys'
               PROVE  next'[v][k] # 0
    BY DEF Attached
  <2>1. watch[v].state = "active" /\ k \in watch[v].keys \cap keys BY DEF Same, stores
  <2>2. \A u \in Watches : watch[u].rev \in {Unset, 0} BY DEF Same
  <2>3. next[v][k] # 0 BY <1>a, <2>1, <2>2 DEF Attached
  <2>4. k \in Keys BY <1>a, <2>1 DEF TypeOK
  <2>5. QED BY <2>3, <2>4 DEF Same
<1>4. WatchesOK' BY <1>2, <1>3 DEF WatchesOK
<1>5. QED BY <1>1, <1>4, InductiveByWatch, PTL

\* A new store has no keys and no watches.
LEMMA InitInductive == Init => Inductive
<1> SUFFICES ASSUME Init PROVE Inductive
  OBVIOUS
<1>1. TypeOK BY InputsAssumption DEF Init, TypeOK, Events
<1>2. KeysKnown BY DEF Init, KeysKnown
<1>3. ASSUME NEW w \in Watches PROVE WatchOK(w) /\ Attached(w)
  <2>0. Pipe(w) = <<>> BY <1>1, PipeEmpty DEF Init
  <2>1. NotBegun(w) BY <2>0 DEF Init, NotBegun
  <2>2. \A k \in Keys : StreamOf(w, k)
    <3> SUFFICES ASSUME NEW k \in Keys PROVE StreamOf(w, k)
      OBVIOUS
    <3>1. Ordered(<<>>, k, 1, 0, 0) BY OrderedNew DEF Positive
    <3>2. QED BY <2>0, <3>1 DEF Init, StreamOf
  <2>3. ClosedOK(w) /\ Caused(w) /\ Attached(w) BY DEF Init, ClosedOK, Caused, Attached
  <2>4. QED BY <2>1, <2>2, <2>3 DEF WatchOK
<1>4. QED BY <1>1, <1>2, <1>3, InductiveByWatch DEF WatchesOK

\* The revision a watch on a value store begins with.
LEMMA FirstRevisionType ==
  ASSUME TypeOK, NEW k \in Keys, NEW rev \in WatchRevisions, ~Refuses(k, rev)
  PROVE  FirstRevision(k, rev) \in Positive /\ FirstRevision(k, rev) <= Len(log[k]) + 1
<1>1. Len(log[k]) \in Nat BY DEF TypeOK
<1>2. rev = Unset \/ rev \in Nat BY InputsAssumption
<1>3. CASE rev # Unset /\ rev > 0
  <2>1. FirstRevision(k, rev) = rev /\ rev \in 1..Len(log[k])
    BY <1>2, <1>3 DEF FirstRevision, Refuses, LiveAt
  <2>2. QED BY <2>1, <1>1 DEF Positive
<1>4. CASE ~(rev # Unset /\ rev > 0) /\ rev = 0 /\ Live(k)
  <2>1. FirstRevision(k, rev) = Len(log[k]) /\ Len(log[k]) > 0
    BY <1>1, <1>4 DEF FirstRevision, Live, LiveAt
  <2>2. QED BY <2>1, <1>1 DEF Positive
<1>5. CASE ~(rev # Unset /\ rev > 0) /\ ~(rev = 0 /\ Live(k))
  <2>1. FirstRevision(k, rev) = Len(log[k]) + 1 BY <1>5 DEF FirstRevision
  <2>2. QED BY <2>1, <1>1 DEF Positive
<1>6. QED BY <1>3, <1>4, <1>5

\* Watch: the streams of the matching keys begin.
LEMMA WatchStep ==
  ASSUME Inductive, NEW w \in Watches, NEW s \in Selections, NEW rev \in WatchRevisions,
         NEW by \in Readers, Watch(w, s, rev, by)
  PROVE  Inductive'
<1>a. TypeOK /\ KeysKnown /\ \A v \in Watches : WatchOK(v) /\ Attached(v)
  BY InductiveByWatch DEF WatchesOK
<1> DEFINE watched == {k \in Matching(s) : ~Refuses(k, rev)}
           first == [k \in Keys |-> IF k \in watched THEN FirstRevision(k, rev) ELSE 0]
           begin == [k \in Keys |-> IF k \in watched THEN FirstRevision(k, rev)
                                                      ELSE Len(log[k]) + 1]
<1>b. /\ watch[w].state = "none"
      /\ watch' = [watch EXCEPT ![w] = [state |-> "active", keys |-> s, rev |-> rev, by |-> by]]
      /\ next' = [next EXCEPT ![w] = first]
      /\ due' = [due EXCEPT ![w] = begin]
      /\ UNCHANGED <<keys, log, cancelled, hand, returned, channel, adapter, ended>>
  BY DEF Watch, stores
<1>c. due'[w] = begin /\ since' = [since EXCEPT ![w] = begin]
  BY <1>a, <1>b DEF Watch, TypeOK
<1>d. watched \subseteq Keys /\ watched \subseteq s /\ watched \subseteq keys
  BY <1>a DEF Matching, TypeOK
<1>e. \A k \in watched :
        FirstRevision(k, rev) \in Positive /\ FirstRevision(k, rev) <= Len(log[k]) + 1
  BY <1>a, <1>d, FirstRevisionType
<1>f. s \in SUBSET Keys BY InputsAssumption
<1>g. first \in [Keys -> Nat] BY <1>e DEF Positive
<1>h. begin \in [Keys -> Nat \ {0}] BY <1>a, <1>e DEF Positive, TypeOK
<1>i. /\ watch'[w] = [state |-> "active", keys |-> s, rev |-> rev, by |-> by]
      /\ next'[w] = first /\ since'[w] = begin
      /\ \A v \in Watches \ {w} : Same(v)
  BY <1>a, <1>b, <1>c DEF TypeOK, Same
<1>j. \A k \in Keys :
        /\ k \in watched => (first[k] = FirstRevision(k, rev) /\ begin[k] = first[k])
        /\ k \notin watched => (first[k] = 0 /\ begin[k] = Len(log[k]) + 1)
  OBVIOUS
<1> HIDE DEF first, begin
<1>1. TypeOK'
  BY <1>a, <1>b, <1>c, <1>f, <1>g, <1>h DEF TypeOK
<1>2. KeysKnown' BY <1>a, <1>b DEF KeysKnown
<1>n. NotBegun(w) BY <1>a, <1>b DEF WatchOK
<1>3. WatchOK(w)'
  <2>0. Pipe(w)' = <<>> BY <1>b, <1>n DEF Pipe, NotBegun
  <2>1. watch'[w].state = "active" BY <1>i
  <2>2. \A k \in Keys : StreamOf(w, k)'
    <3> SUFFICES ASSUME NEW k \in Keys PROVE StreamOf(w, k)'
      OBVIOUS
    <3>1. hand'[w][k] = 0 BY <1>b, <1>n DEF NotBegun
    <3>2. Ordered(<<>>, k, begin[k], 0, first[k])
      BY <1>h, <1>j, OrderedNew DEF Positive
    <3>3. first[k] # 0 => k \in keys /\ k \in s /\ first[k] <= Len(log[k]) + 1
      BY <1>d, <1>e, <1>j
    <3>4. k \notin keys => begin[k] = 1 BY <1>a, <1>d, <1>j DEF KeysKnown
    <3>5. begin[k] <= begin[k] BY <1>h
    <3>6. QED BY <2>0, <3>1, <3>2, <3>3, <3>4, <3>5, <1>b, <1>c, <1>i DEF StreamOf
  <2>3. ClosedOK(w)'
    <3>1. ~adapter[w].closed BY <1>a, <1>b DEF WatchOK, ClosedOK
    <3>2. QED BY <2>1, <3>1, <1>b DEF ClosedOK
  <2>4. Caused(w)' BY <2>1, <1>b, <1>n DEF Caused, NotBegun
  <2>5. QED BY <2>1, <2>2, <2>3, <2>4 DEF WatchOK
<1>4. \A v \in Watches : WatchOK(v)' BY <1>3, <1>a, <1>b, <1>i, SameKept DEF stores
<1>5. \A v \in Watches : Attached(v)'
  <2> SUFFICES ASSUME NEW v \in Watches, watch'[v].state = "active",
                      \A u \in Watches : watch'[u].rev \in {Unset, 0},
                      NEW k \in watch'[v].keys \cap keys'
               PROVE  next'[v][k] # 0
    BY DEF Attached
  <2>1. CASE v = w
    <3>1. rev \in {Unset, 0} BY <1>i
    <3>2. ~Refuses(k, rev) BY <3>1, InputsAssumption DEF Refuses
    <3>3. k \in watched BY <2>1, <3>2, <1>b, <1>i DEF Matching
    <3>4. first[k] # 0 BY <3>3, <1>d, <1>e, <1>j DEF Positive
    <3>5. QED BY <2>1, <3>4, <1>i
  <2>2. CASE v # w
    <3>1. Same(v) BY <2>2, <1>i
    <3>2. \A u \in Watches : watch[u].rev \in {Unset, 0}
      BY <1>i, <1>n DEF Same, NotBegun
    <3>3. QED BY <3>1, <3>2, <1>a, <1>b DEF Attached, Same
  <2>3. QED BY <2>1, <2>2
<1>6. WatchesOK' BY <1>4, <1>5 DEF WatchesOK
<1>7. QED BY <1>1, <1>2, <1>6, InductiveByWatch, PTL
\* A goroutine takes the next event of its key.
LEMMA TakeStep ==
  ASSUME Inductive, NEW w \in Watches, NEW k \in Keys, Take(w, k)
  PROVE  Inductive'
<1>a. TypeOK /\ WatchOK(w) BY InductiveByWatch DEF WatchesOK
<1>b. /\ next[w][k] # 0 /\ k \notin returned[w] /\ hand[w][k] = 0 /\ next[w][k] <= Len(log[k])
      /\ hand' = [hand EXCEPT ![w][k] = next[w][k]]
      /\ next' = [next EXCEPT ![w][k] = next[w][k] + 1]
      /\ UNCHANGED <<keys, log, watch, cancelled, returned, channel, adapter, ended, since, due>>
  BY DEF Take, Running, stores, reader
<1>c. /\ next[w][k] \in Positive /\ Len(log[k]) \in Nat
      /\ hand'[w][k] = next[w][k] /\ next'[w][k] = next[w][k] + 1
      /\ \A j \in Keys \ {k} : hand'[w][j] = hand[w][j] /\ next'[w][j] = next[w][j]
      /\ \A v \in Watches \ {w} : Same(v)
  BY <1>a, <1>b DEF TypeOK, Positive, Same
<1>d. Pipe(w)' = Pipe(w) BY <1>b DEF Pipe
<1>e. watch[w].state \notin {"none", "closed"} /\ ~adapter[w].closed
  BY <1>a, <1>b DEF WatchOK, NotBegun, ClosedOK, Running
<1>1. TypeOK' BY <1>a, <1>b, <1>c, SMTT(30) DEF TypeOK, Positive
<1>2. \A j \in Keys : StreamOf(w, j)'
  <2> SUFFICES ASSUME NEW j \in Keys PROVE StreamOf(w, j)'
    OBVIOUS
  <2>0. StreamOf(w, j) BY <1>a DEF WatchOK
  <2>1. CASE j = k
    <3>1. Ordered(Pipe(w), k, due[w][k], 0, next[w][k]) BY <2>0, <2>1, <1>b DEF StreamOf
    <3>2. Ordered(Pipe(w), k, due[w][k], next[w][k], next[w][k] + 1) BY <3>1, <1>c, OrderedTake
    <3>3. next[w][k] + 1 <= Len(log[k]) + 1 BY <1>b, <1>c DEF Positive
    <3>4. QED BY <2>0, <2>1, <3>2, <3>3, <1>b, <1>c, <1>d DEF StreamOf
  <2>2. CASE j # k
    <3>1. Ordered(Pipe(w), j, due[w][j], hand[w][j], next[w][j])' BY <2>0, <2>2, <1>b, <1>c, <1>d DEF StreamOf
    <3>2. QED BY <2>0, <2>2, <3>1, <1>b, <1>c DEF StreamOf
  <2>3. QED BY <2>1, <2>2
<1>f. \A j \in Keys : next[w][j] # 0 <=> next'[w][j] # 0 BY <1>b, <1>c DEF Positive
<1>3. ClosedOK(w)' BY <1>b, <1>e DEF ClosedOK
<1>4. Caused(w)'
  <2>1. watch[w].keys \subseteq Keys BY <1>a DEF TypeOK
  <2>2. Watched(w)' = Watched(w) BY <2>1, <1>b, <1>f DEF Watched
  <2>3. QED BY <2>2, <1>a, <1>b DEF WatchOK, Caused
<1>5. WatchOK(w)' BY <1>2, <1>3, <1>4, <1>b, <1>e DEF WatchOK
<1>6. QED BY <1>1, <1>5, <1>b, <1>c, <1>f, OneWatchStep DEF stores

\* It writes the event it holds to the channel.
LEMMA ForwardStep ==
  ASSUME Inductive, NEW w \in Watches, NEW k \in Keys, Forward(w, k)
  PROVE  Inductive'
<1>a. TypeOK /\ WatchOK(w) BY InductiveByWatch DEF WatchesOK
<1> DEFINE e == [key |-> k, rev |-> hand[w][k]]
<1>b. /\ hand[w][k] # 0 /\ Len(channel[w]) < ChannelCap
      /\ channel' = [channel EXCEPT ![w] = Append(channel[w], e)]
      /\ hand' = [hand EXCEPT ![w][k] = 0]
      /\ UNCHANGED <<keys, log, watch, cancelled, next, returned, adapter, ended, since, due>>
  BY DEF Forward, HasRoom, stores, reader
<1>c. /\ hand[w][k] \in Positive /\ due[w][k] \in Positive /\ channel[w] \in Seq(Events)
      /\ channel'[w] = Append(channel[w], e) /\ hand'[w][k] = 0
      /\ \A j \in Keys \ {k} : hand'[w][j] = hand[w][j]
      /\ \A v \in Watches \ {w} : Same(v)
  BY <1>a, <1>b DEF TypeOK, Positive, Same
<1>d. e \in Events /\ e.key = k BY <1>c DEF Events, Positive
<1>e. next[w][k] = hand[w][k] + 1 /\ next[w][k] \in Positive
  <2>1. next[w][k] = hand[w][k] + 1 BY <1>a, <1>b DEF WatchOK, StreamOf, Ordered
  <2>2. QED BY <2>1, <1>c DEF Positive
<1>f. watch[w].state \notin {"none", "closed"} /\ ~adapter[w].closed
  BY <1>a, <1>b, <1>e DEF WatchOK, NotBegun, ClosedOK, Positive
<1> HIDE DEF e
<1>g. Pipe(w)' = Append(Pipe(w), e) /\ Pipe(w) \in Seq(Events)
  <2>1. /\ adapter[w].out \in Seq(Events) /\ adapter[w].hand \in Seq(Events)
        /\ Pipe(w) \in Seq(Events)
    BY <1>a, PipeType
  <2>2. (adapter[w].out \o adapter[w].hand) \o Append(channel[w], e)
          = Append((adapter[w].out \o adapter[w].hand) \o channel[w], e)
    <3> DEFINE a == adapter[w].out
               b == adapter[w].hand
               c == channel[w]
    <3>1. a \in Seq(Events) /\ b \in Seq(Events) /\ c \in Seq(Events) BY <2>1, <1>c
    <3> HIDE DEF a, b, c
    <3>2. (a \o b) \o Append(c, e) = Append((a \o b) \o c, e) BY ONLY <3>1, <1>d, StagesForward
    <3>3. QED BY <3>2 DEF a, b, c
  <2>3. QED BY <2>1, <2>2, <1>b, <1>c DEF Pipe
<1>1. TypeOK'
  <2>1. Append(channel[w], e) \in Seq(Events) /\ Len(Append(channel[w], e)) = Len(channel[w]) + 1
    BY <1>c, <1>d
  <2>2. channel' \in [Watches -> Seq(Events)] BY <2>1, <1>a, <1>b DEF TypeOK
  <2>3. \A v \in Watches : Len(channel'[v]) <= ChannelCap
    <3>1. Len(channel[w]) \in Nat BY <1>c
    <3>2. Len(channel'[w]) <= ChannelCap BY <2>1, <3>1, <1>b, <1>c, InputsAssumption
    <3>3. QED BY <3>2, <1>a, <1>c DEF TypeOK, Same
  <2>4. hand' \in [Watches -> [Keys -> Nat]] BY <1>a, <1>b DEF TypeOK
  <2>5. QED BY <2>2, <2>3, <2>4, <1>a, <1>b DEF TypeOK
<1>2. \A j \in Keys : StreamOf(w, j)'
  <2> SUFFICES ASSUME NEW j \in Keys PROVE StreamOf(w, j)'
    OBVIOUS
  <2>0. StreamOf(w, j) BY <1>a DEF WatchOK
  <2>1. CASE j = k
    <3>1. Ordered(Pipe(w), k, due[w][k], hand[w][k], next[w][k]) BY <2>0, <2>1 DEF StreamOf
    <3>2. Ordered(Append(Pipe(w), e), k, due[w][k], 0, next[w][k])
      BY <3>1, <1>c, <1>e, <1>g, OrderedForward DEF e
    <3>3. Ordered(Pipe(w), k, due[w][k], hand[w][k], next[w][k])' BY <3>2, <1>b, <1>c, <1>g
    <3>4. QED BY <2>0, <2>1, <3>3, <1>b, <1>c DEF StreamOf
  <2>2. CASE j # k
    <3>1. Ordered(Append(Pipe(w), e), j, due[w][j], hand[w][j], next[w][j])
      BY <2>0, <2>2, <1>d, <1>g, OrderedForwardOther DEF StreamOf
    <3>2. Ordered(Pipe(w), j, due[w][j], hand[w][j], next[w][j])' BY <2>2, <3>1, <1>b, <1>c, <1>g
    <3>3. QED BY <2>0, <2>2, <3>2, <1>b, <1>c DEF StreamOf
  <2>3. QED BY <2>1, <2>2
<1>3. ClosedOK(w)' BY <1>b, <1>f DEF ClosedOK
<1>4. Caused(w)' BY <1>a, <1>b DEF WatchOK, Caused, Watched
<1>5. WatchOK(w)' BY <1>2, <1>3, <1>4, <1>b, <1>f DEF WatchOK
<1>6. QED BY <1>1, <1>5, <1>b, <1>c, OneWatchStep DEF stores

\* It returns, with empty hands.
LEMMA ReturnStep ==
  ASSUME Inductive, NEW w \in Watches, NEW k \in Keys, Return(w, k)
  PROVE  Inductive'
<1>a. TypeOK /\ WatchOK(w) BY InductiveByWatch DEF WatchesOK
<1>b. /\ hand[w][k] = 0 /\ watch[w].state = "removed"
      /\ returned' = [returned EXCEPT ![w] = returned[w] \cup {k}]
      /\ UNCHANGED <<keys, log, watch, cancelled, next, hand, channel, adapter, ended, since, due>>
  BY DEF Return, stores, reader
<1>c. returned'[w] = returned[w] \cup {k} /\ \A v \in Watches \ {w} : Same(v)
  BY <1>a, <1>b DEF TypeOK, Same
<1>d. Pipe(w)' = Pipe(w) BY <1>b DEF Pipe
<1>1. TypeOK' BY <1>a, <1>b DEF TypeOK
<1>2. \A j \in Keys : StreamOf(w, j)'
  <2> SUFFICES ASSUME NEW j \in Keys PROVE StreamOf(w, j)'
    OBVIOUS
  <2>0. StreamOf(w, j) BY <1>a DEF WatchOK
  <2>1. Ordered(Pipe(w), j, due[w][j], hand[w][j], next[w][j])' BY <2>0, <1>b, <1>d DEF StreamOf
  <2>2. QED BY <2>0, <2>1, <1>b, <1>c DEF StreamOf
<1>3. ClosedOK(w)' BY <1>a, <1>b DEF WatchOK, ClosedOK
<1>4. Caused(w)' BY <1>a, <1>b DEF WatchOK, Caused, Watched
<1>5. WatchOK(w)' BY <1>2, <1>3, <1>4, <1>b DEF WatchOK
<1>6. QED BY <1>1, <1>5, <1>b, <1>c, OneWatchStep DEF stores

LEMMA SetState ==
  ASSUME NEW W, NEW S, NEW K, NEW R, NEW B,
         NEW f \in [W -> [state : S, keys : K, rev : R, by : B]], NEW w \in W, NEW st \in S
  PROVE  [f EXCEPT ![w].state = st] \in [W -> [state : S, keys : K, rev : R, by : B]]
OBVIOUS

\* Steps that change the state of a watch, not its streams: its context is
\* cancelled, it is removed, its channel is closed.
LEMMA StateStep ==
  ASSUME Inductive, NEW w \in Watches, Cancel(w) \/ Remove(w) \/ Close(w)
  PROVE  Inductive'
<1>a. TypeOK /\ WatchOK(w) BY InductiveByWatch DEF WatchesOK
<1>b. UNCHANGED <<keys, log, next, hand, returned, channel, adapter, ended, since, due>>
  BY DEF Cancel, Remove, Close, stores, reader, goroutines
<1>c. /\ cancelled \subseteq cancelled' /\ cancelled' \subseteq Watches
      /\ watch'[w].rev = watch[w].rev /\ watch'[w].keys = watch[w].keys
      /\ watch'[w].state # "none" /\ watch[w].state # "none"
      /\ watch'[w].state = "active" => watch[w].state = "active"
      /\ watch'[w].state \in {"removed", "closed"} => w \in cancelled'
      /\ watch[w].state = "closed" => watch'[w].state = "closed"
      /\ watch'[w].state = "closed" => watch[w].state = "closed" \/ Running(w) = {}
      /\ \A v \in Watches \ {w} : Same(v)
  <2>1. CASE Cancel(w) BY <2>1, <1>a, <1>b DEF Cancel, TypeOK, Same, WatchOK, Caused
  <2>2. CASE Remove(w) BY <2>2, <1>a, <1>b DEF Remove, TypeOK, Same
  <2>3. CASE Close(w) BY <2>3, <1>a, <1>b DEF Close, AllReturned, TypeOK, Same, WatchOK, Caused
  <2>4. QED BY <2>1, <2>2, <2>3
<1>d. Pipe(w)' = Pipe(w) BY <1>b DEF Pipe
<1>1. TypeOK'
  <2>1. watch' \in [Watches -> [state : {"none", "active", "removed", "closed"},
                               keys : SUBSET Keys, rev : WatchRevisions \cup {Unset},
                               by : Readers \cup {"caller"}]]
    <3>1. CASE Cancel(w) BY <3>1, <1>a DEF Cancel, TypeOK
    <3>2. ASSUME NEW st \in {"removed", "closed"}, watch' = [watch EXCEPT ![w].state = st]
          PROVE  watch' \in [Watches -> [state : {"none", "active", "removed", "closed"},
                               keys : SUBSET Keys, rev : WatchRevisions \cup {Unset},
                               by : Readers \cup {"caller"}]]
      <4>1. st \in {"none", "active", "removed", "closed"} OBVIOUS
      <4>2. watch \in [Watches -> [state : {"none", "active", "removed", "closed"},
                               keys : SUBSET Keys, rev : WatchRevisions \cup {Unset},
                               by : Readers \cup {"caller"}]]
        BY <1>a DEF TypeOK
      <4>3. QED BY <4>1, <4>2, <3>2, SetState
    <3>3. QED BY <3>1, <3>2 DEF Remove, Close
  <2>2. QED BY <2>1, <1>a, <1>b, <1>c DEF TypeOK
<1>2. \A j \in Keys : StreamOf(w, j)'
  <2> SUFFICES ASSUME NEW j \in Keys PROVE StreamOf(w, j)'
    OBVIOUS
  <2>0. StreamOf(w, j) BY <1>a DEF WatchOK
  <2>1. Ordered(Pipe(w), j, due[w][j], hand[w][j], next[w][j])' BY <2>0, <1>b, <1>d DEF StreamOf
  <2>2. QED BY <2>0, <2>1, <1>b, <1>c DEF StreamOf
<1>3. ClosedOK(w)'
  <2>1. Running(w) = {} => \A j \in Keys : hand[w][j] = 0
    <3>1. \A j \in Keys : hand[w][j] # 0 => next[w][j] # 0 /\ j \notin returned[w]
      <4> SUFFICES ASSUME NEW j \in Keys, hand[w][j] # 0 PROVE next[w][j] # 0 /\ j \notin returned[w]
        OBVIOUS
      <4>1. StreamOf(w, j) BY <1>a DEF WatchOK
      <4>2. hand[w][j] \in Nat BY <1>a DEF TypeOK
      <4>3. next[w][j] = hand[w][j] + 1 BY <4>1 DEF StreamOf, Ordered
      <4>4. QED BY <4>1, <4>2, <4>3 DEF StreamOf
    <3>2. QED BY <3>1 DEF Running
  <2>2. Running(w)' = Running(w) BY <1>b DEF Running
  <2>3. QED BY <2>1, <2>2, <1>a, <1>b, <1>c DEF WatchOK, ClosedOK
<1>4. Caused(w)' BY <1>a, <1>b, <1>c DEF WatchOK, Caused, Watched
<1>5. WatchOK(w)' BY <1>2, <1>3, <1>4, <1>c DEF WatchOK
<1>6. QED BY <1>1, <1>5, <1>b, <1>c, OneWatchStep DEF stores
\* The adapter moves an event on, or closes its channel: what is on its way
\* to the reader stays the same.
LEMMA AdapterStep ==
  ASSUME Inductive, NEW w \in Watches, Relay(w) \/ Deliver(w) \/ CloseOut(w)
  PROVE  Inductive'
<1>a. TypeOK /\ WatchOK(w) BY InductiveByWatch DEF WatchesOK
<1>b. UNCHANGED <<keys, log, watch, cancelled, next, hand, returned, ended, since, due>>
  BY DEF Relay, Deliver, CloseOut, stores, goroutines, reader
<1>c. /\ channel[w] \in Seq(Events) /\ adapter[w].hand \in Seq(Events)
      /\ adapter[w].out \in Seq(Events) /\ Pipe(w) \in Seq(Events)
      /\ Len(adapter[w].hand) <= 1 /\ Len(adapter[w].out) <= 1
      /\ adapter[w].closed \in BOOLEAN
  BY <1>a, PipeType DEF TypeOK
<1>d. \A v \in Watches \ {w} : Same(v)
  BY <1>a, <1>b DEF Relay, Deliver, CloseOut, TypeOK, Same
<1>1. TypeOK' /\ Pipe(w)' = Pipe(w) /\ ClosedOK(w)'
  <2>1. CASE Relay(w)
    <3> DEFINE e == Head(channel[w])
    <3>1. /\ adapter[w].hand = <<>> /\ channel[w] # <<>>
          /\ adapter' = [adapter EXCEPT ![w].hand = <<e>>]
          /\ channel' = [channel EXCEPT ![w] = Tail(channel[w])]
      BY <2>1 DEF Relay
    <3>2. channel[w] = <<e>> \o Tail(channel[w]) /\ e \in Events /\ Tail(channel[w]) \in Seq(Events)
      BY <3>1, <1>c, HeadAndTail
    <3>3. /\ adapter'[w].hand = <<e>> /\ adapter'[w].out = adapter[w].out
          /\ adapter'[w].closed = adapter[w].closed /\ channel'[w] = Tail(channel[w])
      BY <3>1, <1>a DEF TypeOK
    <3>4. ~adapter[w].closed BY <3>1, <1>a DEF WatchOK, ClosedOK
    <3>5. ClosedOK(w)' BY <3>3, <3>4, <1>a, <1>b DEF WatchOK, ClosedOK, Running
    <3>6. Len(Tail(channel[w])) <= Len(channel[w]) /\ Len(Tail(channel[w])) \in Nat
      BY <3>1, <1>c, HeadTailProperties
    <3> HIDE DEF e
    <3>7. <<e>> \in Seq(Events) /\ Len(<<e>>) = 1 BY <3>2
    <3>8. Pipe(w)' = Pipe(w)
      <4>1. Pipe(w) = (adapter[w].out \o <<>>) \o (<<e>> \o Tail(channel[w])) BY <3>1, <3>2 DEF Pipe
      <4>2. Pipe(w)' = (adapter[w].out \o <<e>>) \o Tail(channel[w]) BY <3>3 DEF Pipe
      <4>3. (adapter[w].out \o <<e>>) \o Tail(channel[w])
              = (adapter[w].out \o <<>>) \o (<<e>> \o Tail(channel[w]))
        BY <3>2, <1>c, StagesRelay
      <4>4. QED BY <4>1, <4>2, <4>3
    <3>9. TypeOK'
      <4>1. channel' \in [Watches -> Seq(Events)] BY <3>1, <3>2, <1>a DEF TypeOK
      <4>2. \A v \in Watches : Len(channel'[v]) <= ChannelCap
        <5>1. Len(channel[w]) <= ChannelCap /\ Len(channel[w]) \in Nat BY <1>a, <1>c DEF TypeOK
        <5>2. Len(channel'[w]) <= ChannelCap BY <5>1, <3>3, <3>6, InputsAssumption
        <5>3. QED BY <5>2, <1>a, <1>d DEF TypeOK, Same
      <4>3. adapter' \in [Watches -> [hand : Seq(Events), out : Seq(Events), closed : BOOLEAN]]
        BY <3>1, <3>7, <1>a DEF TypeOK
      <4>4. \A v \in Watches : Len(adapter'[v].hand) <= 1 /\ Len(adapter'[v].out) <= 1
        <5>1. Len(adapter'[w].hand) <= 1 /\ Len(adapter'[w].out) <= 1 BY <3>3, <3>7, <1>c
        <5>2. QED BY <5>1, <1>a, <1>d DEF TypeOK, Same
      <4>5. QED BY <4>1, <4>2, <4>3, <4>4, <1>a, <1>b DEF TypeOK
    <3>10. QED BY <3>5, <3>8, <3>9
  <2>2. CASE Deliver(w)
    <3>1. /\ adapter[w].hand # <<>> /\ adapter[w].out = <<>> /\ channel' = channel
          /\ adapter' = [adapter EXCEPT ![w].hand = <<>>, ![w].out = adapter[w].hand]
      BY <2>2 DEF Deliver
    <3>2. /\ adapter'[w].hand = <<>> /\ adapter'[w].out = adapter[w].hand
          /\ adapter'[w].closed = adapter[w].closed
      BY <3>1, <1>a DEF TypeOK
    <3>3. ~adapter[w].closed BY <3>1, <1>a DEF WatchOK, ClosedOK
    <3>4. ClosedOK(w)' BY <3>2, <3>3, <1>a, <1>b DEF WatchOK, ClosedOK, Running
    <3>5. Pipe(w)' = Pipe(w)
      <4>1. <<>> \o adapter[w].hand = adapter[w].hand /\ adapter[w].hand \o <<>> = adapter[w].hand
        BY <1>c, ConcatEmptySeq
      <4>2. QED BY <4>1, <3>1, <3>2 DEF Pipe
    <3>6. TypeOK'
      <4>1. <<>> \in Seq(Events) /\ Len(<<>>) = 0 OBVIOUS
      <4>2. adapter' \in [Watches -> [hand : Seq(Events), out : Seq(Events), closed : BOOLEAN]]
        BY <4>1, <3>1, <1>a, <1>c DEF TypeOK
      <4>3. \A v \in Watches : Len(adapter'[v].hand) <= 1 /\ Len(adapter'[v].out) <= 1
        <5>1. Len(adapter'[w].hand) <= 1 /\ Len(adapter'[w].out) <= 1 BY <4>1, <3>2, <1>c
        <5>2. QED BY <5>1, <1>a, <1>d DEF TypeOK, Same
      <4>4. QED BY <4>2, <4>3, <3>1, <1>a, <1>b DEF TypeOK
    <3>7. QED BY <3>4, <3>5, <3>6
  <2>3. CASE CloseOut(w)
    <3>1. /\ watch[w].state = "closed" /\ channel[w] = <<>> /\ adapter[w].hand = <<>>
          /\ channel' = channel /\ adapter' = [adapter EXCEPT ![w].closed = TRUE]
      BY <2>3 DEF CloseOut
    <3>2. adapter'[w].hand = adapter[w].hand /\ adapter'[w].out = adapter[w].out
      BY <3>1, <1>a DEF TypeOK
    <3>3. ClosedOK(w)' BY <3>1, <3>2, <1>a, <1>b DEF WatchOK, ClosedOK, Running
    <3>4. Pipe(w)' = Pipe(w) BY <3>1, <3>2 DEF Pipe
    <3>5. TypeOK'
      <4>1. adapter' \in [Watches -> [hand : Seq(Events), out : Seq(Events), closed : BOOLEAN]]
        BY <3>1, <1>a DEF TypeOK
      <4>2. \A v \in Watches : Len(adapter'[v].hand) <= 1 /\ Len(adapter'[v].out) <= 1
        BY <3>2, <1>a, <1>d DEF TypeOK, Same
      <4>3. QED BY <4>1, <4>2, <3>1, <1>a, <1>b DEF TypeOK
    <3>6. QED BY <3>3, <3>4, <3>5
  <2>4. QED BY <2>1, <2>2, <2>3
<1>2. \A j \in Keys : StreamOf(w, j)'
  <2> SUFFICES ASSUME NEW j \in Keys PROVE StreamOf(w, j)'
    OBVIOUS
  <2>0. StreamOf(w, j) BY <1>a DEF WatchOK
  <2>1. Ordered(Pipe(w), j, due[w][j], hand[w][j], next[w][j])' BY <2>0, <1>1, <1>b DEF StreamOf
  <2>2. QED BY <2>0, <2>1, <1>b DEF StreamOf
<1>3. Caused(w)' BY <1>a, <1>b DEF WatchOK, Caused, Watched
<1>4. watch[w].state = "none" => NotBegun(w)' BY <1>a, <1>b, <1>1 DEF WatchOK, NotBegun
<1>5. WatchOK(w)' BY <1>1, <1>2, <1>3, <1>4, <1>b DEF WatchOK
<1>6. QED BY <1>1, <1>5, <1>b, <1>d, OneWatchStep DEF stores

\* The reader reads the event that was due, which may end its context.
LEMMA ReceiveStep ==
  ASSUME Inductive, NEW w \in Watches, Receive(w)
  PROVE  Inductive'
<1>a. TypeOK /\ WatchOK(w) BY InductiveByWatch DEF WatchesOK
<1>p. PICK e : e = Head(adapter[w].out) OBVIOUS
<1>q. PICK k : k = e.key OBVIOUS
<1>b. /\ ended[w] = "open" /\ adapter[w].out # <<>>
      /\ due' = [due EXCEPT ![w][k] = e.rev + 1]
      /\ adapter' = [adapter EXCEPT ![w].out = <<>>]
      /\ ended' = IF watch[w].by = "context" /\ IsDeletion(e)
                  THEN [ended EXCEPT ![w] = "objectDeleted"] ELSE ended
      /\ UNCHANGED <<keys, log, watch, cancelled, next, hand, returned, channel, since>>
  BY <1>p, <1>q DEF Receive, stores, goroutines
<1>c. /\ channel[w] \in Seq(Events) /\ adapter[w].hand \in Seq(Events)
      /\ adapter[w].out \in Seq(Events) /\ Pipe(w) \in Seq(Events)
      /\ Len(adapter[w].hand) <= 1 /\ Len(adapter[w].out) <= 1
  BY <1>a, PipeType
<1>d. adapter[w].out = <<e>> /\ e \in Events BY <1>b, <1>c, <1>p, AtMostOne
<1>e. k \in Keys /\ e.rev \in Positive BY <1>d, <1>q DEF Events, Positive
<1>f. /\ adapter'[w].out = <<>> /\ adapter'[w].hand = adapter[w].hand
      /\ adapter'[w].closed = adapter[w].closed
      /\ due'[w][k] = e.rev + 1 /\ \A j \in Keys \ {k} : due'[w][j] = due[w][j]
      /\ \A v \in Watches \ {w} : Same(v)
  BY <1>a, <1>b, <1>e DEF TypeOK, Same
<1>g. /\ Pipe(w) # <<>> /\ Head(Pipe(w)) = e /\ Pipe(w)' = Tail(Pipe(w))
  <2>1. Pipe(w) = (<<e>> \o adapter[w].hand) \o channel[w] BY <1>d DEF Pipe
  <2>2. Pipe(w)' = (<<>> \o adapter[w].hand) \o channel[w] BY <1>b, <1>f DEF Pipe
  <2> DEFINE b == adapter[w].hand
             c == channel[w]
  <2>3. b \in Seq(Events) /\ c \in Seq(Events) BY <1>c
  <2> HIDE DEF b, c
  <2>4. LET p == (<<e>> \o b) \o c IN p # <<>> /\ Head(p) = e /\ Tail(p) = (<<>> \o b) \o c
    BY <2>3, <1>d, StagesReceive
  <2>5. QED BY <2>1, <2>2, <2>4 DEF b, c
<1>h. \A j \in Keys : /\ due[w][j] \in Positive /\ since[w][j] \in Positive
                       /\ hand[w][j] \in Nat /\ next[w][j] \in Nat /\ Len(log[j]) \in Nat
  BY <1>a DEF TypeOK, Positive
<1>i. /\ e.rev = due[w][k] /\ due[w][k] < (IF hand[w][k] # 0 THEN hand[w][k] ELSE next[w][k])
      /\ Ordered(Tail(Pipe(w)), k, due[w][k] + 1, hand[w][k], next[w][k])
  <2>1. Ordered(Pipe(w), k, due[w][k], hand[w][k], next[w][k]) BY <1>a, <1>e DEF WatchOK, StreamOf
  <2>2. Head(Pipe(w)).key = k BY <1>g, <1>q
  <2>3. QED BY <2>1, <2>2, <1>c, <1>e, <1>g, <1>h, OrderedReceive, SMTT(30)
<1>j. watch[w].state # "none" BY <1>a, <1>g DEF WatchOK, NotBegun
<1>k. /\ next[w][k] # 0 /\ k \in watch[w].keys /\ e.rev \in 1..Len(log[k])
  <2>1. StreamOf(w, k) BY <1>a, <1>e DEF WatchOK
  <2>2. hand[w][k] # 0 => next[w][k] = hand[w][k] + 1 BY <2>1 DEF StreamOf, Ordered
  <2>3. next[w][k] # 0 /\ e.rev < next[w][k] BY <2>2, <1>e, <1>h, <1>i, SMTT(30) DEF Positive
  <2>4. k \in watch[w].keys /\ next[w][k] <= Len(log[k]) + 1 BY <2>1, <2>3 DEF StreamOf
  <2>5. QED BY <2>3, <2>4, <1>e, <1>h DEF Positive
<1>1. TypeOK'
  <2>1. due' \in [Watches -> [Keys -> Nat \ {0}]] BY <1>a, <1>b, <1>e, SMTT(30) DEF TypeOK, Positive
  <2>2. ended' \in [Watches -> {"open", "baseDone", "channelClosed", "objectDeleted"}]
    BY <1>a, <1>b DEF TypeOK
  <2>3. adapter' \in [Watches -> [hand : Seq(Events), out : Seq(Events), closed : BOOLEAN]]
    <3>1. <<>> \in Seq(Events) OBVIOUS
    <3>2. QED BY <3>1, <1>a, <1>b DEF TypeOK
  <2>4. \A v \in Watches : Len(adapter'[v].hand) <= 1 /\ Len(adapter'[v].out) <= 1
    <3>1. Len(adapter'[w].hand) <= 1 /\ Len(adapter'[w].out) <= 1 BY <1>c, <1>f
    <3>2. QED BY <3>1, <1>a, <1>f DEF TypeOK, Same
  <2>5. QED BY <2>1, <2>2, <2>3, <2>4, <1>a, <1>b DEF TypeOK
<1>2. \A j \in Keys : StreamOf(w, j)'
  <2> SUFFICES ASSUME NEW j \in Keys PROVE StreamOf(w, j)'
    OBVIOUS
  <2>0. StreamOf(w, j) BY <1>a DEF WatchOK
  <2>1. CASE j = k
    <3>1. Ordered(Pipe(w), k, due[w][k], hand[w][k], next[w][k])' BY <1>b, <1>f, <1>g, <1>i
    <3>2. k \in keys BY <1>a, <1>e, <1>k DEF WatchOK, StreamOf
    <3>3. since[w][k] <= e.rev + 1
      <4>1. since[w][k] <= due[w][k] BY <2>0, <2>1 DEF StreamOf
      <4>2. QED BY <4>1, <1>e, <1>h, <1>i DEF Positive
    <3>4. QED BY <2>0, <2>1, <3>1, <3>2, <3>3, <1>b, <1>f DEF StreamOf
  <2>2. CASE j # k
    <3>1. Head(Pipe(w)).key # j BY <2>2, <1>g, <1>q
    <3>2. Ordered(Tail(Pipe(w)), j, due[w][j], hand[w][j], next[w][j])
      BY <2>0, <3>1, <1>c, <1>g, OrderedReceiveOther DEF StreamOf
    <3>3. Ordered(Pipe(w), j, due[w][j], hand[w][j], next[w][j])' BY <2>2, <3>2, <1>b, <1>f, <1>g
    <3>4. QED BY <2>0, <2>2, <3>3, <1>b, <1>f DEF StreamOf
  <2>3. QED BY <2>1, <2>2
<1>3. ClosedOK(w)' BY <1>a, <1>b, <1>f DEF WatchOK, ClosedOK, Running
<1>4. Caused(w)'
  <2>1. CASE ended'[w] = "objectDeleted"
    <3>1. log[k][e.rev] = "Delete"
      <4>1. IsDeletion(e) BY <2>1, <1>a, <1>b DEF TypeOK
      <4>2. QED BY <4>1, <1>q DEF IsDeletion
    <3>2. due'[w][k] - 1 = e.rev BY <1>e, <1>f DEF Positive
    <3>3. due'[w][k] > since[w][k]
      <4>1. since[w][k] <= due[w][k] BY <1>a, <1>e DEF WatchOK, StreamOf
      <4>2. QED BY <4>1, <1>e, <1>f, <1>h, <1>i DEF Positive
    <3>4. k \in Watched(w)' BY <1>b, <1>k DEF Watched
    <3>5. QED BY <2>1, <3>1, <3>2, <3>3, <3>4, <1>a, <1>b, <1>k DEF Caused, WatchOK
  <2>2. CASE ended'[w] # "objectDeleted"
    <3>1. ended'[w] = "open" BY <2>2, <1>a, <1>b DEF TypeOK
    <3>2. QED BY <3>1, <1>a, <1>b DEF WatchOK, Caused
  <2>3. QED BY <2>1, <2>2
<1>5. WatchOK(w)' BY <1>2, <1>3, <1>4, <1>b, <1>j DEF WatchOK
<1>6. QED BY <1>1, <1>5, <1>b, <1>f, OneWatchStep DEF stores

\* A watch context ends because it was cancelled, or its channel closed.
LEMMA EndContextStep ==
  ASSUME Inductive, NEW w \in Watches, NEW why \in {"baseDone", "channelClosed"}, EndContext(w, why)
  PROVE  Inductive'
<1>a. TypeOK /\ WatchOK(w) BY InductiveByWatch DEF WatchesOK
<1>b. /\ w \in cancelled \/ adapter[w].closed
      /\ ended' = [ended EXCEPT ![w] = why]
      /\ UNCHANGED <<keys, log, watch, cancelled, next, hand, returned, channel, adapter, since, due>>
  BY DEF EndContext, stores, goroutines
<1>c. ended'[w] = why /\ \A v \in Watches \ {w} : Same(v)
  BY <1>a, <1>b DEF TypeOK, Same
<1>d. w \in cancelled BY <1>a, <1>b DEF WatchOK, ClosedOK, Caused
<1>e. watch[w].state # "none"
  <2>1. watch[w].by = "context" BY DEF EndContext
  <2>2. QED BY <2>1, <1>a DEF WatchOK, NotBegun
<1>f. Pipe(w)' = Pipe(w) BY <1>b DEF Pipe
<1>1. TypeOK' BY <1>a, <1>b DEF TypeOK
<1>2. \A j \in Keys : StreamOf(w, j)'
  <2> SUFFICES ASSUME NEW j \in Keys PROVE StreamOf(w, j)'
    OBVIOUS
  <2>0. StreamOf(w, j) BY <1>a DEF WatchOK
  <2>1. Ordered(Pipe(w), j, due[w][j], hand[w][j], next[w][j])' BY <2>0, <1>b, <1>f DEF StreamOf
  <2>2. QED BY <2>0, <2>1, <1>b DEF StreamOf
<1>3. ClosedOK(w)' BY <1>a, <1>b DEF WatchOK, ClosedOK, Running
<1>4. Caused(w)'
  <2>1. ended'[w] # "objectDeleted" BY <1>c
  <2>2. QED BY <2>1, <1>b, <1>d DEF Caused
<1>5. WatchOK(w)' BY <1>2, <1>3, <1>4, <1>b, <1>e DEF WatchOK
<1>6. QED BY <1>1, <1>5, <1>b, <1>c, OneWatchStep DEF stores

\* A write to the store: keys and logs only grow, and a goroutine begins only
\* for a key that is being created, at its first revision.
LEMMA StoreStep ==
  ASSUME Inductive, TypeOK', KeysKnown', \A v \in Watches : Attached(v)', keys \subseteq keys',
         UNCHANGED <<watch, cancelled, hand, returned, channel, adapter, ended, since, due>>,
         \A j \in Keys : \A r \in 1..Len(log[j]) : r \in 1..Len(log'[j]) /\ log'[j][r] = log[j][r],
         \A j \in Keys : Len(log[j]) <= Len(log'[j]),
         \A v \in Watches, j \in Keys :
           \/ next'[v][j] = next[v][j]
           \/ /\ next'[v][j] = 1 /\ j \notin keys /\ j \in keys'
              /\ watch[v].state = "active" /\ j \in watch[v].keys
  PROVE  Inductive'
<1>a. TypeOK /\ \A v \in Watches : WatchOK(v) BY InductiveByWatch DEF WatchesOK
<1>1. ASSUME NEW v \in Watches PROVE WatchOK(v)'
  <2>a. Pipe(v)' = Pipe(v) BY DEF Pipe
  <2>b. watch[v].state # "active" => \A j \in Keys : next'[v][j] = next[v][j] OBVIOUS
  <2>1. watch'[v].state = "none" => NotBegun(v)'
    BY <1>a, <2>a, <2>b DEF WatchOK, NotBegun
  <2>2. \A j \in Keys : StreamOf(v, j)'
    <3> SUFFICES ASSUME NEW j \in Keys PROVE StreamOf(v, j)'
      OBVIOUS
    <3>0. StreamOf(v, j) BY <1>a DEF WatchOK
    <3>t. /\ next[v][j] \in Nat /\ hand[v][j] \in Nat
          /\ Len(log[j]) \in Nat /\ Len(log'[j]) \in Nat
      BY <1>a DEF TypeOK
    <3>1. CASE next'[v][j] = next[v][j]
      <4>1. Ordered(Pipe(v), j, due[v][j], hand[v][j], next[v][j])' BY <3>0, <3>1, <2>a DEF StreamOf
      <4>2. next[v][j] <= Len(log[j]) + 1 => next[v][j] <= Len(log'[j]) + 1 BY <3>t
      <4>3. QED BY <3>0, <3>1, <4>1, <4>2 DEF StreamOf
    <3>2. CASE /\ next'[v][j] = 1 /\ j \notin keys /\ j \in keys'
               /\ watch[v].state = "active" /\ j \in watch[v].keys
      <4>1. next[v][j] = 0 /\ due[v][j] = 1 BY <3>0, <3>2 DEF StreamOf
      <4>2. hand[v][j] = 0
        <5>1. hand[v][j] # 0 => next[v][j] = hand[v][j] + 1 BY <3>0 DEF StreamOf, Ordered
        <5>2. QED BY <5>1, <4>1, <3>t
      <4>3. Ordered(Pipe(v), j, 1, 0, 0) BY <3>0, <4>1, <4>2 DEF StreamOf
      <4>4. Ordered(Pipe(v), j, 1, 0, 1) BY <4>3, OrderedAttach
      <4>5. Ordered(Pipe(v), j, due[v][j], hand[v][j], next[v][j])'
        BY <4>1, <4>2, <4>4, <3>2, <2>a
      <4>6. 1 <= Len(log'[j]) + 1 BY <3>t
      <4>7. QED BY <3>0, <3>2, <4>5, <4>6, <4>2 DEF StreamOf
    <3>3. QED BY <3>1, <3>2
  <2>3. ClosedOK(v)' BY <1>a, <2>b DEF WatchOK, ClosedOK, Running
  <2>4. Caused(v)'
    <3>1. watch[v].keys \subseteq Keys /\ \A j \in Keys : due[v][j] \in Nat \ {0} BY <1>a DEF TypeOK
    <3>2. \A j \in Watched(v) : j \in Watched(v)'
      <4> SUFFICES ASSUME NEW j \in Watched(v) PROVE j \in Watched(v)'
        OBVIOUS
      <4>1. j \in Keys /\ next[v][j] # 0 /\ j \in watch[v].keys BY <3>1 DEF Watched
      <4>2. next'[v][j] # 0 BY <4>1
      <4>3. QED BY <4>1, <4>2 DEF Watched
    <3>3. \A j \in Watched(v) : j \in Keys BY <3>1 DEF Watched
    <3>4. Caused(v) BY <1>a DEF WatchOK
    <3>5. QED BY <3>2, <3>3, <3>4 DEF Caused
  <2>5. QED BY <2>1, <2>2, <2>3, <2>4 DEF WatchOK
<1>2. WatchesOK' BY <1>1 DEF WatchesOK
<1>3. QED BY <1>2, InductiveByWatch, PTL

\* A log that one more write is appended to.
LEMMA LogGrows ==
  ASSUME TypeOK, NEW k \in Keys, NEW x \in {"Put", "Delete"}, log' = [log EXCEPT ![k] = Append(log[k], x)]
  PROVE  /\ log' \in [Keys -> Seq({"Put", "Delete"})]
         /\ \A j \in Keys \ {k} : log'[j] = log[j]
         /\ \A j \in Keys : \A r \in 1..Len(log[j]) : r \in 1..Len(log'[j]) /\ log'[j][r] = log[j][r]
         /\ \A j \in Keys : Len(log[j]) <= Len(log'[j])
<1>1. log \in [Keys -> Seq({"Put", "Delete"})] BY DEF TypeOK
<1>2. \A j \in Keys : log[j] \in Seq({"Put", "Delete"}) /\ Len(log[j]) \in Nat BY <1>1
<1>3. /\ Append(log[k], x) \in Seq({"Put", "Delete"}) /\ Len(Append(log[k], x)) = Len(log[k]) + 1
      /\ \A r \in 1..Len(log[k]) : Append(log[k], x)[r] = log[k][r]
  BY <1>2, AppendProperties
<1>4. log'[k] = Append(log[k], x) /\ \A j \in Keys \ {k} : log'[j] = log[j] BY <1>1
<1>5. log' \in [Keys -> Seq({"Put", "Delete"})] BY <1>1, <1>3
<1>6. ASSUME NEW j \in Keys
      PROVE  /\ Len(log[j]) <= Len(log'[j])
             /\ \A r \in 1..Len(log[j]) : r \in 1..Len(log'[j]) /\ log'[j][r] = log[j][r]
  <2>1. CASE j = k BY <2>1, <1>2, <1>3, <1>4
  <2>2. CASE j # k BY <2>2, <1>2, <1>4
  <2>3. QED BY <2>1, <2>2
<1>7. QED BY <1>4, <1>5, <1>6

\* PutValue writes the log of k or leaves it alone.
LEMMA PutValueFacts ==
  ASSUME TypeOK, NEW k \in Keys, PutValue(k) \/ log' = log
  PROVE  /\ log' \in [Keys -> Seq({"Put", "Delete"})]
         /\ \A j \in Keys \ {k} : log'[j] = log[j]
         /\ \A j \in Keys : \A r \in 1..Len(log[j]) : r \in 1..Len(log'[j]) /\ log'[j][r] = log[j][r]
         /\ \A j \in Keys : Len(log[j]) <= Len(log'[j])
<1>1. CASE log' = log
  <2>1. \A j \in Keys : Len(log[j]) \in Nat BY DEF TypeOK
  <2>2. QED BY <1>1, <2>1 DEF TypeOK
<1>2. CASE log' = [log EXCEPT ![k] = Append(log[k], "Put")] BY <1>2, LogGrows
<1>3. QED BY <1>1, <1>2 DEF PutValue

\* A write to a key that exists.
LEMMA WriteStep ==
  ASSUME Inductive, NEW k \in Keys, Put(k) \/ Delete(k)
  PROVE  Inductive'
<1>a. TypeOK /\ KeysKnown /\ \A v \in Watches : Attached(v) BY InductiveByWatch DEF WatchesOK
<1>b. /\ k \in keys
      /\ UNCHANGED <<keys, watch, cancelled, next, hand, returned, channel, adapter, ended, since, due>>
  BY DEF Put, Delete, goroutines, reader
<1>c. /\ log' \in [Keys -> Seq({"Put", "Delete"})]
      /\ \A j \in Keys \ {k} : log'[j] = log[j]
      /\ \A j \in Keys : \A r \in 1..Len(log[j]) : r \in 1..Len(log'[j]) /\ log'[j][r] = log[j][r]
      /\ \A j \in Keys : Len(log[j]) <= Len(log'[j])
  BY <1>a, LogGrows, PutValueFacts DEF Put, Delete
<1>1. TypeOK' BY <1>a, <1>b, <1>c DEF TypeOK
<1>2. KeysKnown' BY <1>a, <1>b, <1>c DEF KeysKnown
<1>3. \A v \in Watches : Attached(v)' BY <1>a, <1>b DEF Attached
<1>4. QED BY <1>1, <1>2, <1>3, <1>b, <1>c, StoreStep

\* Put of a new key: the matching watches are attached first.
LEMMA PutNewStep ==
  ASSUME Inductive, NEW k \in Keys, PutNew(k)
  PROVE  Inductive'
<1>a. TypeOK /\ KeysKnown /\ \A v \in Watches : Attached(v) BY InductiveByWatch DEF WatchesOK
<1> DEFINE matching == {w \in Watches : watch[w].state = "active" /\ k \in watch[w].keys}
           refused  == {w \in matching : Refuses(k, watch[w].rev)}
<1>b. /\ k \notin keys /\ keys' = keys \cup {k}
      /\ UNCHANGED <<watch, cancelled, hand, returned, channel, adapter, ended, since, due>>
  BY DEF PutNew, reader
<1>c. /\ log' \in [Keys -> Seq({"Put", "Delete"})]
      /\ \A j \in Keys \ {k} : log'[j] = log[j]
      /\ \A j \in Keys : \A r \in 1..Len(log[j]) : r \in 1..Len(log'[j]) /\ log'[j][r] = log[j][r]
      /\ \A j \in Keys : Len(log[j]) <= Len(log'[j])
  <2>1. PutValue(k) \/ log' = log BY DEF PutNew
  <2>2. QED BY <2>1, <1>a, PutValueFacts
<1>d. PICK W \in SUBSET matching : Attach(k, W) /\ (refused = {} => W = matching)
  <2>1. CASE refused = {}
    <3>1. Attach(k, matching) BY <2>1 DEF PutNew
    <3>2. QED BY <3>1
  <2>2. CASE refused # {}
    <3>1. \E W \in SUBSET (matching \ refused) : Attach(k, W) BY <2>2 DEF PutNew
    <3>2. QED BY <2>2, <3>1
  <2>3. QED BY <2>1, <2>2
<1>e. \A v \in Watches : next'[v] = IF v \in W THEN [next[v] EXCEPT ![k] = 1] ELSE next[v]
  BY <1>d DEF Attach
<1>f. \A v \in Watches, j \in Keys :
        next'[v][j] = IF v \in W /\ j = k THEN 1 ELSE next[v][j]
  <2> SUFFICES ASSUME NEW v \in Watches, NEW j \in Keys
               PROVE  next'[v][j] = IF v \in W /\ j = k THEN 1 ELSE next[v][j]
    OBVIOUS
  <2>1. next[v] \in [Keys -> Nat] BY <1>a DEF TypeOK
  <2>2. CASE v \in W
    <3>1. next'[v] = [next[v] EXCEPT ![k] = 1] BY <2>2, <1>e
    <3>2. QED BY <2>1, <2>2, <3>1
  <2>3. CASE v \notin W BY <2>3, <1>e
  <2>4. QED BY <2>2, <2>3
<1>g. \A v \in W : watch[v].state = "active" /\ k \in watch[v].keys BY <1>d
<1>1. TypeOK'
  <2>1. next' \in [Watches -> [Keys -> Nat]] BY <1>a, <1>d DEF Attach, TypeOK
  <2>2. QED BY <2>1, <1>a, <1>b, <1>c DEF TypeOK
<1>2. KeysKnown' BY <1>a, <1>b, <1>c DEF KeysKnown
<1>3. \A v \in Watches : Attached(v)'
  <2> SUFFICES ASSUME NEW v \in Watches, watch'[v].state = "active",
                      \A u \in Watches : watch'[u].rev \in {Unset, 0},
                      NEW j \in watch'[v].keys \cap keys'
               PROVE  next'[v][j] # 0
    BY DEF Attached
  <2>1. \A u \in Watches : watch[u].rev \in {Unset, 0} BY <1>b
  <2>2. watch[v].state = "active" /\ j \in watch[v].keys /\ j \in Keys BY <1>a, <1>b DEF TypeOK
  <2>3. CASE j = k
    <3>1. refused = {} BY <2>1, InputsAssumption DEF Refuses
    <3>2. v \in W BY <2>2, <2>3, <3>1, <1>d
    <3>3. QED BY <2>2, <2>3, <3>2, <1>f
  <2>4. CASE j # k
    <3>1. j \in keys BY <2>4, <1>b
    <3>2. next[v][j] # 0 BY <2>1, <2>2, <3>1, <1>a DEF Attached
    <3>3. QED BY <2>2, <2>4, <3>2, <1>f
  <2>5. QED BY <2>3, <2>4
<1>4. \A v \in Watches, j \in Keys :
        \/ next'[v][j] = next[v][j]
        \/ /\ next'[v][j] = 1 /\ j \notin keys /\ j \in keys'
           /\ watch[v].state = "active" /\ j \in watch[v].keys
  <2> SUFFICES ASSUME NEW v \in Watches, NEW j \in Keys, ~(v \in W /\ j = k)
               PROVE  next'[v][j] = next[v][j]
    <3>1. k \notin keys /\ k \in keys' BY <1>b
    <3>2. \A v \in W : v \in Watches /\ next'[v][k] = 1 BY <1>d, <1>f
    <3>3. QED BY <3>1, <3>2, <1>g
  <2>1. QED BY <1>f
<1>5. QED BY <1>1, <1>2, <1>3, <1>4, <1>b, <1>c, StoreStep

-----------------------------------------------------------------------------
(* The invariant, and what follows from it.                                 *)

LEMMA StutterStep ==
  ASSUME Inductive, UNCHANGED vars
  PROVE  Inductive'
<1>1. UNCHANGED <<keys, log, watch, cancelled, next, hand, returned, channel, adapter, ended, since, due>>
  BY DEF vars, stores, goroutines, reader
<1>a. TypeOK /\ KeysKnown /\ \A v \in Watches : Attached(v) /\ WatchOK(v)
  BY InductiveByWatch DEF WatchesOK
<1>2. TypeOK' /\ KeysKnown' BY <1>a, <1>1 DEF TypeOK, KeysKnown
<1>3. \A v \in Watches : Attached(v)' BY <1>a, <1>1 DEF Attached
<1>4. \A v \in Watches : WatchOK(v)' BY <1>a, <1>1, SameKept DEF Same, stores
<1>5. WatchesOK' BY <1>3, <1>4 DEF WatchesOK
<1>6. QED BY <1>2, <1>5, InductiveByWatch, PTL

LEMMA InductiveInvariant == Spec => []Inductive
<1>1. ASSUME Inductive, [Next]_vars PROVE Inductive'
  <2>1. CASE UNCHANGED vars BY <1>1, <2>1, StutterStep
  <2>2. ASSUME NEW k \in Keys, PutNew(k) \/ Put(k) \/ Delete(k) PROVE Inductive'
    BY <1>1, <2>2, PutNewStep, WriteStep
  <2>3. ASSUME NEW w \in Watches, NEW s \in Selections, NEW rev \in WatchRevisions,
               NEW by \in Readers, Watch(w, s, rev, by)
        PROVE  Inductive'
    BY <1>1, <2>3, WatchStep
  <2>4. ASSUME NEW w \in Watches, Cancel(w) \/ Remove(w) \/ Close(w) PROVE Inductive'
    BY <1>1, <2>4, StateStep
  <2>5. ASSUME NEW w \in Watches, NEW k \in Keys, Take(w, k) \/ Forward(w, k) \/ Return(w, k)
        PROVE  Inductive'
    BY <1>1, <2>5, TakeStep, ForwardStep, ReturnStep
  <2>6. ASSUME NEW w \in Watches, Relay(w) \/ Deliver(w) \/ CloseOut(w) \/ Receive(w)
        PROVE  Inductive'
    BY <1>1, <2>6, AdapterStep, ReceiveStep
  <2>7. ASSUME NEW w \in Watches, NEW why \in {"baseDone", "channelClosed"}, EndContext(w, why)
        PROVE  Inductive'
    BY <1>1, <2>7, EndContextStep
  <2>8. QED BY <1>1, <2>1, <2>2, <2>3, <2>4, <2>5, <2>6, <2>7 DEF Next, SystemStep
<1>2. QED BY <1>1, InitInductive, PTL DEF Spec

\* No channel of the store or of an adapter ever holds more than its capacity,
\* and every variable keeps its type.
THEOREM TypeCorrect == Spec => []TypeOK
<1>1. Inductive => TypeOK BY DEF Inductive
<1>2. QED BY <1>1, InductiveInvariant, PTL

\* An active watch misses nothing: every revision of a key it selected, from
\* the one its reader is due to read, is on its way to it, once and in order,
\* also for the keys that Put creates while watches are opened and cancelled.
THEOREM NothingMissedCorrect == Spec => []NothingMissed
<1>1. Inductive => NothingMissed
  <2> SUFFICES ASSUME Inductive, NEW w \in Watches, watch[w].state = "active", NEW k \in watch[w].keys
               PROVE  /\ Ordered(Pipe(w), k, due[w][k], hand[w][k], next[w][k])
                      /\ log[k] # <<>> /\ (\A v \in Watches : watch[v].rev \in {Unset, 0}) =>
                           next[w][k] # 0
    BY DEF NothingMissed
  <2>1. k \in Keys BY DEF Inductive, TypeOK
  <2>2. StreamOf(w, k) /\ Attached(w) /\ (log[k] # <<>> => k \in keys) BY <2>1 DEF Inductive
  <2>3. QED BY <2>2 DEF StreamOf, Attached
<1>2. QED BY <1>1, InductiveInvariant, PTL

\* No goroutine of a watch writes to its channel after it was closed, and the
\* adapter closes its own channel after the last event.
THEOREM ClosedLastCorrect == Spec => []ClosedLast
<1>1. Inductive => ClosedLast BY DEF Inductive
<1>2. QED BY <1>1, InductiveInvariant, PTL

\* A watch context that is done has the cause its Err gives.
THEOREM EndsForCauseCorrect == Spec => []EndsForCause
<1>1. Inductive => EndsForCause
  <2> SUFFICES ASSUME Inductive, NEW w \in Watches
               PROVE  /\ ended[w] = "objectDeleted" =>
                           \E k \in Watched(w) : due[w][k] > since[w][k] /\ Known(w, k) = 0
                      /\ ended[w] \in {"baseDone", "channelClosed"} => w \in cancelled
    BY DEF EndsForCause
  <2>1. Caused(w) BY DEF Inductive
  <2>2. QED BY <2>1 DEF Caused, Known, LiveAt
<1>2. QED BY <1>1, InductiveInvariant, PTL
=============================================================================
