----------------------------- MODULE Crd_proofs ------------------------------
(***************************************************************************)
(* Proofs about Crd for every number of clients, watches and writes, every *)
(* size of the entries and every limit of the annotation and the channels. *)
(***************************************************************************)
EXTENDS Crd, TLAPS, WellFoundedInduction, SequenceTheorems

-----------------------------------------------------------------------------
(* The least and the greatest of a set of indices.                          *)

\* A non-empty set of naturals has a least element, which Min chooses.
LEMMA MinFacts ==
  ASSUME NEW S, S \subseteq Nat, S # {}
  PROVE  Min(S) \in S /\ \A j \in S : Min(S) <= j
<1>1. \E i \in S : \A j \in S : ~ (<<j, i>> \in OpToRel(<, Nat))
  BY NatLessThanWellFounded, WFMin, Zenon
<1>2. \A i, j \in Nat : j < i => <<j, i>> \in OpToRel(<, Nat)
  BY DEF OpToRel
<1>3. \E i \in S : \A j \in S : ~(j < i)
  BY <1>1, <1>2, Zenon
<1>4. \E i \in S : \A j \in S : i <= j
  BY <1>3
<1> QED BY <1>4 DEF Min

\* A non-empty set of naturals that has a bound has a greatest element, which
\* Max chooses.
LEMMA MaxFacts ==
  ASSUME NEW n \in Nat, NEW S, S \subseteq 0..n, S # {}
  PROVE  Max(S) \in S /\ \A j \in S : j <= Max(S)
<1> DEFINE T == {m \in 0..n : n - m \in S}
<1>1. \A i \in S : n - i \in T
  OBVIOUS
<1>2. T \subseteq Nat /\ T # {}
  <2>1. PICK i : i \in S
    OBVIOUS
  <2>2. n - i \in T
    BY <2>1, <1>1
  <2> QED BY <2>2
<1>3. PICK m \in T : \A l \in T : m <= l
  <2> HIDE DEF T
  <2> QED BY <1>2, MinFacts
<1>4. \E i \in S : \A j \in S : i >= j
  <2>1. n - m \in S /\ m \in 0..n
    BY <1>3
  <2>2. \A j \in S : m <= n - j
    BY <1>1, <1>3
  <2> QED BY <2>1, <2>2
<1>5. Max(S) \in S /\ \A j \in S : Max(S) >= j
  BY <1>4 DEF Max
<1> QED BY <1>5

-----------------------------------------------------------------------------
(* Recursive functions: SizeOf and the loop of InitialEvents are what their *)
(* equations say.  Each fact is proved by a least counterexample.           *)

\* The sums of the first elements of a sequence exist ...
LEMMA TotalExists ==
  ASSUME NEW n \in Nat, NEW a \in [1..n -> Nat]
  PROVE  \E f \in [0..n -> Nat] : f[0] = 0 /\ \A i \in 1..n : f[i] = f[i - 1] + a[i]
<1> DEFINE Good(m) ==
             \E f \in [0..m -> Nat] : f[0] = 0 /\ \A i \in 1..m : f[i] = f[i - 1] + a[i]
           Bad == {m \in 0..n : ~Good(m)}
<1>1. Good(0)
  <2> WITNESS [i \in 0..0 |-> 0] \in [0..0 -> Nat]
  <2> QED OBVIOUS
<1>2. ASSUME NEW m \in 1..n, Good(m - 1) PROVE Good(m)
  <2>1. PICK f \in [0..(m - 1) -> Nat] :
          f[0] = 0 /\ \A i \in 1..(m - 1) : f[i] = f[i - 1] + a[i]
    BY <1>2
  <2> DEFINE g == [i \in 0..m |-> IF i = m THEN f[m - 1] + a[m] ELSE f[i]]
  <2>2. m - 1 \in 0..(m - 1) /\ f[m - 1] \in Nat /\ a[m] \in Nat
    OBVIOUS
  <2>3. \A i \in 0..m : i # m => i \in 0..(m - 1)
    OBVIOUS
  <2>4. g \in [0..m -> Nat]
    BY <2>2, <2>3
  <2>5. g[0] = 0
    BY <2>1
  <2>6. ASSUME NEW i \in 1..m PROVE g[i] = g[i - 1] + a[i]
    <3>1. i - 1 \in 0..m /\ i - 1 # m /\ g[i - 1] = f[i - 1]
      OBVIOUS
    <3>2. CASE i = m
      BY <3>1, <3>2
    <3>3. CASE i # m
      <4>1. i \in 1..(m - 1) /\ g[i] = f[i]
        BY <3>3
      <4> QED BY <4>1, <3>1, <2>1
    <3> QED BY <3>2, <3>3
  <2> HIDE DEF g
  <2> QED BY <2>4, <2>5, <2>6
<1>3. Bad = {}
  <2> SUFFICES ASSUME Bad # {} PROVE FALSE
    OBVIOUS
  <2>1. Bad \subseteq Nat
    OBVIOUS
  <2>2. PICK m \in Bad : \A j \in Bad : m <= j
    <3> HIDE DEF Bad
    <3> QED BY <2>1, MinFacts
  <2>3. m \in 0..n /\ ~Good(m)
    OBVIOUS
  <2> HIDE DEF Good
  <2>4. m # 0
    BY <2>3, <1>1
  <2>5. m \in 1..n /\ m - 1 \in 0..n /\ ~(m <= m - 1)
    BY <2>3, <2>4
  <2>6. Good(m - 1)
    BY <2>2, <2>5
  <2> QED BY <1>2, <2>3, <2>5, <2>6
<1>4. Good(n)
  <2> HIDE DEF Good
  <2> QED BY <1>3
<1> QED BY <1>4

\* ... and the size is the last of them, whatever solution of its equation
\* is chosen.
LEMMA SizeIs ==
  ASSUME NEW s, NEW n \in Nat, Len(s) = n, NEW f \in [0..n -> Nat], f[0] = 0,
         \A i \in 1..n : f[i] = f[i - 1] + Size[s[i].value]
  PROVE  SizeOf(s) = f[n]
<1> DEFINE P(t) == t = [i \in 0..n |-> IF i = 0 THEN 0 ELSE t[i - 1] + Size[s[i].value]]
           total == CHOOSE t : P(t)
<1>1. SizeOf(s) = total[n]
  BY DEF SizeOf
<1>2. P(f)
  OBVIOUS
<1>3. P(total)
  BY <1>2
<1> HIDE DEF total
<1>4. total[0] = f[0]
  BY <1>3
<1>5. \A i \in 1..n : total[i] = total[i - 1] + Size[s[i].value]
  BY <1>3
<1> HIDE DEF P
<1> DEFINE Bad == {i \in 0..n : total[i] # f[i]}
<1>6. ASSUME Bad # {} PROVE FALSE
  <2>1. Bad \subseteq Nat
    OBVIOUS
  <2>2. PICK m \in Bad : \A j \in Bad : m <= j
    <3> HIDE DEF Bad
    <3> QED BY <2>1, <1>6, MinFacts
  <2>3. m \in 1..n
    BY <1>4
  <2>4. m - 1 \in 0..n /\ ~(m <= m - 1)
    BY <2>3
  <2>5. total[m - 1] = f[m - 1]
    BY <2>2, <2>4
  <2> QED BY <2>2, <2>3, <2>5, <1>5
<1>7. total[n] = f[n]
  BY <1>6
<1> QED BY <1>1, <1>7

\* An entry more makes the annotation larger by its size, and the size depends
\* on nothing but the values.
LEMMA SizeFacts ==
  ASSUME NEW s, NEW n \in Nat, Len(s) = n, \A i \in 1..n : Size[s[i].value] \in Nat
  PROVE  /\ SizeOf(s) \in Nat
         /\ \A t : Len(t) = n /\ (\A i \in 1..n : t[i].value = s[i].value) => SizeOf(t) = SizeOf(s)
         /\ \A t : /\ Len(t) = n + 1 /\ \A i \in 1..n : t[i].value = s[i].value
                   /\ Size[t[n + 1].value] \in Nat
                   => SizeOf(s) <= SizeOf(t)
<1> DEFINE a == [i \in 1..n |-> Size[s[i].value]]
<1>1. PICK f \in [0..n -> Nat] : f[0] = 0 /\ \A i \in 1..n : f[i] = f[i - 1] + a[i]
  <2>1. a \in [1..n -> Nat]
    OBVIOUS
  <2> HIDE DEF a
  <2> QED BY <2>1, TotalExists
<1>2. \A i \in 1..n : f[i] = f[i - 1] + Size[s[i].value]
  BY <1>1
<1> HIDE DEF a
<1>3. SizeOf(s) = f[n] /\ f[n] \in Nat
  <2>1. SizeOf(s) = f[n]
    BY ONLY <1>1, <1>2, n \in Nat, Len(s) = n, SizeIs
  <2> QED BY <2>1
<1>4. ASSUME NEW t, Len(t) = n, \A i \in 1..n : t[i].value = s[i].value
      PROVE  SizeOf(t) = SizeOf(s)
  <2>1. ASSUME NEW i \in 1..n PROVE f[i] = f[i - 1] + Size[t[i].value]
    BY <1>2, <1>4, Zenon
  <2>2. SizeOf(t) = f[n]
    BY ONLY <1>1, <1>4, <2>1, n \in Nat, SizeIs
  <2> QED BY <1>3, <2>2
<1>5. ASSUME NEW t, Len(t) = n + 1, \A i \in 1..n : t[i].value = s[i].value,
             Size[t[n + 1].value] \in Nat
      PROVE  SizeOf(s) <= SizeOf(t)
  <2> DEFINE x == Size[t[n + 1].value]
             g == [i \in 0..(n + 1) |-> IF i = n + 1 THEN f[n] + x ELSE f[i]]
  <2>1. g \in [0..(n + 1) -> Nat] /\ g[0] = 0 /\ g[n + 1] = f[n] + x
    <3>1. \A i \in 0..(n + 1) : i # n + 1 => i \in 0..n
      OBVIOUS
    <3> HIDE DEF x
    <3> QED BY <3>1, <1>1, <1>3, <1>5 DEF x
  <2>2. ASSUME NEW i \in 1..(n + 1) PROVE g[i] = g[i - 1] + Size[t[i].value]
    <3>1. i - 1 \in 0..(n + 1) /\ i - 1 # n + 1 /\ g[i - 1] = f[i - 1]
      OBVIOUS
    <3>2. CASE i = n + 1
      BY <3>1, <3>2
    <3>3. CASE i # n + 1
      <4>1. i \in 1..n /\ g[i] = f[i]
        BY <3>3
      <4> QED BY <4>1, <3>1, <1>2, <1>5
    <3> QED BY <3>2, <3>3
  <2> HIDE DEF g, x
  <2>3. SizeOf(t) = g[n + 1]
    <3>1. \A i \in 1..(n + 1) : g[i] = g[i - 1] + Size[t[i].value]
      BY <2>2
    <3>2. PICK m \in Nat : m = n + 1
      OBVIOUS
    <3>3. /\ Len(t) = m /\ g \in [0..m -> Nat] /\ g[0] = 0
          /\ \A i \in 1..m : g[i] = g[i - 1] + Size[t[i].value]
      BY <3>1, <3>2, <2>1, <1>5
    <3>4. SizeOf(t) = g[m]
      BY ONLY <3>3, m \in Nat, SizeIs
    <3> QED BY <3>2, <3>4
  <2> QED BY <2>1, <2>3, <1>3, <1>5 DEF x
<1> QED BY <1>3, <1>4, <1>5

-----------------------------------------------------------------------------
(* The annotation.                                                          *)

\* The parts of a sequence.
LEMMA SubSeqFacts ==
  ASSUME NEW S, NEW s \in Seq(S), NEW i \in 1..(Len(s) + 1), NEW j \in (i - 1)..Len(s)
  PROVE  /\ SubSeq(s, i, j) \in Seq(S) /\ Len(SubSeq(s, i, j)) = j - i + 1
         /\ \A k \in 1..(j - i + 1) : SubSeq(s, i, j)[k] = s[i + k - 1]
<1>1. Len(s) \in Nat /\ \A k \in i..j : s[k] \in S
  OBVIOUS
<1>2. /\ SubSeq(s, i, j) \in Seq(S) /\ Len(SubSeq(s, i, j)) = IF i <= j THEN j - i + 1 ELSE 0
      /\ \A k \in 1..(j - i + 1) : SubSeq(s, i, j)[k] = s[i + k - 1]
  BY <1>1, SubSeqProperties
<1>3. (IF i <= j THEN j - i + 1 ELSE 0) = j - i + 1
  BY <1>1
<1> QED BY <1>2, <1>3

LEMMA AppendFacts ==
  ASSUME NEW S, NEW s \in Seq(S), NEW e \in S
  PROVE  /\ Append(s, e) \in Seq(S) /\ Len(s) \in Nat /\ Len(Append(s, e)) = Len(s) + 1
         /\ \A k \in 1..Len(s) : Append(s, e)[k] = s[k]
         /\ Append(s, e)[Len(s) + 1] = e
OBVIOUS

LEMMA LargerOfTwo ==
  ASSUME NEW x \in Int
  PROVE  Max({1, x}) = IF x > 1 THEN x ELSE 1
BY DEF Max

\* An entry of the annotation.
Entries == [rev : Revisions, value : Revisions]

\* encodeHistory keeps the longest end of a list all of whose ends fit.
LEMMA EncodeFacts ==
  ASSUME NEW s \in Seq(Entries), NEW m \in Nat, m = Len(s),
         \A i \in 1..m : SizeOf(SubSeq(s, i, m)) \in Nat
  PROVE  \E from \in 1..(m + 1) :
           /\ encodeHistory(s) = SubSeq(s, from, m)
           /\ \A i \in from..m : SizeOf(SubSeq(s, i, m)) <= MaxAnnotationSize
           /\ from > 1 => SizeOf(SubSeq(s, from - 1, m)) > MaxAnnotationSize
<1> DEFINE tooLong == {i \in 1..m : SizeOf(SubSeq(s, i, m)) > MaxAnnotationSize}
           from == IF tooLong = {} THEN 1 ELSE Max(tooLong) + 1
<1>1. encodeHistory(s) = SubSeq(s, from, m)
  BY DEF encodeHistory
<1>2. \A i \in 1..m : i \in tooLong <=> ~(SizeOf(SubSeq(s, i, m)) <= MaxAnnotationSize)
  BY ParametersAssumption
<1>3. CASE tooLong = {}
  <2>1. from = 1
    BY <1>3
  <2>2. \A i \in 1..m : SizeOf(SubSeq(s, i, m)) <= MaxAnnotationSize
    BY <1>2, <1>3
  <2> HIDE DEF from
  <2> WITNESS 1 \in 1..(m + 1)
  <2> QED BY <1>1, <2>1, <2>2
<1>4. CASE tooLong # {}
  <2>1. tooLong \subseteq 0..m
    OBVIOUS
  <2>2. Max(tooLong) \in tooLong /\ \A j \in tooLong : j <= Max(tooLong)
    <3> HIDE DEF tooLong
    <3> QED BY <1>4, <2>1, MaxFacts
  <2>3. PICK x \in tooLong : x = Max(tooLong)
    BY <2>2
  <2>4. from = x + 1 /\ x \in 1..m /\ from \in 1..(m + 1)
    BY <1>4, <2>3
  <2>5. \A i \in (x + 1)..m : i \in 1..m /\ i \notin tooLong
    <3>1. \A i \in (x + 1)..m : i \in 1..m /\ ~(i <= x)
      BY <2>4
    <3> QED BY <3>1, <2>2, <2>3
  <2>6. SizeOf(SubSeq(s, x, m)) > MaxAnnotationSize
    BY <2>3
  <2>7. \A i \in (x + 1)..m : SizeOf(SubSeq(s, i, m)) <= MaxAnnotationSize
    BY <2>5, <1>2
  <2>8. (x + 1) - 1 = x /\ x + 1 \in 1..(m + 1)
    BY <2>4
  <2> HIDE DEF from, tooLong
  <2> QED BY <1>1, <2>4, <2>6, <2>7, <2>8
<1> QED BY <1>3, <1>4

\* What the invariant says of the log and the object, entry by entry.
LEMMA LogFacts ==
  ASSUME TypeOK, LogOK
  PROVE  /\ log \in Seq(Events) /\ Len(log) \in Nat /\ version = Len(log) /\ Len(log) <= MaxVersion
         /\ MaxVersion \in Nat
         /\ \A i \in 1..Len(log) :
              /\ log[i] \in Events
              /\ ~log[i].delete => log[i].rev = i /\ log[i].value = i
              /\ log[i].delete => i > 1 /\ ~log[i - 1].delete /\ log[i].rev = 0 /\ log[i].value = i - 1
              /\ log[i].prev = PutBefore(i)
              /\ log[i].value \in 1..MaxVersion /\ Size[log[i].value] \in Nat
<1>1. log \in Seq(Events) /\ Len(log) \in Nat /\ version = Len(log) /\ version \in Revisions
  BY DEF TypeOK, LogOK
<1>2. Len(log) <= MaxVersion /\ MaxVersion \in Nat
  BY <1>1, ParametersAssumption DEF Revisions
<1>3. ASSUME NEW i \in 1..Len(log)
      PROVE  /\ log[i] \in Events
             /\ ~log[i].delete => log[i].rev = i /\ log[i].value = i
             /\ log[i].delete => i > 1 /\ ~log[i - 1].delete /\ log[i].rev = 0 /\ log[i].value = i - 1
             /\ log[i].prev = PutBefore(i)
             /\ log[i].value \in 1..MaxVersion /\ Size[log[i].value] \in Nat
  <2>1. log[i] \in Events
    BY <1>1
  <2>2. /\ log[i].delete => PutBefore(i) # 0
        /\ log[i].prev = PutBefore(i)
        /\ log[i].rev = IF log[i].delete THEN 0 ELSE i
        /\ log[i].value = IF log[i].delete THEN i - 1 ELSE i
    <3>1. /\ log[i].delete => PutBefore(i) # 0
          /\ log[i] = [delete |-> log[i].delete, prev |-> PutBefore(i),
                       rev |-> IF log[i].delete THEN 0 ELSE i,
                       value |-> IF log[i].delete THEN i - 1 ELSE i]
      BY DEF LogOK
    <3>2. PICK e, d, p : e = log[i] /\ d = log[i].delete /\ p = PutBefore(i)
      OBVIOUS
    <3>3. e = [delete |-> d, prev |-> p, rev |-> IF d THEN 0 ELSE i, value |-> IF d THEN i - 1 ELSE i]
      BY <3>1, <3>2, Zenon
    <3>4. e.prev = p /\ e.rev = (IF d THEN 0 ELSE i) /\ e.value = IF d THEN i - 1 ELSE i
      BY ONLY <3>3
    <3> QED BY <3>1, <3>2, <3>4, Zenon
  <2>3. log[i].delete => i > 1 /\ ~log[i - 1].delete
    BY <2>2 DEF PutBefore
  <2>4. log[i].value \in 1..MaxVersion
    BY <2>2, <2>3, <1>1, <1>2
  <2>5. Size[log[i].value] \in Nat
    BY <2>4, ParametersAssumption
  <2> QED BY <2>1, <2>2, <2>3, <2>4, <2>5
<1> QED BY <1>1, <1>2, <1>3

\* The same as a state predicate, for the next state.
LogShape ==
  \A i \in 1..Len(log) :
    /\ ~log[i].delete => log[i].rev = i /\ log[i].value = i
    /\ log[i].delete => i > 1 /\ ~log[i - 1].delete /\ log[i].rev = 0 /\ log[i].value = i - 1
    /\ log[i].prev = PutBefore(i)

LEMMA LogShapeHolds == TypeOK /\ LogOK => LogShape
BY LogFacts DEF LogShape

\* What the invariant says of the object.
LEMMA ObjectFacts ==
  ASSUME TypeOK, LogOK, ObjectOK, HistoryIsLog, object # None
  PROVE  LET n == Len(log)
             h == Len(object.history)
         IN /\ object \in Objects /\ object.history \in Seq(Entries)
            /\ n \in Nat /\ h \in Nat /\ h <= HistoryLimit /\ h < n
            /\ object.rev = n /\ object.value = n /\ Kept = (n - h)..(n - 1)
            /\ \A i \in (n - h)..n : ~log[i].delete
            /\ \A i \in 1..h : object.history[i] = [rev |-> n - h - 1 + i, value |-> n - h - 1 + i]
<1> DEFINE n == Len(log)
           h == Len(object.history)
<1>1. /\ object \in Objects /\ h <= HistoryLimit
  BY DEF TypeOK
<1>2. object.history \in Seq(Entries) /\ h \in Nat
  BY <1>1 DEF Objects, Entries
<1>3. n \in Nat /\ object.rev = n /\ n >= 1 /\ ~log[n].delete
  <2>1. n \in Nat
    BY LogFacts
  <2>2. PutBefore(n + 1) = object.rev /\ object.rev # 0
    BY DEF ObjectOK
  <2> HIDE DEF n
  <2>3. (n + 1) - 1 = n
    BY <2>1
  <2> QED BY <2>1, <2>2, <2>3 DEF PutBefore
<1> HIDE DEF n, h
<1>4. Kept = (n - h)..(n - 1)
  BY DEF HistoryIsLog, n, h
<1>5. h < n
  <2>1. CASE h = 0
    BY <2>1, <1>3
  <2>2. CASE h # 0
    <3>1. n - h \in Kept
      BY <2>2, <1>2, <1>3, <1>4
    <3>2. n - h >= 1
      BY <3>1, <1>2, <1>3 DEF Kept, n
    <3> QED BY <3>2, <1>2, <1>3
  <2> QED BY <2>1, <2>2
<1>6. ASSUME NEW i \in (n - h)..n PROVE ~log[i].delete
  <2>1. CASE i = n
    BY <2>1, <1>3
  <2>2. CASE i # n
    <3>1. i \in Kept /\ i \in i..(n - 1)
      BY <2>2, <1>2, <1>3, <1>4
    <3> QED BY <3>1 DEF Kept, n
  <2> QED BY <2>1, <2>2
<1> DEFINE E(i) == [rev |-> log[n - h - 1 + i].rev, value |-> log[n - h - 1 + i].value]
<1>7. Append(object.history, Entry(object)) = [i \in 1..(h + 1) |-> E(i)]
  BY DEF HistoryIsLog, readHistory, n, h
<1>8. /\ \A i \in 1..h : object.history[i] = E(i)
      /\ Entry(object) = E(h + 1)
  <2>1. Entry(object) \in Entries
    BY <1>1 DEF Entry, Entries, Objects
  <2>2. PICK a, b : a = object.history /\ b = Entry(object)
    OBVIOUS
  <2>6. a \in Seq(Entries) /\ b \in Entries /\ Len(a) = h
    BY <2>1, <2>2, <1>2 DEF h
  <2>3. Append(a, b) = [i \in 1..(h + 1) |-> E(i)]
    BY <2>2, <1>7, Zenon
  <2>4. /\ \A k \in 1..h : Append(a, b)[k] = a[k]
        /\ Append(a, b)[h + 1] = b
    BY ONLY <2>6, AppendFacts
  <2> HIDE DEF E
  <2>5. (\A i \in 1..h : i \in 1..(h + 1)) /\ h + 1 \in 1..(h + 1)
    BY <1>2
  <2> QED BY <2>2, <2>3, <2>4, <2>5
<1>9. ASSUME NEW i \in 1..(h + 1) PROVE E(i) = [rev |-> n - h - 1 + i, value |-> n - h - 1 + i]
  <2>1. n - h - 1 + i \in (n - h)..n /\ n - h - 1 + i \in 1..n
    BY <1>2, <1>3, <1>5
  <2>2. ~log[n - h - 1 + i].delete
    BY <2>1, <1>6
  <2> QED BY <2>1, <2>2, LogFacts DEF n
<1>10. object.value = n
  <2>1. E(h + 1).value = n - h - 1 + (h + 1)
    <3>1. h + 1 \in 1..(h + 1)
      BY <1>2
    <3> HIDE DEF E
    <3>2. E(h + 1) = [rev |-> n - h - 1 + (h + 1), value |-> n - h - 1 + (h + 1)]
      BY <3>1, <1>9
    <3> QED BY <3>2
  <2>2. n - h - 1 + (h + 1) = n
    BY <1>2, <1>3
  <2> HIDE DEF E
  <2> QED BY <2>1, <2>2, <1>8 DEF Entry
<1>11. ASSUME NEW i \in 1..h
       PROVE  object.history[i] = [rev |-> n - h - 1 + i, value |-> n - h - 1 + i]
  <2>1. i \in 1..(h + 1)
    BY <1>2
  <2> QED BY <2>1, <1>8, <1>9
<1> QED BY <1>1, <1>2, <1>3, <1>4, <1>5, <1>6, <1>10, <1>11 DEF n, h

\* The size of the entries of an end of the log.
LEMMA LogSize ==
  ASSUME TypeOK, LogOK, NEW n \in Nat, n = Len(log), NEW j \in 1..n
  PROVE  /\ SizeOf(SubSeq(log, j, n)) \in Nat
         /\ \A t : Len(t) = n - j + 1 /\ (\A i \in 1..(n - j + 1) : t[i].value = log[j + i - 1].value)
                     => SizeOf(t) = SizeOf(SubSeq(log, j, n))
<1> DEFINE s == SubSeq(log, j, n)
<1>1. PICK m \in Nat : m = n - j + 1
  OBVIOUS
<1>2. log \in Seq(Events) /\ \A i \in 1..n : Size[log[i].value] \in Nat
  BY LogFacts
<1>3. Len(s) = m /\ \A i \in 1..m : s[i] = log[j + i - 1]
  <2>1. j \in 1..(Len(log) + 1) /\ n \in (j - 1)..Len(log)
    OBVIOUS
  <2> QED BY <2>1, <1>1, <1>2, SubSeqFacts
<1>4. \A i \in 1..m : j + i - 1 \in 1..n
  BY <1>1
<1>5. \A i \in 1..m : Size[s[i].value] \in Nat
  BY <1>2, <1>3, <1>4
<1>6. /\ SizeOf(s) \in Nat
      /\ \A t : Len(t) = m /\ (\A i \in 1..m : t[i].value = s[i].value) => SizeOf(t) = SizeOf(s)
  <2> HIDE DEF s
  <2> QED BY <1>3, <1>5, SizeFacts
<1>7. ASSUME NEW t, Len(t) = m, \A i \in 1..m : t[i].value = log[j + i - 1].value
      PROVE  SizeOf(t) = SizeOf(s)
  <2>1. \A i \in 1..m : t[i].value = s[i].value
    <3> HIDE DEF s
    <3> QED BY <1>3, <1>7
  <2> QED BY <1>6, <1>7, <2>1
<1> QED BY <1>1, <1>6, <1>7

\* What Put makes of the annotation: an end of the log again, as long as the
\* limits allow.
LEMMA AnnotationFacts ==
  ASSUME TypeOK, LogOK, ObjectOK, HistoryIsLog, object # None,
         NEW n \in Nat, n = Len(log), NEW h \in Nat, h = Len(object.history)
  PROVE  \E g \in Nat :
           /\ appendSpecToHistory(object) \in Seq(Entries) /\ Len(appendSpecToHistory(object)) = g
           /\ g <= HistoryLimit /\ g <= h + 1
           /\ \A i \in 1..g : appendSpecToHistory(object)[i] = [rev |-> n - g + i, value |-> n - g + i]
           /\ \A j \in (n - g + 1)..n : SizeOf(SubSeq(log, j, n)) <= MaxAnnotationSize
           /\ \/ g = HistoryLimit \/ g = h + 1
              \/ n - g \in 1..n /\ SizeOf(SubSeq(log, n - g, n)) > MaxAnnotationSize
<1>1. /\ object \in Objects /\ object.history \in Seq(Entries)
      /\ h <= HistoryLimit /\ h < n /\ object.rev = n /\ object.value = n
      /\ \A i \in (n - h)..n : ~log[i].delete
      /\ \A i \in 1..h : object.history[i] = [rev |-> n - h - 1 + i, value |-> n - h - 1 + i]
  BY ObjectFacts
<1>2. HistoryLimit \in Nat \ {0} /\ MaxAnnotationSize \in Nat
  BY ParametersAssumption
<1>b. n \in Nat /\ h \in Nat /\ HistoryLimit \in Nat \ {0} /\ h <= HistoryLimit /\ h < n
  BY <1>1, <1>2
<1> DEFINE entries == Append(object.history, Entry(object))
           a == Max({1, Len(entries) - HistoryLimit + 1})
           part == SubSeq(entries, a, Len(entries))
<1>3. /\ entries \in Seq(Entries) /\ Len(entries) = h + 1
      /\ \A i \in 1..(h + 1) : entries[i] = [rev |-> n - h - 1 + i, value |-> n - h - 1 + i]
  <2>1. Entry(object) \in Entries /\ Entry(object) = [rev |-> n, value |-> n]
    BY <1>1 DEF Entry, Entries, Objects
  <2>2. /\ entries \in Seq(Entries) /\ Len(entries) = h + 1 /\ entries[h + 1] = Entry(object)
        /\ \A k \in 1..h : entries[k] = object.history[k]
    BY <2>1, <1>1, AppendFacts
  <2> HIDE DEF entries
  <2>3. ASSUME NEW i \in 1..(h + 1)
        PROVE  entries[i] = [rev |-> n - h - 1 + i, value |-> n - h - 1 + i]
    <3>1. CASE i = h + 1
      <4>1. n - h - 1 + i = n
        BY ONLY <3>1, <1>b
      <4> QED BY <4>1, <3>1, <2>1, <2>2
    <3>2. CASE i # h + 1
      <4>1. i \in 1..h
        BY ONLY <3>2, <1>b, i \in 1..(h + 1)
      <4> QED BY <4>1, <2>2, <1>1
    <3> QED BY <3>1, <3>2
  <2> QED BY <2>2, <2>3
<1> HIDE DEF entries
<1>4. a = IF h + 1 - HistoryLimit + 1 > 1 THEN h + 1 - HistoryLimit + 1 ELSE 1
  <2>1. Len(entries) - HistoryLimit + 1 \in Int
    BY <1>2, <1>3
  <2>2. Len(entries) - HistoryLimit + 1 = h + 1 - HistoryLimit + 1
    <3>1. PICK l \in Nat : l = Len(entries)
      BY <1>3
    <3>2. l = h + 1
      BY <1>3, <3>1
    <3>3. l - HistoryLimit + 1 = h + 1 - HistoryLimit + 1
      BY ONLY <3>2, <1>b
    <3> QED BY <3>1, <3>3
  <2>3. PICK x \in Int : x = Len(entries) - HistoryLimit + 1
    BY <2>1
  <2>4. Max({1, x}) = IF x > 1 THEN x ELSE 1
    BY LargerOfTwo
  <2> QED BY <2>2, <2>3, <2>4
<1> HIDE DEF a
<1>5. PICK m \in Nat : m = h + 2 - a
  <2>1. h + 2 - a \in Nat
    BY ONLY <1>b, <1>4
  <2> QED BY <2>1
<1>6. /\ a \in 1..(h + 1) /\ m <= HistoryLimit /\ m <= h + 1 /\ (m = HistoryLimit \/ m = h + 1)
      /\ m <= n
  BY ONLY <1>b, <1>4, <1>5
<1>7. /\ part \in Seq(Entries) /\ Len(part) = m
      /\ \A i \in 1..m : part[i] = [rev |-> n - m + i, value |-> n - m + i]
  <2>1. a \in 1..(Len(entries) + 1) /\ Len(entries) \in (a - 1)..Len(entries) /\ Len(entries) - a + 1 = m
    BY <1>3, <1>5, <1>6
  <2>2. /\ part \in Seq(Entries) /\ Len(part) = m /\ \A i \in 1..m : part[i] = entries[a + i - 1]
    BY <2>1, <1>3, SubSeqFacts
  <2> HIDE DEF part
  <2>3. ASSUME NEW i \in 1..m PROVE part[i] = [rev |-> n - m + i, value |-> n - m + i]
    <3>1. a + i - 1 \in 1..(h + 1) /\ n - h - 1 + (a + i - 1) = n - m + i
      BY <1>5, <1>6
    <3>2. entries[a + i - 1] = [rev |-> n - h - 1 + (a + i - 1), value |-> n - h - 1 + (a + i - 1)]
      BY <3>1, <1>3
    <3> QED BY <2>2, <3>1, <3>2
  <2> QED BY <2>2, <2>3
<1>8. appendSpecToHistory(object) = encodeHistory(part)
  BY DEF appendSpecToHistory, part, a, entries
<1> HIDE DEF part
<1>9. ASSUME NEW i \in 1..m
      PROVE  /\ n - m + i \in 1..n
             /\ SizeOf(SubSeq(part, i, m)) = SizeOf(SubSeq(log, n - m + i, n))
             /\ SizeOf(SubSeq(part, i, m)) \in Nat
  <2>1. PICK j \in 1..n : j = n - m + i
    <3>1. n - m + i \in 1..n
      BY ONLY <1>b, <1>6, m \in Nat, i \in 1..m
    <3> QED BY <3>1
  <2>2. n - j + 1 = m - i + 1
    BY <2>1
  <2>3. Len(SubSeq(part, i, m)) = m - i + 1 /\ \A k \in 1..(m - i + 1) : SubSeq(part, i, m)[k] = part[i + k - 1]
    <3>1. i \in 1..(Len(part) + 1) /\ m \in (i - 1)..Len(part)
      BY <1>7
    <3> QED BY <3>1, <1>7, SubSeqFacts
  <2>4. ASSUME NEW k \in 1..(n - j + 1) PROVE SubSeq(part, i, m)[k].value = log[j + k - 1].value
    <3>1. /\ k \in 1..(m - i + 1) /\ i + k - 1 \in 1..m /\ n - m + (i + k - 1) = j + k - 1
          /\ j + k - 1 \in (n - h)..n /\ j + k - 1 \in 1..n
      BY <2>1, <2>2, <1>1, <1>6
    <3>2. SubSeq(part, i, m)[k].value = j + k - 1
      <4>1. SubSeq(part, i, m)[k] = part[i + k - 1]
        BY <3>1, <2>3
      <4>2. part[i + k - 1].value = n - m + (i + k - 1)
        BY <3>1, <1>7
      <4> QED BY <4>1, <4>2, <3>1
    <3>3. log[j + k - 1].value = j + k - 1
      BY <3>1, <1>1, LogFacts
    <3> QED BY <3>2, <3>3
  <2>5. /\ SizeOf(SubSeq(log, j, n)) \in Nat
        /\ \A t : Len(t) = n - j + 1 /\ (\A l \in 1..(n - j + 1) : t[l].value = log[j + l - 1].value)
                     => SizeOf(t) = SizeOf(SubSeq(log, j, n))
    BY LogSize
  <2>6. SizeOf(SubSeq(part, i, m)) = SizeOf(SubSeq(log, j, n))
    BY <2>2, <2>3, <2>4, <2>5
  <2> QED BY <2>1, <2>5, <2>6
<1>10. PICK from \in 1..(m + 1) :
         /\ encodeHistory(part) = SubSeq(part, from, m)
         /\ \A i \in from..m : SizeOf(SubSeq(part, i, m)) <= MaxAnnotationSize
         /\ from > 1 => SizeOf(SubSeq(part, from - 1, m)) > MaxAnnotationSize
  BY <1>7, <1>9, EncodeFacts
<1>11. PICK g \in Nat : g = m - from + 1
  OBVIOUS
<1>12. /\ appendSpecToHistory(object) \in Seq(Entries) /\ Len(appendSpecToHistory(object)) = g
       /\ \A i \in 1..g : appendSpecToHistory(object)[i] = [rev |-> n - g + i, value |-> n - g + i]
  <2>1. from \in 1..(Len(part) + 1) /\ m \in (from - 1)..Len(part)
    BY <1>7
  <2>2. /\ SubSeq(part, from, m) \in Seq(Entries) /\ Len(SubSeq(part, from, m)) = g
        /\ \A k \in 1..g : SubSeq(part, from, m)[k] = part[from + k - 1]
    <3>1. PICK s \in Seq(Entries) : s = part
      BY <1>7
    <3>2. from \in 1..(Len(s) + 1) /\ m \in (from - 1)..Len(s)
      BY <2>1, <3>1, Zenon
    <3>3. /\ SubSeq(s, from, m) \in Seq(Entries) /\ Len(SubSeq(s, from, m)) = m - from + 1
          /\ \A k \in 1..(m - from + 1) : SubSeq(s, from, m)[k] = s[from + k - 1]
      BY ONLY <3>2, s \in Seq(Entries), SubSeqFacts
    <3> QED BY <3>1, <3>3, <1>11, Zenon
  <2>3. ASSUME NEW k \in 1..g PROVE part[from + k - 1] = [rev |-> n - g + k, value |-> n - g + k]
    <3>1. from + k - 1 \in 1..m /\ n - m + (from + k - 1) = n - g + k
      BY <1>11
    <3> QED BY <3>1, <1>7
  <2> QED BY <2>2, <2>3, <1>8, <1>10
<1>13. ASSUME NEW j \in (n - g + 1)..n PROVE SizeOf(SubSeq(log, j, n)) <= MaxAnnotationSize
  <2>1. PICK i \in from..m : i = j - n + m
    BY <1>11
  <2>2. i \in 1..m /\ n - m + i = j
    BY <2>1
  <2> QED BY <2>1, <2>2, <1>9, <1>10
<1>14. \/ g = HistoryLimit \/ g = h + 1
       \/ n - g \in 1..n /\ SizeOf(SubSeq(log, n - g, n)) > MaxAnnotationSize
  <2>1. CASE from = 1
    BY <2>1, <1>6, <1>11
  <2>2. CASE from > 1
    <3>1. PICK i \in 1..m : i = from - 1
      BY <2>2
    <3>2. n - m + i = n - g
      BY <3>1, <1>11
    <3>3. SizeOf(SubSeq(part, i, m)) > MaxAnnotationSize
      BY <3>1, <2>2, <1>10
    <3> QED BY <3>2, <3>3, <1>9
  <2> QED BY <2>1, <2>2
<1>15. g <= HistoryLimit /\ g <= h + 1
  BY <1>2, <1>6, <1>11
<1> QED BY <1>12, <1>13, <1>14, <1>15

\* A put with that annotation leaves the annotation the log's again.
LEMMA HistoryAfterUpdate ==
  ASSUME TypeOK, LogOK, ObjectOK, HistoryIsLog, object # None,
         TypeOK', LogOK', NEW e, log' = Append(log, e), e.delete = FALSE,
         object' = [rev |-> version + 1, value |-> version + 1, history |-> appendSpecToHistory(object)]
  PROVE  HistoryIsLog'
<1>1. PICK n \in Nat, h \in Nat : n = Len(log) /\ h = Len(object.history)
  BY ObjectFacts
<1>2. /\ h <= HistoryLimit /\ h < n /\ Kept = (n - h)..(n - 1) /\ \A i \in (n - h)..n : ~log[i].delete
  BY <1>1, ObjectFacts
<1>3. PICK g \in Nat :
         /\ appendSpecToHistory(object) \in Seq(Entries) /\ Len(appendSpecToHistory(object)) = g
         /\ g <= HistoryLimit /\ g <= h + 1
         /\ \A i \in 1..g : appendSpecToHistory(object)[i] = [rev |-> n - g + i, value |-> n - g + i]
         /\ \A j \in (n - g + 1)..n : SizeOf(SubSeq(log, j, n)) <= MaxAnnotationSize
         /\ \/ g = HistoryLimit \/ g = h + 1
            \/ n - g \in 1..n /\ SizeOf(SubSeq(log, n - g, n)) > MaxAnnotationSize
  BY <1>1, AnnotationFacts
<1>a. \A k \in 1..n : Size[log[k].value] \in Nat
  BY <1>1, LogFacts
<1>b. n \in Nat /\ h \in Nat /\ g \in Nat /\ h < n /\ h <= HistoryLimit /\ HistoryLimit \in Nat
      /\ g <= HistoryLimit /\ g <= h + 1 /\ MaxAnnotationSize \in Nat
  BY <1>2, <1>3, ParametersAssumption
<1>4. /\ log \in Seq(Events) /\ log' \in Seq(Events) /\ Len(log') = n + 1
      /\ version = n
      /\ \A i \in 1..n : log'[i] = log[i]
      /\ log'[n + 1].delete = FALSE
  <2>1. log \in Seq(Events) /\ log' \in Seq(Events) /\ version = n
    BY <1>1, LogFacts DEF TypeOK
  <2> QED BY <2>1, <1>1
<1>5. ASSUME NEW j \in 1..n PROVE SubSeq(log', j, n) = SubSeq(log, j, n)
  <2>1. \A i \in j..n : log'[i] = log[i] /\ log[i] \in Events
    BY <1>4, <1>1
  <2> QED BY <2>1, <1>1, <1>4, SubSeqFacts
<1>6. ASSUME NEW j \in 1..n
      PROVE  Fits(j)' <=> n + 1 - j <= HistoryLimit /\ SizeOf(SubSeq(log, j, n)) <= MaxAnnotationSize
  <2>1. Len(log') - 1 = n
    BY <1>4
  <2>2. SubSeq(log', j, Len(log') - 1) = SubSeq(log, j, n)
    BY <2>1, <1>5
  <2>3. Fits(j)' <=> /\ Len(log') - j <= HistoryLimit
                     /\ SizeOf(SubSeq(log', j, Len(log') - 1)) <= MaxAnnotationSize
    BY DEF Fits, SizeOf
  <2>4. SizeOf(SubSeq(log', j, Len(log') - 1)) = SizeOf(SubSeq(log, j, n))
    BY <2>2, Zenon
  <2>5. Len(log') - j = n + 1 - j
    BY <1>4
  <2> QED BY <2>3, <2>4, <2>5, Zenon
<1>7. ASSUME NEW j \in 1..n, ~log[j].delete, j < n, ~Fits(j) PROVE ~Fits(j)'
  <2>1. CASE ~(n - j <= HistoryLimit)
    <3>1. ~(n + 1 - j <= HistoryLimit)
      BY ONLY <1>b, <2>1, j \in 1..n
    <3> QED BY <3>1, <1>6
  <2>2. CASE n - j <= HistoryLimit
    <3>1. ~(SizeOf(SubSeq(log, j, n - 1)) <= MaxAnnotationSize)
      BY <2>2, <1>7, <1>1 DEF Fits
    <3>2. SizeOf(SubSeq(log, j, n - 1)) <= SizeOf(SubSeq(log, j, n))
      <4> DEFINE s == SubSeq(log, j, n - 1)
                 t == SubSeq(log, j, n)
      <4>1. PICK m \in Nat : m = n - j
        OBVIOUS
      <4>2. /\ Len(s) = m /\ \A i \in 1..m : s[i] = log[j + i - 1]
            /\ Len(t) = m + 1 /\ \A i \in 1..(m + 1) : t[i] = log[j + i - 1]
        <5>1. /\ j \in 1..(Len(log) + 1) /\ n - 1 \in (j - 1)..Len(log) /\ n \in (j - 1)..Len(log)
              /\ (n - 1) - j + 1 = m /\ n - j + 1 = m + 1
          BY <1>1, <1>7, <4>1
        <5> QED BY <5>1, <1>4, SubSeqFacts
      <4>3. \A i \in 1..(m + 1) : j + i - 1 \in 1..n
        BY <4>1
      <4>4. ASSUME NEW i \in 1..(m + 1) PROVE Size[log[j + i - 1].value] \in Nat
        <5>1. PICK k \in 1..n : k = j + i - 1
          BY <4>3
        <5> QED BY <5>1, <1>a
      <4> HIDE DEF s, t
      <4>5. /\ \A i \in 1..m : Size[s[i].value] \in Nat /\ t[i].value = s[i].value
            /\ Size[t[m + 1].value] \in Nat
        <5>1. ASSUME NEW i \in 1..m PROVE Size[s[i].value] \in Nat /\ t[i].value = s[i].value
          <6>1. i \in 1..(m + 1)
            OBVIOUS
          <6>2. s[i] = log[j + i - 1] /\ t[i] = log[j + i - 1]
            BY <4>2, <6>1, Zenon
          <6>3. Size[log[j + i - 1].value] \in Nat
            BY <4>4, <6>1, Zenon
          <6> QED BY <6>2, <6>3, Zenon
        <5>2. Size[t[m + 1].value] \in Nat
          <6>1. m + 1 \in 1..(m + 1)
            OBVIOUS
          <6> QED BY <6>1, <4>2, <4>4, Zenon
        <5> QED BY <5>1, <5>2, Zenon
      <4>6. SizeOf(s) <= SizeOf(t)
        BY <4>2, <4>5, SizeFacts
      <4> QED BY <4>6 DEF s, t
    <3>3. SizeOf(SubSeq(log, j, n - 1)) \in Nat /\ SizeOf(SubSeq(log, j, n)) \in Nat
      <4>1. SizeOf(SubSeq(log, j, n)) \in Nat
        BY <1>1, LogSize
      <4>2. SizeOf(SubSeq(log, j, n - 1)) \in Nat
        <5>1. PICK m \in Nat : m = n - j
          OBVIOUS
        <5>2. Len(SubSeq(log, j, n - 1)) = m /\ \A i \in 1..m : SubSeq(log, j, n - 1)[i] = log[j + i - 1]
          <6>1. j \in 1..(Len(log) + 1) /\ n - 1 \in (j - 1)..Len(log) /\ (n - 1) - j + 1 = m
            BY <1>1, <1>7, <5>1
          <6> QED BY <6>1, <1>4, SubSeqFacts
        <5>3. \A i \in 1..m : j + i - 1 \in 1..n
          BY <5>1
        <5>4. ASSUME NEW i \in 1..m PROVE Size[SubSeq(log, j, n - 1)[i].value] \in Nat
          <6>1. PICK k \in 1..n : k = j + i - 1
            BY <5>3
          <6> QED BY <6>1, <5>2, <1>a
        <5> QED BY <5>2, <5>4, SizeFacts
      <4> QED BY <4>1, <4>2
    <3>4. ~(SizeOf(SubSeq(log, j, n)) <= MaxAnnotationSize)
      BY ONLY <3>1, <3>2, <3>3, <1>b
    <3> QED BY <3>4, <1>6
  <2> QED BY <2>1, <2>2
<1>8. ASSUME NEW i \in (n + 1 - g)..n PROVE i \in 1..n /\ ~log'[i].delete /\ Fits(i)'
  <2>1. i \in 1..n /\ i \in (n - h)..n /\ i \in (n - g + 1)..n /\ n + 1 - i <= HistoryLimit
    BY ONLY <1>b, i \in (n + 1 - g)..n
  <2> QED BY <2>1, <1>2, <1>3, <1>4, <1>6
<1>9. ASSUME NEW i \in 1..n, i < n + 1 - g
      PROVE  \E j \in i..n : log'[j].delete \/ ~Fits(j)'
  <2>1. n - g \in i..n /\ n - g \in 1..n /\ n + 1 - (n - g) = g + 1
    BY ONLY <1>b, <1>9, i \in 1..n
  <2>2. CASE g = HistoryLimit
    <3>1. ~Fits(n - g)'
      <4>1. ~(n + 1 - (n - g) <= HistoryLimit)
        BY ONLY <1>b, <2>1, <2>2
      <4>2. PICK j \in 1..n : j = n - g
        BY <2>1
      <4> QED BY <4>1, <4>2, <1>6
    <3> QED BY <2>1, <3>1
  <2>3. CASE SizeOf(SubSeq(log, n - g, n)) > MaxAnnotationSize
    <3>1. ~Fits(n - g)'
      <4>1. PICK j \in 1..n : j = n - g
        BY <2>1
      <4>2. SizeOf(SubSeq(log, j, n)) \in Nat
        BY <1>1, LogSize
      <4>3. ~(SizeOf(SubSeq(log, j, n)) <= MaxAnnotationSize)
        BY <4>1, <4>2, <2>3, <1>b
      <4> QED BY <4>1, <4>3, <1>6
    <3> QED BY <2>1, <3>1
  <2>4. CASE g = h + 1
    <3>1. i \in 1..(n - 1) /\ i \notin (n - h)..(n - 1)
      BY ONLY <1>b, <1>9, <2>4, i \in 1..n
    <3>2. i \notin Kept
      BY <3>1, <1>2
    <3>3. PICK j \in i..(n - 1) : log[j].delete \/ ~Fits(j)
      BY <3>1, <3>2, <1>1 DEF Kept
    <3>4. j \in 1..n /\ j \in i..n /\ j < n
      BY <3>1
    <3> QED BY <3>3, <3>4, <1>4, <1>7
  <2> QED BY <2>2, <2>3, <2>4, <1>3
<1>10. Kept' = (n + 1 - g)..n
  <2>1. Len(log') - 1 = n
    BY <1>4
  <2>2. Kept' = {i \in 1..n : \A j \in i..n : ~log'[j].delete /\ Fits(j)'}
    BY <2>1 DEF Kept
  <2>3. ASSUME NEW i \in (n + 1 - g)..n PROVE i \in 1..n /\ \A j \in i..n : ~log'[j].delete /\ Fits(j)'
    <3>1. \A j \in i..n : j \in (n + 1 - g)..n
      BY <1>b
    <3> QED BY <3>1, <1>8
  <2>4. ASSUME NEW i \in 1..n, \A j \in i..n : ~log'[j].delete /\ Fits(j)' PROVE i \in (n + 1 - g)..n
    <3>1. ~(i < n + 1 - g)
      BY <1>9, <2>4
    <3> QED BY ONLY <3>1, <1>b, i \in 1..n
  <2> QED BY <2>2, <2>3, <2>4
<1>11. /\ object'.history \in Seq(Entries) /\ Len(object'.history) = g
       /\ Entry(object)' = [rev |-> n + 1, value |-> n + 1]
       /\ \A i \in 1..g : object'.history[i] = [rev |-> n - g + i, value |-> n - g + i]
  BY <1>3, <1>4 DEF Entry
<1>12. readHistory(object)' = [i \in 1..(g + 1) |-> [rev |-> log'[n - g + i].rev, value |-> log'[n - g + i].value]]
  <2> DEFINE s == Append(object'.history, Entry(object)')
  <2>1. readHistory(object)' = s
    BY DEF readHistory, Entry
  <2>2. n + 1 \in Revisions
    BY <1>4, <1>1 DEF TypeOK, LogOK
  <2>3. Entry(object)' \in Entries
    BY <1>11, <2>2 DEF Entries
  <2>4. /\ s \in Seq(Entries) /\ Len(s) = g + 1 /\ s[g + 1] = Entry(object)'
        /\ \A i \in 1..g : s[i] = object'.history[i]
    BY <1>11, <2>3, AppendFacts
  <2> HIDE DEF s
  <2>5. ASSUME NEW i \in 1..(g + 1)
        PROVE  s[i] = [rev |-> log'[n - g + i].rev, value |-> log'[n - g + i].value]
    <3>1. PICK j \in 1..(n + 1) : j = n - g + i
      <4>1. n - g + i \in 1..(n + 1)
        BY ONLY <1>b, i \in 1..(g + 1)
      <4> QED BY <4>1
    <3>2. ~log'[j].delete
      <4>1. CASE j = n + 1
        BY <4>1, <1>4
      <4>2. CASE j # n + 1
        <5>1. j \in (n + 1 - g)..n
          BY ONLY <4>2, <3>1, <1>b, i \in 1..(g + 1), j \in 1..(n + 1)
        <5> QED BY <5>1, <1>8
      <4> QED BY <4>1, <4>2
    <3>3. log'[j].rev = j /\ log'[j].value = j
      <4>1. LogShape'
        BY LogShapeHolds, PTL
      <4>2. ~log'[j].delete => log'[j].rev = j /\ log'[j].value = j
        BY <4>1, <1>4 DEF LogShape
      <4> QED BY <4>2, <3>2
    <3>4. s[i] = [rev |-> j, value |-> j]
      <4>1. CASE i = g + 1
        <5>1. j = n + 1
          BY ONLY <4>1, <3>1, <1>b
        <5> QED BY <4>1, <5>1, <2>4, <1>11
      <4>2. CASE i # g + 1
        <5>1. i \in 1..g
          BY ONLY <4>2, <1>b, i \in 1..(g + 1)
        <5> QED BY <5>1, <3>1, <2>4, <1>11
      <4> QED BY <4>1, <4>2
    <3> QED BY <3>1, <3>3, <3>4
  <2>6. s = [i \in 1..(g + 1) |-> s[i]]
    BY <2>4, <1>b
  <2> QED BY <2>1, <2>5, <2>6
<1>13. Len(log') - Len(object'.history) = n + 1 - g /\ Len(log') - 1 = n
  <2>1. PICK x, y : x = Len(log') /\ y = Len(object'.history)
    OBVIOUS
  <2>2. x = n + 1 /\ y = g
    BY <1>4, <1>11, <2>1, Zenon
  <2>3. x - y = n + 1 - g /\ x - 1 = n
    BY ONLY <2>2, n \in Nat, g \in Nat
  <2> QED BY <2>1, <2>3, Zenon
<1>14. \A i \in 1..(g + 1) : (n + 1 - g) - 1 + i = n - g + i
  BY <1>b
<1>15. readHistory(object)' = [i \in 1..(g + 1) |->
         [rev |-> log'[(n + 1 - g) - 1 + i].rev, value |-> log'[(n + 1 - g) - 1 + i].value]]
  BY <1>12, <1>14
<1> QED
  <2> DEFINE x == Len(log') - Len(object'.history)
  <2>1. x = n + 1 - g /\ Len(object'.history) = g /\ Kept' = x..(Len(log') - 1)
    BY <1>10, <1>11, <1>13
  <2>2. readHistory(object)' = [i \in 1..(Len(object'.history) + 1) |->
          [rev |-> log'[x - 1 + i].rev, value |-> log'[x - 1 + i].value]]
    BY <2>1, <1>15
  <2> QED BY <2>1, <2>2 DEF HistoryIsLog

-----------------------------------------------------------------------------
(* The writes.                                                              *)

\* A request that writes the object: it is created, given its next value with
\* its own history, or deleted.
StoreStep ==
  /\ version < MaxVersion
  /\ \/ object = None /\ Store(<<>>)
     \/ object # None /\ Store(appendSpecToHistory(object))
     \/ object # None /\ Vanish

\* An update that succeeds is made with the object as it is.
LEMMA ReadIsObject ==
  ASSUME TypeOK, LogOK, ObjectOK, HistoryIsLog, NEW c \in Clients, CallOK(c),
         call[c].read # None, object # None, object.rev = Required(c)
  PROVE  call[c].read = object
<1> DEFINE r == call[c].rev
           x == call[c].read.rev
<1>1. version \in Nat /\ object.rev = version
  BY ObjectFacts, LogFacts
<1>2. /\ x <= version /\ (r # Unset => r <= x)
      /\ object.rev = x => object = call[c].read
  BY DEF CallOK
<1>3. x \in Nat /\ (r # Unset => r \in Nat)
  BY DEF TypeOK, Revisions, Objects
<1>4. object.rev = IF r = Unset THEN x ELSE r
  BY DEF Required
<1> HIDE DEF r, x
<1> QED BY <1>1, <1>2, <1>3, <1>4

\* What the requests of clients do.
LEMMA ClientStep ==
  ASSUME Inductive, NEW c \in Clients, PutCreate(c) \/ PutUpdate(c) \/ DeleteObject(c)
  PROVE  StoreStep \/ Refuse
<1>1. TypeOK /\ LogOK /\ ObjectOK /\ HistoryIsLog /\ CallOK(c)
  BY DEF Inductive
<1>2. CASE PutCreate(c)
  BY <1>2 DEF PutCreate, StoreStep
<1>3. CASE PutUpdate(c)
  <2>1. CASE object # None /\ object.rev = Required(c)
    <3>1. call[c].read = object
      BY <1>1, <1>3, <2>1, ReadIsObject DEF PutUpdate
    <3> QED BY <1>3, <2>1, <3>1 DEF PutUpdate, StoreStep
  <2>2. CASE ~(object # None /\ object.rev = Required(c))
    BY <1>3, <2>2 DEF PutUpdate
  <2> QED BY <2>1, <2>2
<1>4. CASE DeleteObject(c)
  BY <1>4 DEF DeleteObject, StoreStep
<1> QED BY <1>2, <1>3, <1>4

Types == {"Added", "Modified", "Deleted"}

\* What a write does, with index n + 1, to the log, the object and the API
\* server's watches.
Written(n, e, type, obj) ==
  /\ e \in Events /\ type \in Types /\ obj \in Objects /\ n + 1 \in Revisions
  /\ log' = Append(log, e) /\ version' = n + 1
  /\ Tell(type, obj) /\ Unwatched
  /\ obj.rev = n + 1 /\ obj.value = e.value /\ Len(obj.history) <= HistoryLimit
  /\ e.delete <=> type = "Deleted"
  /\ e = [delete |-> e.delete, prev |-> PutBefore(n + 1),
          rev |-> IF e.delete THEN 0 ELSE n + 1, value |-> IF e.delete THEN n ELSE n + 1]
  /\ e.delete => object' = None /\ object # None /\ PutBefore(n + 1) # 0
  /\ ~e.delete => /\ object' = [rev |-> version + 1, value |-> version + 1, history |-> obj.history]
                  /\ object' = obj
                  /\ obj.history = IF object = None THEN <<>> ELSE appendSpecToHistory(object)

LEMMA StoreStepFacts ==
  ASSUME TypeOK, LogOK, ObjectOK, HistoryIsLog, StoreStep, NEW n \in Nat, n = Len(log)
  PROVE  \E e, type, obj : Written(n, e, type, obj)
<1>1. version = n /\ n + 1 \in Revisions /\ n \in Revisions
  BY LogFacts DEF StoreStep, Revisions
<1>2. 0 \in Revisions
  BY ParametersAssumption DEF Revisions
<1>3. PutBefore(n + 1) = IF object = None THEN 0 ELSE object.rev
  BY DEF ObjectOK
<1>4. object # None => object.rev = n /\ object.value = n /\ object \in Objects
  BY ObjectFacts
<1>5. ASSUME NEW history \in Seq(Entries), Len(history) <= HistoryLimit, Store(history),
             history = IF object = None THEN <<>> ELSE appendSpecToHistory(object)
      PROVE  \E e, type, obj : Written(n, e, type, obj)
  <2> DEFINE obj == [rev |-> n + 1, value |-> n + 1, history |-> history]
             type == IF object = None THEN "Added" ELSE "Modified"
             e == [delete |-> FALSE, rev |-> n + 1, value |-> n + 1,
                   prev |-> IF object = None THEN 0 ELSE object.rev]
  <2>1. obj \in Objects /\ e \in Events /\ type \in Types /\ type # "Deleted"
    BY <1>1, <1>2, <1>4 DEF Objects, Events, Types, Entries
  <2>2. log' = Append(log, e) /\ version' = n + 1 /\ Tell(type, obj) /\ Unwatched /\ object' = obj
    BY <1>1, <1>5 DEF Store
  <2>3. e = [delete |-> e.delete, prev |-> PutBefore(n + 1),
             rev |-> IF e.delete THEN 0 ELSE n + 1, value |-> IF e.delete THEN n ELSE n + 1]
    BY <1>3
  <2>4. Written(n, e, type, obj)
    BY <1>1, <1>5, <2>1, <2>2, <2>3 DEF Written
  <2> QED BY <2>4
<1>6. CASE object = None /\ Store(<<>>)
  <2>1. <<>> \in Seq(Entries) /\ Len(<<>>) <= HistoryLimit
    BY ParametersAssumption
  <2> QED BY <1>5, <1>6, <2>1
<1>7. CASE object # None /\ Store(appendSpecToHistory(object))
  <2>1. appendSpecToHistory(object) \in Seq(Entries) /\ Len(appendSpecToHistory(object)) <= HistoryLimit
    <3>1. PICK h \in Nat : h = Len(object.history)
      BY <1>7, ObjectFacts
    <3> QED BY <3>1, <1>7, AnnotationFacts
  <2> QED BY <1>5, <1>7, <2>1
<1>8. CASE object # None /\ Vanish
  <2> DEFINE obj == [object EXCEPT !.rev = n + 1]
             e == [delete |-> TRUE, rev |-> 0, value |-> object.value, prev |-> object.rev]
  <2>1. /\ obj \in Objects /\ obj.rev = n + 1 /\ obj.value = object.value
        /\ obj.history = object.history
    BY <1>1, <1>4, <1>8 DEF Objects
  <2>2. e \in Events /\ "Deleted" \in Types
    BY <1>1, <1>2, <1>4, <1>8 DEF Events, Types
  <2>3. log' = Append(log, e) /\ version' = n + 1 /\ Tell("Deleted", obj) /\ Unwatched /\ object' = None
    BY <1>1, <1>8 DEF Vanish
  <2>4. e = [delete |-> e.delete, prev |-> PutBefore(n + 1),
             rev |-> IF e.delete THEN 0 ELSE n + 1, value |-> IF e.delete THEN n ELSE n + 1]
    BY <1>3, <1>4, <1>8
  <2>5. PutBefore(n + 1) # 0 /\ Len(object.history) <= HistoryLimit
    BY <1>8 DEF ObjectOK, TypeOK
  <2>6. Written(n, e, "Deleted", obj)
    <3> HIDE DEF obj
    <3> QED BY <1>1, <1>8, <2>1, <2>2, <2>3, <2>4, <2>5 DEF Written
  <2> QED BY <2>6
<1> QED BY <1>6, <1>7, <1>8 DEF StoreStep

\* The log after a write.
LEMMA WrittenLog ==
  ASSUME TypeOK, LogOK, NEW n \in Nat, n = Len(log), NEW e, NEW type, NEW obj,
         Written(n, e, type, obj)
  PROVE  /\ log' \in Seq(Events) /\ Len(log') = n + 1 /\ log'[n + 1] = e
         /\ \A i \in 1..n : log'[i] = log[i]
         /\ \A i \in 1..(n + 1) : PutBefore(i)' = PutBefore(i)
         /\ PutBefore(n + 2)' = IF e.delete THEN 0 ELSE n + 1
         /\ PutBefore(Len(log) + 1)' = IF e.delete THEN 0 ELSE n + 1
<1>1. log \in Seq(Events) /\ e \in Events /\ log' = Append(log, e)
  BY LogFacts DEF Written
<1>2. log' \in Seq(Events) /\ Len(log') = n + 1 /\ log'[n + 1] = e /\ \A i \in 1..n : log'[i] = log[i]
  BY <1>1, AppendFacts
<1>3. ASSUME NEW i \in 1..(n + 1) PROVE PutBefore(i)' = PutBefore(i)
  <2>1. i > 1 => i - 1 \in 1..n
    OBVIOUS
  <2>2. i > 1 => log'[i - 1] = log[i - 1]
    BY <2>1, <1>2
  <2> QED BY <2>2 DEF PutBefore
<1>4. PutBefore(n + 2)' = IF e.delete THEN 0 ELSE n + 1
  <2>1. (n + 2) - 1 = n + 1 /\ n + 2 > 1
    OBVIOUS
  <2>2. log'[(n + 2) - 1] = e
    BY <2>1, <1>2
  <2> QED BY <2>1, <2>2 DEF PutBefore
<1>5. PutBefore(Len(log) + 1)' = IF e.delete THEN 0 ELSE n + 1
  <2>1. (n + 1 + 1) - 1 = n + 1 /\ n + 1 + 1 > 1
    OBVIOUS
  <2>2. Len(log') + 1 = n + 1 + 1
    BY <1>2
  <2>3. log'[(n + 1 + 1) - 1] = e
    BY <2>1, <1>2
  <2> QED BY <2>1, <2>2, <2>3 DEF PutBefore
<1> QED BY <1>2, <1>3, <1>4, <1>5

LEMMA WrittenStream ==
  ASSUME NEW n, NEW e, NEW type, NEW obj, Written(n, e, type, obj), NEW w \in Watches
  PROVE  stream'[w] = IF watch[w].state \in {"initial", "loop"} /\ w \notin ended
                      THEN Append(stream[w], [type |-> type, obj |-> obj]) ELSE stream[w]
BY DEF Written, Tell

Calls == [op : {"none", "put", "delete"}, rev : Revisions \cup {Unset}, read : Objects \cup {None}]
ApiEvents == [type : Types, obj : Objects]

LEMMA WrittenType ==
  ASSUME TypeOK, LogOK, NEW n \in Nat, n = Len(log), NEW e, NEW type, NEW obj,
         Written(n, e, type, obj), call' \in [Clients -> Calls]
  PROVE  TypeOK'
<1>1. version' \in Revisions /\ log' \in Seq(Events)
  BY WrittenLog DEF Written
<1>2. object' \in Objects \cup {None} /\ (object' # None => Len(object'.history) <= HistoryLimit)
  <2>1. CASE e.delete
    BY <2>1 DEF Written
  <2>2. CASE ~e.delete
    BY <2>2 DEF Written
  <2> QED BY <2>1, <2>2
<1>3. stream' \in [Watches -> Seq(ApiEvents)]
  <2>1. ASSUME NEW w \in Watches PROVE stream'[w] \in Seq(ApiEvents)
    <3>1. stream[w] \in Seq(ApiEvents) /\ [type |-> type, obj |-> obj] \in ApiEvents
      BY DEF TypeOK, Written, ApiEvents, Types
    <3>2. Append(stream[w], [type |-> type, obj |-> obj]) \in Seq(ApiEvents)
      BY <3>1, AppendFacts
    <3> DEFINE told == watch[w].state \in {"initial", "loop"} /\ w \notin ended
    <3>3. stream'[w] = IF told THEN Append(stream[w], [type |-> type, obj |-> obj]) ELSE stream[w]
      BY WrittenStream
    <3> HIDE DEF told
    <3> QED BY <3>1, <3>2, <3>3, Zenon
  <2>2. stream' = [w \in Watches |-> stream'[w]]
    BY DEF Written, Tell
  <2> QED BY <2>1, <2>2
<1>4. UNCHANGED <<watch, ended, pending, channel, got, due, cancelled>>
  BY DEF Written, Unwatched
<1> QED BY <1>1, <1>2, <1>3, <1>4 DEF TypeOK, Calls, ApiEvents, Types

\* The log, the object and its annotation after a write.
LEMMA WrittenStore ==
  ASSUME TypeOK, LogOK, ObjectOK, HistoryIsLog, NEW n \in Nat, n = Len(log),
         NEW e, NEW type, NEW obj, Written(n, e, type, obj), TypeOK'
  PROVE  LogOK' /\ ObjectOK' /\ HistoryIsLog'
<1>1. /\ Len(log') = n + 1 /\ log'[n + 1] = e
      /\ \A i \in 1..n : log'[i] = log[i]
      /\ \A i \in 1..(n + 1) : PutBefore(i)' = PutBefore(i)
      /\ PutBefore(Len(log) + 1)' = IF e.delete THEN 0 ELSE n + 1
  BY WrittenLog
<1>2. version = n /\ version' = n + 1
  BY LogFacts DEF Written
<1>3. LogOK'
  <2>1. ASSUME NEW i \in 1..(n + 1)
        PROVE  /\ log'[i].delete => PutBefore(i)' # 0
               /\ log'[i] = [delete |-> log'[i].delete, prev |-> PutBefore(i)',
                             rev |-> IF log'[i].delete THEN 0 ELSE i,
                             value |-> IF log'[i].delete THEN i - 1 ELSE i]
    <3>1. CASE i = n + 1
      <4>1. /\ e.delete => PutBefore(n + 1) # 0
            /\ e = [delete |-> e.delete, prev |-> PutBefore(n + 1),
                    rev |-> IF e.delete THEN 0 ELSE n + 1, value |-> IF e.delete THEN n ELSE n + 1]
        BY DEF Written
      <4>2. i - 1 = n
        BY <3>1
      <4>3. log'[i] = e /\ PutBefore(i)' = PutBefore(n + 1)
        BY <3>1, <1>1
      <4> QED BY <4>1, <4>2, <4>3, <3>1, Zenon
    <3>2. CASE i # n + 1
      <4>1. i \in 1..n
        BY <3>2
      <4>2. /\ log[i].delete => PutBefore(i) # 0
            /\ log[i] = [delete |-> log[i].delete, prev |-> PutBefore(i),
                         rev |-> IF log[i].delete THEN 0 ELSE i,
                         value |-> IF log[i].delete THEN i - 1 ELSE i]
        BY <4>1 DEF LogOK
      <4>3. log'[i] = log[i] /\ PutBefore(i)' = PutBefore(i)
        BY <4>1, <1>1
      <4> QED BY <4>2, <4>3, Zenon
    <3> QED BY <3>1, <3>2
  <2>2. version' = Len(log') /\ 1..Len(log') = 1..(n + 1)
    BY <1>1, <1>2
  <2> QED BY <2>1, <2>2 DEF LogOK
<1>4. ObjectOK'
  <2>1. CASE e.delete
    <3>1. object' = None /\ PutBefore(Len(log) + 1)' = 0
      BY <2>1, <1>1 DEF Written
    <3> QED BY <3>1 DEF ObjectOK
  <2>2. CASE ~e.delete
    <3>1. object' = obj /\ obj.rev = n + 1 /\ obj \in Objects /\ PutBefore(Len(log) + 1)' = n + 1
      BY <2>2, <1>1 DEF Written
    <3> QED BY <3>1, ParametersAssumption DEF ObjectOK
  <2> QED BY <2>1, <2>2
<1>5. HistoryIsLog'
  <2>1. CASE e.delete
    BY <2>1 DEF Written, HistoryIsLog
  <2>2. CASE ~e.delete /\ object # None
    <3>1. /\ log' = Append(log, e) /\ e.delete = FALSE
          /\ object' = [rev |-> version + 1, value |-> version + 1, history |-> appendSpecToHistory(object)]
      BY <2>2 DEF Written, Events
    <3> QED BY <3>1, <2>2, <1>3, HistoryAfterUpdate
  <2>3. CASE ~e.delete /\ object = None
    <3>1. object' = obj /\ obj.history = <<>> /\ Entry(object)' = [rev |-> n + 1, value |-> n + 1]
      BY <2>3, <1>2 DEF Written, Entry
    <3>2. ~log'[n + 1].delete /\ log'[n + 1].rev = n + 1 /\ log'[n + 1].value = n + 1
      <4>1. LogShape'
        BY <1>3, LogShapeHolds, PTL
      <4> QED BY <4>1, <1>1, <2>3 DEF LogShape
    <3>3. Len(object'.history) = 0 /\ Len(log') - Len(object'.history) = n + 1 /\ Len(log') - 1 = n
      BY <3>1, <1>1
    <3>4. readHistory(object)' = [i \in 1..(0 + 1) |->
            [rev |-> log'[(n + 1) - 1 + i].rev, value |-> log'[(n + 1) - 1 + i].value]]
      <4>1. readHistory(object)' = <<[rev |-> n + 1, value |-> n + 1]>>
        BY <3>1 DEF readHistory, Entry
      <4>2. 1..(0 + 1) = {1} /\ (n + 1) - 1 + 1 = n + 1
        OBVIOUS
      <4> QED BY <4>1, <4>2, <3>2
    <3>5. Kept' = {}
      <4>1. Kept' = {i \in 1..n : \A j \in i..n : ~log'[j].delete /\ Fits(j)'}
        BY <3>3 DEF Kept
      <4>2. n # 0 => n \in 1..n /\ log'[n].delete
        <5>1. PutBefore(n + 1) = 0
          BY <2>3 DEF ObjectOK
        <5>2. (n + 1) - 1 = n
          OBVIOUS
        <5> QED BY <5>1, <5>2, <1>1 DEF PutBefore
      <4>3. \A i \in 1..n : n \in i..n
        OBVIOUS
      <4> QED BY <4>1, <4>2, <4>3
    <3>6. Kept' = (n + 1)..n
      BY <3>5
    <3> QED BY <3>3, <3>4, <3>6 DEF HistoryIsLog
  <2> QED BY <2>1, <2>2, <2>3
<1> QED BY <1>3, <1>4, <1>5

-----------------------------------------------------------------------------
(* The calls of clients.                                                    *)

LEMMA NoCallIsCall == NoCall \in Calls /\ NoCall.read = None
BY DEF NoCall, Calls

\* A write makes the version of the object another than any that was read.
LEMMA WrittenCalls ==
  ASSUME TypeOK, LogOK, NEW n \in Nat, n = Len(log), NEW e, NEW type, NEW obj,
         Written(n, e, type, obj), TypeOK', NEW c \in Clients, CallOK(c),
         call'[c] = call[c] \/ call'[c] = NoCall
  PROVE  CallOK(c)'
<1>1. version = n /\ version' = n + 1
  BY LogFacts DEF Written
<1>2. object' # None => object'.rev = n + 1
  BY DEF Written
<1>3. CASE call'[c] = call[c] /\ call[c].read # None
  <2> DEFINE read == call[c].read
             r == call[c].rev
  <2>1. read.rev <= n /\ (r # Unset => r <= read.rev) /\ read.rev \in Nat
    BY <1>1, <1>3 DEF CallOK, TypeOK, Objects, Revisions
  <2>2. call'[c].read = read /\ call'[c].rev = r
    BY <1>3
  <2> HIDE DEF read, r
  <2>3. read.rev <= n + 1 /\ ~(n + 1 = read.rev)
    BY <2>1
  <2> QED BY <1>1, <1>2, <2>1, <2>2, <2>3 DEF CallOK
<1>4. CASE call'[c].read = None
  BY <1>4 DEF CallOK
<1>5. CASE call'[c] = NoCall
  BY <1>4, <1>5, NoCallIsCall
<1> QED BY <1>3, <1>4, <1>5

\* Requests that only read, or are refused.
LEMMA ReadCalls ==
  ASSUME TypeOK, LogOK, ObjectOK, HistoryIsLog, UNCHANGED store,
         NEW c \in Clients, NEW d \in Clients, CallOK(c),
         \/ \E rev : PutGet(d, rev) \/ DeleteGet(d, rev)
         \/ call' = [call EXCEPT ![d] = NoCall]
         \/ UNCHANGED call
  PROVE  CallOK(c)' /\ call' \in [Clients -> Calls]
<1>1. version' = version /\ object' = object
  BY DEF store
<1>2. call \in [Clients -> Calls] /\ version \in Nat /\ version <= MaxVersion /\ MaxVersion \in Nat
  BY LogFacts DEF TypeOK, Calls
<1>3. ASSUME call'[c] = call[c] PROVE CallOK(c)'
  BY <1>1, <1>3 DEF CallOK
<1>4. ASSUME NEW rev, Given(rev) PROVE rev \in Revisions \cup {Unset} /\ (rev # Unset => rev <= version)
  BY <1>2, <1>4 DEF Given, Revisions
<1>5. ASSUME NEW rev, PutGet(d, rev) PROVE CallOK(c)' /\ call' \in [Clients -> Calls]
  <2> DEFINE new == [op |-> "put", rev |-> rev, read |-> object]
  <2>1. Given(rev) /\ call' = [call EXCEPT ![d] = new]
    BY <1>5 DEF PutGet
  <2>2. new \in Calls
    BY <2>1, <1>4 DEF TypeOK, Calls
  <2>3. object # None => object.rev = version
    BY ObjectFacts, LogFacts
  <2>6. call' \in [Clients -> Calls]
    <3> HIDE DEF new
    <3> QED BY <1>2, <2>1, <2>2
  <2>4. ASSUME c = d PROVE CallOK(c)'
    <3>1. call'[c].rev = rev /\ call'[c].read = object
      BY <2>1, <2>4, <1>2
    <3> QED BY <3>1, <2>1, <2>3, <1>1, <1>2, <1>4 DEF CallOK
  <2>5. ASSUME c # d PROVE CallOK(c)'
    BY <2>1, <2>5, <1>2, <1>3
  <2> HIDE DEF new
  <2> QED BY <2>6, <2>4, <2>5
<1>6. ASSUME NEW rev, DeleteGet(d, rev) PROVE CallOK(c)' /\ call' \in [Clients -> Calls]
  <2> DEFINE new == [op |-> "delete", rev |-> rev, read |-> None]
  <2>1. Given(rev) /\ call' = [call EXCEPT ![d] = new]
    BY <1>6 DEF DeleteGet
  <2>2. new \in Calls /\ new.read = None
    BY <2>1, <1>4 DEF Calls
  <2>3. call' \in [Clients -> Calls]
    <3> HIDE DEF new
    <3> QED BY <1>2, <2>1, <2>2
  <2>4. ASSUME c = d PROVE CallOK(c)'
    <3>1. call'[c].read = None
      BY <2>1, <2>4, <1>2
    <3> QED BY <3>1 DEF CallOK
  <2>5. ASSUME c # d PROVE CallOK(c)'
    BY <2>1, <2>5, <1>2, <1>3
  <2> HIDE DEF new
  <2> QED BY <2>3, <2>4, <2>5
<1>7. CASE call' = [call EXCEPT ![d] = NoCall]
  <2>1. call' \in [Clients -> Calls]
    BY <1>2, <1>7, NoCallIsCall
  <2>2. c = d => call'[c].read = None
    BY <1>2, <1>7, NoCallIsCall
  <2>3. c # d => call'[c] = call[c]
    BY <1>2, <1>7
  <2> QED BY <2>1, <2>2, <2>3, <1>3 DEF CallOK
<1>8. CASE UNCHANGED call
  BY <1>2, <1>3, <1>8
<1> QED BY <1>5, <1>6, <1>7, <1>8

-----------------------------------------------------------------------------
(* The events of a watch's first object.                                    *)

\* The entries up to i, without those before k: what the loop of the initial
\* events has made after i entries, of which those from k on are to be sent.
Replay(a, k, i) == [j \in 1..(IF i < k THEN 0 ELSE i - k + 1) |-> a[k + j - 1]]

LEMMA ReplayStep ==
  ASSUME NEW h \in Nat, NEW k \in 1..(h + 1), NEW a \in [1..h -> Events]
  PROVE  /\ Replay(a, k, 0) = <<>>
         /\ \A i \in 1..h :
              Replay(a, k, i) = IF i >= k THEN Append(Replay(a, k, i - 1), a[i]) ELSE Replay(a, k, i - 1)
<1>1. Replay(a, k, 0) = <<>>
  <2>1. 1..(IF 0 < k THEN 0 ELSE 0 - k + 1) = {}
    OBVIOUS
  <2> QED BY <2>1 DEF Replay
<1>2. ASSUME NEW i \in 1..h, i < k PROVE Replay(a, k, i) = Replay(a, k, i - 1)
  <2>1. i - 1 < k
    BY <1>2
  <2> QED BY <1>2, <2>1 DEF Replay
<1>3. ASSUME NEW i \in 1..h, i >= k PROVE Replay(a, k, i) = Append(Replay(a, k, i - 1), a[i])
  <2>1. PICK m \in Nat : m = i - k
    BY <1>3
  <2>2. /\ (IF i - 1 < k THEN 0 ELSE (i - 1) - k + 1) = m
        /\ (IF i < k THEN 0 ELSE i - k + 1) = m + 1
        /\ m + 1 <= h /\ k + (m + 1) - 1 = i
    BY <1>3, <2>1
  <2>3. \A j \in 1..(m + 1) : k + j - 1 \in 1..h
    BY <2>1
  <2> DEFINE s == [j \in 1..m |-> a[k + j - 1]]
  <2>4. s \in Seq(Events) /\ Len(s) = m /\ a[i] \in Events
    BY <2>3
  <2>5. Append(s, a[i]) = [j \in 1..(m + 1) |-> IF j = m + 1 THEN a[i] ELSE s[j]]
    BY <2>4
  <2>6. ASSUME NEW j \in 1..(m + 1) PROVE (IF j = m + 1 THEN a[i] ELSE s[j]) = a[k + j - 1]
    <3>1. CASE j = m + 1
      BY <3>1, <2>2, Zenon
    <3>2. CASE j # m + 1
      <4>1. j \in 1..m
        BY <3>2
      <4> QED BY <3>2, <4>1, Zenon
    <3> QED BY <3>1, <3>2
  <2>7. Replay(a, k, i) = [j \in 1..(m + 1) |-> a[k + j - 1]] /\ Replay(a, k, i - 1) = s
    BY <2>2, Zenon DEF Replay
  <2> HIDE DEF s
  <2> QED BY <2>5, <2>6, <2>7
<1>4. \A i \in 1..h : i < k <=> ~(i >= k)
  OBVIOUS
<1> QED BY <1>1, <1>2, <1>3, <1>4

\* That is the only solution of the loop's equation.
LEMMA ReplayIs ==
  ASSUME NEW h \in Nat, NEW k \in 1..(h + 1), NEW a \in [1..h -> Events],
         NEW sent, sent[0] = <<>>,
         \A i \in 1..h : sent[i] = IF i >= k THEN Append(sent[i - 1], a[i]) ELSE sent[i - 1]
  PROVE  sent[h] = Replay(a, k, h)
<1> DEFINE Bad == {i \in 0..h : sent[i] # Replay(a, k, i)}
<1>1. ASSUME Bad # {} PROVE FALSE
  <2>1. Bad \subseteq Nat
    OBVIOUS
  <2>2. PICK m \in Bad : \A j \in Bad : m <= j
    <3> HIDE DEF Bad
    <3> QED BY <2>1, <1>1, MinFacts
  <2>3. m \in 0..h /\ sent[m] # Replay(a, k, m)
    OBVIOUS
  <2>4. m # 0
    BY <2>3, ReplayStep
  <2>5. m \in 1..h /\ m - 1 \in 0..h /\ ~(m <= m - 1)
    BY <2>3, <2>4
  <2>6. sent[m - 1] = Replay(a, k, m - 1)
    BY <2>2, <2>5
  <2>7. Replay(a, k, m) = IF m >= k THEN Append(Replay(a, k, m - 1), a[m]) ELSE Replay(a, k, m - 1)
    BY <2>5, ReplayStep
  <2>8. sent[m] = IF m >= k THEN Append(sent[m - 1], a[m]) ELSE sent[m - 1]
    BY <2>5
  <2> QED BY <2>3, <2>6, <2>7, <2>8, Zenon
<1> QED BY <1>1

\* The first object's events: those of its puts from where they are due, each
\* with its predecessor except perhaps the first.
InitialRun(w, obj, d, r) ==
  /\ d \in 1..(r + 1)
  /\ InitialEvents(w, obj) \in Seq(Events) /\ Len(InitialEvents(w, obj)) = r - d + 1
  /\ \A k \in 1..(r - d + 1), i \in 1..r :
       i = d + k - 1 =>
         \E prev : /\ InitialEvents(w, obj)[k] = [delete |-> FALSE, rev |-> i, value |-> i, prev |-> prev]
                   /\ (i > 1 /\ ~log[i - 1].delete /\ prev = i - 1) \/ (k = 1 /\ prev = 0)

LEMMA InitialFacts ==
  ASSUME TypeOK, LogOK, NEW w \in Watches, NEW obj \in Objects, FirstObject(w, obj),
         NEW r \in Nat, r = obj.rev, obj.value = r, r <= Len(log), NEW d \in Nat, d = due[w]
  PROVE  InitialRun(w, obj, d, r)
<1> DEFINE entries == IF watch[w].asked = Unset THEN <<Entry(obj)>> ELSE readHistory(obj)
           n == Len(entries)
           event(i) == [delete |-> FALSE, rev |-> entries[i].rev, value |-> entries[i].value,
                        prev |-> IF i = 1 THEN 0 ELSE entries[i - 1].rev]
           replayed(i) == entries[i].rev < obj.rev /\ entries[i].rev >= watch[w].asked
           P(t) == t = [i \in 0..(n - 1) |->
                          IF i = 0 THEN <<>>
                          ELSE IF replayed(i) THEN Append(t[i - 1], event(i)) ELSE t[i - 1]]
           sent == CHOOSE t : P(t)
           current == IF SendsCurrent(w, obj) THEN <<event(n)>> ELSE <<>>
<1>1. InitialEvents(w, obj) = sent[n - 1] \o current
  BY DEF InitialEvents
<1>2. PICK h \in Nat : h = Len(obj.history)
  BY DEF Objects
<1>3. PICK o \in Int : o = r - h
  OBVIOUS
<1>4. /\ o >= 1 /\ \A i \in o..r : ~log[i].delete
      /\ \A i \in 1..h : obj.history[i] = [rev |-> o + i - 1, value |-> o + i - 1]
  BY <1>2, <1>3 DEF FirstObject
<1>5. obj.history \in Seq(Entries) /\ Entry(obj) \in Entries /\ Entry(obj) = [rev |-> r, value |-> r]
  BY DEF Objects, Entries, Entry
<1>6. MaxVersion \in Nat /\ r <= MaxVersion
  BY LogFacts
<1>7. CASE watch[w].asked = Unset
  <2>1. d = IF r = watch[w].latest THEN r + 1 ELSE r
    BY <1>7 DEF FirstObject
  <2>2. entries = <<Entry(obj)>> /\ n = 1 /\ entries[1] = [rev |-> r, value |-> r]
    BY <1>5, <1>7
  <2> HIDE DEF entries
  <2>3. event(1) = [delete |-> FALSE, rev |-> r, value |-> r, prev |-> 0]
    <3>1. PICK x : x = entries[1]
      OBVIOUS
    <3>2. x.rev = r /\ x.value = r
      BY <2>2, <3>1
    <3> QED BY <3>1, <3>2, Zenon
  <2>4. event(1) \in Events
    BY <2>3, <1>6 DEF Events, Revisions
  <2>5. sent[n - 1] = <<>>
    <3>1. P([i \in 0..0 |-> <<>>])
      <4> HIDE DEF n, replayed, event
      <4>1. 0..(n - 1) = 0..0 /\ \A i \in 0..0 : i = 0
        BY <2>2
      <4> QED BY <4>1
    <3>2. P(sent)
      BY <3>1
    <3> HIDE DEF sent
    <3>3. n - 1 \in 0..(n - 1) /\ n - 1 = 0
      BY <2>2
    <3> QED BY <3>2, <3>3
  <2>6. current = IF r # watch[w].latest THEN <<event(1)>> ELSE <<>>
    BY <1>7, <2>2 DEF SendsCurrent
  <2>7. r >= 1
    BY <1>3, <1>4
  <2> HIDE DEF sent, current, event, entries
  <2>8. CASE r = watch[w].latest
    <3>1. InitialEvents(w, obj) = <<>> /\ d = r + 1
      BY <1>1, <2>1, <2>5, <2>6, <2>8
    <3> QED BY <3>1 DEF InitialRun
  <2>9. CASE r # watch[w].latest
    <3>1. InitialEvents(w, obj) = <<event(1)>> /\ d = r
      BY <1>1, <2>1, <2>4, <2>5, <2>6, <2>9
    <3>2. d = r /\ r - d + 1 = 1 /\ d \in 1..(r + 1)
      BY <3>1, <2>7
    <3>3. \A k \in 1..1, i \in 1..r : i = d + k - 1 => k = 1 /\ i = r
      BY <3>2
    <3>4. <<event(1)>> \in Seq(Events) /\ Len(<<event(1)>>) = 1 /\ <<event(1)>>[1] = event(1)
      BY <2>4
    <3>5. event(1).prev = 0
      BY <2>3
    <3> HIDE DEF event
    <3> QED BY <3>1, <3>2, <3>3, <3>4, <3>5, <2>3 DEF InitialRun
  <2> QED BY <2>8, <2>9
<1>8. CASE watch[w].asked # Unset
  <2>1. PICK q \in Nat : q = watch[w].asked
    BY <1>8 DEF TypeOK, Revisions
  <2>2. q <= r /\ d = IF q <= o THEN o ELSE q
    BY <1>2, <1>3, <1>8, <2>1 DEF FirstObject
  <2>b. /\ h \in Nat /\ o \in Int /\ o >= 1 /\ o = r - h /\ r \in Nat /\ q \in Nat /\ d \in Nat /\ q <= r
        /\ r <= MaxVersion /\ MaxVersion \in Nat
    BY <1>2, <1>3, <1>4, <1>6, <2>1, <2>2
  <2>3. PICK k \in 1..(h + 1) : k = d - o + 1
    <3>1. d - o + 1 \in 1..(h + 1)
      BY ONLY <2>2, <2>b
    <3> QED BY <3>1
  <2>4. entries = Append(obj.history, Entry(obj))
    BY <1>8 DEF readHistory
  <2>5. Len(Append(obj.history, Entry(obj))) = h + 1
    BY <1>2, <1>5, AppendFacts
  <2>6. n = h + 1
    BY <2>4, <2>5, Zenon
  <2>7. ASSUME NEW i \in 1..(h + 1) PROVE entries[i].rev = o + i - 1 /\ entries[i].value = o + i - 1
    <3>1. PICK s, x : s = obj.history /\ x = Entry(obj)
      OBVIOUS
    <3>2. s \in Seq(Entries) /\ x \in Entries /\ Len(s) = h
      BY <3>1, <1>2, <1>5
    <3>3. Append(s, x)[h + 1] = x /\ \A j \in 1..h : Append(s, x)[j] = s[j]
      BY ONLY <3>2, AppendFacts
    <3> HIDE DEF entries
    <3>4. entries = Append(s, x)
      BY <2>4, <3>1, Zenon
    <3>5. CASE i = h + 1
      <4>1. o + i - 1 = r
        BY ONLY <3>5, <2>b
      <4>2. entries[i] = x
        BY <3>3, <3>4, <3>5, Zenon
      <4> QED BY <4>1, <4>2, <3>1, <1>5
    <3>6. CASE i # h + 1
      <4>1. i \in 1..h
        BY <3>6
      <4>2. entries[i] = s[i]
        BY <3>3, <3>4, <4>1, Zenon
      <4>3. s[i] = [rev |-> o + i - 1, value |-> o + i - 1]
        BY <4>1, <3>1, <1>4
      <4> QED BY <4>2, <4>3
    <3> QED BY <3>5, <3>6
  <2> HIDE DEF entries
  <2>8. ASSUME NEW i \in 1..(h + 1)
        PROVE  /\ event(i) = [delete |-> FALSE, rev |-> o + i - 1, value |-> o + i - 1,
                              prev |-> IF i = 1 THEN 0 ELSE o + i - 2]
               /\ event(i) \in Events
    <3>1. event(i) = [delete |-> FALSE, rev |-> o + i - 1, value |-> o + i - 1,
                      prev |-> IF i = 1 THEN 0 ELSE o + i - 2]
      <4>1. i # 1 => i - 1 \in 1..(h + 1) /\ o + (i - 1) - 1 = o + i - 2
        BY <2>b
      <4>2. i # 1 => entries[i - 1].rev = o + i - 2
        BY <4>1, <2>7
      <4>3. entries[i].rev = o + i - 1 /\ entries[i].value = o + i - 1
        BY <2>7
      <4> QED BY <4>2, <4>3, Zenon
    <3>2. o + i - 1 \in Revisions /\ (IF i = 1 THEN 0 ELSE o + i - 2) \in Revisions
      <4>1. o + i - 1 \in 0..MaxVersion /\ (IF i = 1 THEN 0 ELSE o + i - 2) \in 0..MaxVersion
        BY ONLY <2>b, i \in 1..(h + 1)
      <4> QED BY <4>1 DEF Revisions
    <3> HIDE DEF event
    <3> QED BY <3>1, <3>2 DEF Events
  <2>9. ASSUME NEW i \in 1..h PROVE replayed(i) <=> i >= k
    <3>1. i \in 1..(h + 1)
      OBVIOUS
    <3>2. entries[i].rev = o + i - 1
      BY <3>1, <2>7
    <3>3. (o + i - 1 < r /\ o + i - 1 >= q) <=> i >= k
      BY ONLY <2>2, <2>3, <2>b, k \in 1..(h + 1), i \in 1..h
    <3> QED BY <3>2, <3>3, <2>1, Zenon
  <2> DEFINE a == [i \in 1..h |-> event(i)]
             g == [i \in 0..h |-> Replay(a, k, i)]
  <2>10. a \in [1..h -> Events] /\ \A i \in 1..h : a[i] = event(i)
    <3>1. \A i \in 1..h : i \in 1..(h + 1)
      OBVIOUS
    <3> HIDE DEF event
    <3> QED BY <3>1, <2>8
  <2> HIDE DEF event, replayed, a
  <2>11. P(g)
    <3>1. 0..(n - 1) = 0..h
      BY <2>6
    <3>2. Replay(a, k, 0) = <<>>
      BY <2>10, ReplayStep
    <3>3. ASSUME NEW i \in 1..h
          PROVE  g[i] = IF replayed(i) THEN Append(g[i - 1], event(i)) ELSE g[i - 1]
      <4>1. g[i] = Replay(a, k, i) /\ g[i - 1] = Replay(a, k, i - 1)
        BY DEF g
      <4>2. Replay(a, k, i) = IF i >= k THEN Append(Replay(a, k, i - 1), a[i]) ELSE Replay(a, k, i - 1)
        BY <2>10, ReplayStep
      <4>3. a[i] = event(i) /\ (replayed(i) <=> i >= k)
        BY <2>9, <2>10
      <4> HIDE DEF g
      <4> QED BY <4>1, <4>2, <4>3, Zenon
    <3>4. \A i \in 0..h : i = 0 \/ i \in 1..h
      OBVIOUS
    <3>5. g[0] = <<>>
      BY <3>2
    <3>6. g = [i \in 0..h |-> g[i]]
      OBVIOUS
    <3>7. [i \in 0..h |-> g[i]] =
             [i \in 0..h |-> IF i = 0 THEN <<>>
                             ELSE IF replayed(i) THEN Append(g[i - 1], event(i)) ELSE g[i - 1]]
      <4> HIDE DEF g
      <4> QED BY <3>3, <3>4, <3>5
    <3> HIDE DEF g
    <3> QED BY <3>1, <3>6, <3>7, Zenon
  <2>12. P(sent)
    <3> HIDE DEF P
    <3> QED BY <2>11
  <2> HIDE DEF sent
  <2>13. sent[h] = Replay(a, k, h)
    <3>1. 0..(n - 1) = 0..h
      BY <2>6
    <3>2. sent[0] = <<>>
      BY <2>12, <3>1
    <3>3. ASSUME NEW i \in 1..h
          PROVE  sent[i] = IF i >= k THEN Append(sent[i - 1], a[i]) ELSE sent[i - 1]
      <4>1. i \in 0..h /\ i # 0
        OBVIOUS
      <4>2. sent[i] = IF replayed(i) THEN Append(sent[i - 1], event(i)) ELSE sent[i - 1]
        BY <2>12, <3>1, <4>1
      <4> QED BY <4>2, <2>9, <2>10, Zenon
    <3> HIDE DEF P
    <3> QED BY <3>2, <3>3, <2>10, ReplayIs
  <2>14. current = <<event(h + 1)>>
    BY <1>8, <2>6 DEF SendsCurrent
  <2>15. InitialEvents(w, obj) = Replay(a, k, h) \o <<event(h + 1)>>
    <3>1. n - 1 = h
      BY <2>6
    <3> HIDE DEF n, current
    <3> QED BY <1>1, <3>1, <2>13, <2>14, Zenon
  <2>16. PICK m \in Nat : m = h - k + 1
    <3>1. h - k + 1 \in Nat
      OBVIOUS
    <3> QED BY <3>1
  <2>17. Replay(a, k, h) = [j \in 1..m |-> a[k + j - 1]]
    <3>1. (IF h < k THEN 0 ELSE h - k + 1) = m
      BY <2>16
    <3> QED BY <3>1, Zenon DEF Replay
  <2>18. /\ r - d + 1 = m + 1 /\ d \in 1..(r + 1) /\ k + (m + 1) - 1 = h + 1
         /\ \A j \in 1..(m + 1) : k + j - 1 \in 1..(h + 1)
         /\ \A j \in 1..m : k + j - 1 \in 1..h
    BY ONLY <2>2, <2>3, <2>16, <2>b, k \in 1..(h + 1), m \in Nat
  <2>19. /\ InitialEvents(w, obj) \in Seq(Events) /\ Len(InitialEvents(w, obj)) = m + 1
         /\ \A j \in 1..(m + 1) : InitialEvents(w, obj)[j] = event(k + j - 1)
    <3> DEFINE s == Replay(a, k, h)
               x == event(h + 1)
    <3>1. x \in Events
      BY <2>8
    <3>2. s \in Seq(Events) /\ Len(s) = m /\ \A j \in 1..m : s[j] = event(k + j - 1)
      <4>1. ASSUME NEW j \in 1..m PROVE a[k + j - 1] = event(k + j - 1) /\ a[k + j - 1] \in Events
        <5>1. PICK i \in 1..h : i = k + j - 1
          BY <2>18
        <5> QED BY <5>1, <2>10
      <4>2. [j \in 1..m |-> a[k + j - 1]] \in Seq(Events) /\ Len([j \in 1..m |-> a[k + j - 1]]) = m
        <5>1. [j \in 1..m |-> a[k + j - 1]] \in [1..m -> Events]
          BY <4>1, Zenon
        <5> QED BY ONLY <5>1, m \in Nat
      <4> QED BY <4>1, <4>2, <2>17
    <3> HIDE DEF s, x
    <3>3. /\ s \o <<x>> \in Seq(Events) /\ Len(s \o <<x>>) = m + 1
          /\ (s \o <<x>>)[m + 1] = x /\ \A j \in 1..m : (s \o <<x>>)[j] = s[j]
      BY <3>1, <3>2
    <3>4. ASSUME NEW j \in 1..(m + 1) PROVE (s \o <<x>>)[j] = event(k + j - 1)
      <4>1. CASE j = m + 1
        BY <4>1, <3>3, <2>18, Zenon DEF x
      <4>2. CASE j # m + 1
        <5>1. j \in 1..m
          BY <4>2
        <5> QED BY <5>1, <3>2, <3>3, Zenon
      <4> QED BY <4>1, <4>2
    <3>5. InitialEvents(w, obj) = s \o <<x>>
      BY <2>15 DEF s, x
    <3> QED BY <3>3, <3>4, <3>5, Zenon
  <2>20. ASSUME NEW j \in 1..(m + 1), NEW i \in 1..r, i = d + j - 1
         PROVE  \E prev :
                  /\ InitialEvents(w, obj)[j] = [delete |-> FALSE, rev |-> i, value |-> i, prev |-> prev]
                  /\ (i > 1 /\ ~log[i - 1].delete /\ prev = i - 1) \/ (j = 1 /\ prev = 0)
    <3>1. PICK l \in 1..(h + 1) : l = k + j - 1
      BY <2>18
    <3>2. o + l - 1 = i /\ o + l - 2 = i - 1
      BY ONLY <3>1, <2>3, <2>b, <2>20, k \in 1..(h + 1), j \in 1..(m + 1), m \in Nat
    <3>3. InitialEvents(w, obj)[j] = [delete |-> FALSE, rev |-> i, value |-> i,
                                      prev |-> IF l = 1 THEN 0 ELSE i - 1]
      <4>1. InitialEvents(w, obj)[j] = event(l)
        BY <2>19, <3>1, Zenon
      <4>2. event(l) = [delete |-> FALSE, rev |-> o + l - 1, value |-> o + l - 1,
                        prev |-> IF l = 1 THEN 0 ELSE o + l - 2]
        BY <2>8
      <4> QED BY <4>1, <4>2, <3>2
    <3>4. CASE l = 1
      <4>1. j = 1
        BY ONLY <3>1, <3>4, k \in 1..(h + 1), j \in 1..(m + 1), m \in Nat, h \in Nat
      <4> QED BY <3>3, <3>4, <4>1
    <3>5. CASE l # 1
      <4>1. i - 1 \in o..r /\ i > 1
        BY ONLY <3>2, <3>5, <2>b, i \in 1..r, l \in 1..(h + 1)
      <4>2. ~log[i - 1].delete
        BY <4>1, <1>4
      <4> QED BY <3>3, <3>5, <4>1, <4>2
    <3> QED BY <3>4, <3>5
  <2> QED BY <2>18, <2>19, <2>20 DEF InitialRun
<1> QED BY <1>7, <1>8

-----------------------------------------------------------------------------
(* The watches.                                                             *)

\* The parts of the type invariant about a watch.
TypeAt(w) ==
  /\ watch[w] \in [state : {"none", "got", "initial", "loop", "closed"},
                   asked : Revisions \cup {Unset}, previous : Revisions, latest : Revisions]
  /\ stream[w] \in Seq(ApiEvents)
  /\ pending[w] \in Seq(Events) /\ channel[w] \in Seq(Events) /\ got[w] \in Seq(Events)
  /\ Len(channel[w]) <= ChannelCap
  /\ due[w] \in Nat \ {0}

LEMMA TypeFacts ==
  ASSUME TypeOK, NEW w \in Watches
  PROVE  /\ TypeAt(w)
         /\ Seen(w) \in Seq(Events) /\ Len(Seen(w)) \in Nat /\ Position(w) \in Nat
         /\ due[w] \in Nat /\ due[w] >= 1 /\ Position(w) = due[w] + Len(Seen(w))
<1>1. TypeAt(w)
  BY DEF TypeOK, TypeAt, ApiEvents, Types
<1>2. Seen(w) \in Seq(Events) /\ Len(Seen(w)) \in Nat
  <2>1. PICK x, y, z : x = got[w] /\ y = channel[w] /\ z = pending[w]
    OBVIOUS
  <2>2. x \in Seq(Events) /\ y \in Seq(Events) /\ z \in Seq(Events)
    BY <1>1, <2>1 DEF TypeAt
  <2>3. x \o y \o z \in Seq(Events)
    BY ONLY <2>2
  <2>4. Seen(w) \in Seq(Events)
    BY <2>1, <2>3, Zenon DEF Seen
  <2> HIDE DEF Seen
  <2> QED BY <2>4
<1>3. due[w] \in Nat /\ due[w] >= 1 /\ Position(w) = due[w] + Len(Seen(w))
  BY <1>1 DEF TypeAt, Position
<1> QED BY <1>1, <1>2, <1>3

\* The type invariant after a step of one watch.
LEMMA WatchStepType ==
  ASSUME TypeOK, NEW w \in Watches, UNCHANGED <<store, call>>,
         /\ watch' = [watch EXCEPT ![w] = watch'[w]]
         /\ stream' = [stream EXCEPT ![w] = stream'[w]]
         /\ pending' = [pending EXCEPT ![w] = pending'[w]]
         /\ channel' = [channel EXCEPT ![w] = channel'[w]]
         /\ got' = [got EXCEPT ![w] = got'[w]]
         /\ due' = [due EXCEPT ![w] = due'[w]],
         TypeAt(w)', ended' \subseteq Watches, cancelled' \subseteq Watches
  PROVE  TypeOK'
<1>1. /\ version' \in Revisions /\ log' \in Seq(Events) /\ object' \in Objects \cup {None}
      /\ object' # None => Len(object'.history) <= HistoryLimit
      /\ call' \in [Clients -> Calls]
  BY DEF TypeOK, store, Calls
<1>2. watch' \in [Watches -> [state : {"none", "got", "initial", "loop", "closed"},
                   asked : Revisions \cup {Unset}, previous : Revisions, latest : Revisions]]
  BY DEF TypeOK, TypeAt
<1>3. stream' \in [Watches -> Seq(ApiEvents)]
  BY DEF TypeOK, TypeAt, ApiEvents, Types
<1>4. {pending', channel', got'} \subseteq [Watches -> Seq(Events)]
  <2>1. pending \in [Watches -> Seq(Events)] /\ pending'[w] \in Seq(Events)
    BY Zenon DEF TypeOK, TypeAt
  <2>2. channel \in [Watches -> Seq(Events)] /\ channel'[w] \in Seq(Events)
    BY Zenon DEF TypeOK, TypeAt
  <2>3. got \in [Watches -> Seq(Events)] /\ got'[w] \in Seq(Events)
    BY Zenon DEF TypeOK, TypeAt
  <2>4. pending' \in [Watches -> Seq(Events)]
    BY <2>1
  <2>5. channel' \in [Watches -> Seq(Events)]
    BY <2>2
  <2>6. got' \in [Watches -> Seq(Events)]
    BY <2>3
  <2> QED BY <2>4, <2>5, <2>6, Zenon
<1>5. due' \in [Watches -> Nat \ {0}]
  BY DEF TypeOK, TypeAt
<1>6. \A v \in Watches : Len(channel'[v]) <= ChannelCap
  BY DEF TypeOK, TypeAt
<1> QED BY <1>1, <1>2, <1>3, <1>4, <1>5, <1>6 DEF TypeOK, Calls, ApiEvents, Types

\* A watch that has read and made no more than before has its invariant still.
LEMMA SameWatch ==
  ASSUME NEW v \in Watches, WatchOK(v), UNCHANGED <<log, object>>,
         watch'[v] = watch[v], stream'[v] = stream[v], due'[v] = due[v],
         Seen(v)' = Seen(v), v \in ended => v \in ended'
  PROVE  WatchOK(v)'
<1>1. Position(v)' = Position(v)
  BY DEF Position
<1>2. ASSUME NEW i, StreamFrom(v, i) PROVE StreamFrom(v, i)'
  BY <1>2 DEF StreamFrom
<1>3. ASSUME NEW obj, FirstObject(v, obj) PROVE FirstObject(v, obj)'
  BY <1>3 DEF FirstObject
<1>4. SeenOK(v) => SeenOK(v)'
  BY <1>1 DEF SeenOK
<1>5. PutBefore(Position(v))' = PutBefore(Position(v))
  BY <1>1 DEF PutBefore
<1>6. watch[v].state = "loop" => StreamFrom(v, Position(v))'
  <2>1. watch[v].state = "loop" => StreamFrom(v, Position(v))
    BY DEF WatchOK
  <2> QED BY <2>1, <1>1 DEF StreamFrom
<1>7. InitialOK(v) => InitialOK(v)'
  BY <1>2, <1>3 DEF InitialOK
<1> QED
  BY <1>1, <1>4, <1>5, <1>6, <1>7 DEF WatchOK

\* The events seen are the log's, and of the right type: an event that is the
\* log's at its place, or that but for its predecessor.
LEMMA WrittenWatch ==
  ASSUME TypeOK, LogOK, ObjectOK, NEW n \in Nat, n = Len(log), NEW e, NEW type, NEW obj,
         Written(n, e, type, obj), NEW w \in Watches, WatchOK(w)
  PROVE  WatchOK(w)'
<1>1. /\ Len(log') = n + 1 /\ log'[n + 1] = e
      /\ \A i \in 1..n : log'[i] = log[i]
      /\ \A i \in 1..(n + 1) : PutBefore(i)' = PutBefore(i)
  BY WrittenLog
<1>2. /\ watch' = watch /\ ended' = ended /\ due' = due
      /\ pending' = pending /\ channel' = channel /\ got' = got
  BY DEF Written, Unwatched
<1>3. TypeAt(w) /\ Len(Seen(w)) \in Nat /\ Position(w) \in Nat /\ due[w] \in Nat /\ due[w] >= 1
      /\ Position(w) = due[w] + Len(Seen(w))
  BY TypeFacts
<1>4. Seen(w)' = Seen(w) /\ Position(w)' = Position(w)
  BY <1>2 DEF Seen, Position
<1>5. SeenOK(w) => SeenOK(w)'
  <2>1. SUFFICES ASSUME SeenOK(w) PROVE SeenOK(w)'
    OBVIOUS
  <2>2. Position(w) <= n + 1
    BY <2>1 DEF SeenOK
  <2>3. ASSUME NEW i \in 1..Len(Seen(w))
        PROVE  \/ Seen(w)[i] = log'[due[w] + i - 1]
               \/ i = 1 /\ Seen(w)[i] = [log'[due[w] + i - 1] EXCEPT !.prev = 0]
    <3>1. due[w] + i - 1 \in 1..n
      BY <1>3, <2>2
    <3>2. log'[due[w] + i - 1] = log[due[w] + i - 1]
      BY <3>1, <1>1
    <3>3. \/ Seen(w)[i] = log[due[w] + i - 1]
          \/ i = 1 /\ Seen(w)[i] = [log[due[w] + i - 1] EXCEPT !.prev = 0]
      BY <2>1 DEF SeenOK
    <3> QED BY <3>2, <3>3, Zenon
  <2>4. Position(w) <= Len(log') + 1
    BY <1>1, <1>3, <2>2
  <2> QED BY <2>3, <2>4, <1>2, <1>4 DEF SeenOK
<1> DEFINE told == watch[w].state \in {"initial", "loop"} /\ w \notin ended
           new == [type |-> type, obj |-> obj]
<1>6. /\ stream'[w] = IF told THEN Append(stream[w], new) ELSE stream[w]
      /\ stream[w] \in Seq(ApiEvents) /\ new \in ApiEvents
  BY <1>3, WrittenStream DEF TypeAt, Written, ApiEvents
<1>7. ASSUME told
      PROVE  /\ stream'[w] \in Seq(ApiEvents) /\ Len(stream'[w]) = Len(stream[w]) + 1 /\ Len(stream[w]) \in Nat
             /\ \A k \in 1..Len(stream[w]) : stream'[w][k] = stream[w][k]
             /\ stream'[w][Len(stream[w]) + 1] = new
  <2>1. stream'[w] = Append(stream[w], new)
    BY <1>6, <1>7
  <2> HIDE DEF new
  <2>2. PICK s, x : s = stream[w] /\ x = new
    OBVIOUS
  <2>3. s \in Seq(ApiEvents) /\ x \in ApiEvents
    BY <2>2, <1>6, Zenon
  <2>4. /\ Append(s, x) \in Seq(ApiEvents) /\ Len(s) \in Nat /\ Len(Append(s, x)) = Len(s) + 1
        /\ \A k \in 1..Len(s) : Append(s, x)[k] = s[k]
        /\ Append(s, x)[Len(s) + 1] = x
    BY ONLY <2>3, AppendFacts
  <2> QED BY <2>1, <2>2, <2>4, Zenon
<1>8. ASSUME NEW i \in Nat, i >= 1, StreamFrom(w, i), watch[w].state \in {"initial", "loop"}
      PROVE  StreamFrom(w, i)'
  <2> DEFINE l == Len(stream[w])
  <2>1. l \in Nat /\ i + l - 1 <= n /\ (w \notin ended => i + l - 1 = n)
    BY <1>6, <1>8 DEF StreamFrom
  <2>2. ASSUME NEW k \in 1..l
        PROVE  /\ (stream[w][k].type = "Deleted") <=> log'[i + k - 1].delete
               /\ stream[w][k].obj.rev = i + k - 1 /\ stream[w][k].obj.value = log'[i + k - 1].value
    <3>1. i + k - 1 \in 1..n
      BY <2>1, <1>8
    <3>2. log'[i + k - 1] = log[i + k - 1]
      BY <3>1, <1>1
    <3>3. /\ (stream[w][k].type = "Deleted") <=> log[i + k - 1].delete
          /\ stream[w][k].obj.rev = i + k - 1 /\ stream[w][k].obj.value = log[i + k - 1].value
      BY <1>8 DEF StreamFrom
    <3> QED BY <3>2, <3>3, Zenon
  <2> HIDE DEF l
  <2>3. CASE told
    <3>1. Len(stream'[w]) = l + 1 /\ i + (l + 1) - 1 = n + 1 /\ w \notin ended
      <4>1. Len(stream'[w]) = l + 1
        BY <1>7, <2>3, Zenon DEF l
      <4>2. w \notin ended
        BY <2>3
      <4>3. i + (l + 1) - 1 = n + 1
        BY ONLY <2>1, <4>2, n \in Nat, i \in Nat
      <4> QED BY <4>1, <4>2, <4>3
    <3>2. ASSUME NEW k \in 1..(l + 1)
          PROVE  /\ (stream'[w][k].type = "Deleted") <=> log'[i + k - 1].delete
                 /\ stream'[w][k].obj.rev = i + k - 1 /\ stream'[w][k].obj.value = log'[i + k - 1].value
      <4>1. CASE k = l + 1
        <5>1. i + k - 1 = n + 1
          BY ONLY <4>1, <2>1, <2>3, n \in Nat, i \in Nat
        <5>2. stream'[w][k] = new /\ log'[i + k - 1] = e
          BY <4>1, <5>1, <1>1, <1>7, <2>3 DEF l
        <5>3. (type = "Deleted" <=> e.delete) /\ obj.rev = n + 1 /\ obj.value = e.value
          BY DEF Written
        <5> QED BY <5>1, <5>2, <5>3
      <4>2. CASE k # l + 1
        <5>1. k \in 1..l
          BY <4>2, <2>1
        <5>2. stream'[w][k] = stream[w][k]
          BY <5>1, <1>7, <2>3 DEF l
        <5> QED BY <5>1, <5>2, <2>2
      <4> QED BY <4>1, <4>2
    <3> QED BY <3>1, <3>2, <1>1 DEF StreamFrom
  <2>4. CASE ~told
    <3>1. stream'[w] = stream[w] /\ w \in ended
      BY <1>6, <1>8, <2>4
    <3>2. i + l - 1 <= Len(log')
      BY <2>1, <1>1
    <3> QED BY <3>1, <3>2, <2>2, <1>2 DEF StreamFrom, l
  <2> QED BY <2>3, <2>4
<1>9. CASE watch[w].state \in {"none", "got", "closed"}
  <2>1. stream'[w] = stream[w]
    BY <1>6, <1>9
  <2>2. watch[w].latest <= n + 1 /\ (watch[w].asked # Unset => watch[w].asked <= n + 1)
    <3>1. watch[w].latest \in Nat /\ (watch[w].asked # Unset => watch[w].asked \in Nat)
      BY <1>3 DEF TypeAt, Revisions
    <3>2. watch[w].latest <= n /\ (watch[w].asked # Unset => watch[w].asked <= n)
      BY DEF WatchOK
    <3> QED BY <3>1, <3>2
  <2> QED BY <2>1, <2>2, <1>1, <1>2, <1>4, <1>5, <1>9 DEF WatchOK
<1>10. CASE watch[w].state = "loop"
  <2>1. StreamFrom(w, Position(w)) /\ watch[w].previous = PutBefore(Position(w)) /\ SeenOK(w)
    BY <1>10 DEF WatchOK
  <2>2. Position(w) >= 1 /\ Position(w) <= n + 1
    BY <2>1, <1>3 DEF SeenOK
  <2>3. StreamFrom(w, Position(w))'
    <3>1. PICK i \in Nat : i = Position(w)
      BY <1>3
    <3>2. StreamFrom(w, i)'
      BY <3>1, <1>8, <1>10, <2>1, <2>2
    <3> QED BY <3>1, <3>2, <1>4
  <2>4. watch'[w].previous = PutBefore(Position(w))'
    <3>1. PICK i \in 1..(n + 1) : i = Position(w)
      BY <1>3, <2>2
    <3>2. PutBefore(i)' = PutBefore(i)
      BY <1>1
    <3>3. PutBefore(Position(w))' = PutBefore(i)'
      BY <1>4, <3>1 DEF PutBefore
    <3> QED BY <3>1, <3>2, <3>3, <2>1, <1>2
  <2>5. watch[w].latest <= n + 1 /\ (watch[w].asked # Unset => watch[w].asked <= n + 1)
    <3>1. watch[w].latest \in Nat /\ (watch[w].asked # Unset => watch[w].asked \in Nat)
      BY <1>3 DEF TypeAt, Revisions
    <3>2. watch[w].latest <= n /\ (watch[w].asked # Unset => watch[w].asked <= n)
      BY DEF WatchOK
    <3> QED BY <3>1, <3>2
  <2>6. SeenOK(w)' /\ watch'[w] = watch[w] /\ Len(log') = n + 1
    BY <2>1, <1>1, <1>2, <1>5
  <2> QED BY <2>3, <2>4, <2>5, <2>6, <1>10 DEF WatchOK
<1>11. CASE watch[w].state = "initial"
  <2> DEFINE asked == watch[w].asked
             latest == watch[w].latest
  <2>1. /\ latest \in Nat /\ latest <= n /\ (asked # Unset => asked \in Nat /\ asked <= n)
        /\ Seen(w) = <<>> /\ SeenOK(w)
    BY <1>3, <1>11 DEF WatchOK, TypeAt, Revisions
  <2>2. /\ latest <= n + 1 /\ (asked # Unset => asked <= n + 1)
        /\ Seen(w)' = <<>> /\ SeenOK(w)' /\ watch'[w] = watch[w] /\ Len(log') = n + 1
    BY <2>1, <1>1, <1>2, <1>4, <1>5
  <2>3. SUFFICES InitialOK(w)'
    BY <2>2, <1>11 DEF WatchOK
  <2>4. CASE stream[w] = <<>> /\ w \notin ended
    <3>1. object = None /\ due[w] = n + 1
      BY <2>4, <1>11 DEF WatchOK, InitialOK
    <3>2. stream'[w] = <<new>> /\ Head(stream'[w]) = new
      BY <2>4, <1>6, <1>11
    <3>3. type # "Deleted" /\ obj.rev = n + 1 /\ obj.history = <<>> /\ ~e.delete
      BY <3>1 DEF Written
    <3>4. StreamFrom(w, n + 1)'
      <4>1. StreamFrom(w, n + 1)
        <5>1. Len(stream[w]) = 0 /\ n + 1 + 0 - 1 = n /\ 1..0 = {}
          BY <2>4
        <5> QED BY <5>1 DEF StreamFrom
      <4>2. PICK i \in Nat : i = n + 1 /\ i >= 1
        OBVIOUS
      <4>3. StreamFrom(w, i)'
        BY <4>1, <4>2, <1>8, <1>11
      <4> QED BY <4>2, <4>3
    <3>5. FirstObject(w, obj)'
      <4>1. /\ Len(obj.history) = 0 /\ (n + 1) - 0 = n + 1 /\ (n + 1)..(n + 1) = {n + 1} /\ 1..0 = {}
            /\ n + 1 >= 1 /\ (asked # Unset => asked <= n + 1) /\ n + 1 # latest
        BY <3>3, <2>1
      <4>2. ~log'[n + 1].delete
        BY <3>3, <1>1
      <4>3. obj.history = [i \in 1..0 |-> [rev |-> (n + 1) + i - 1, value |-> (n + 1) + i - 1]]
        BY <3>3, <4>1
      <4>4. due'[w] = n + 1 /\ watch'[w].asked = asked /\ watch'[w].latest = latest
        BY <3>1, <1>2
      <4> HIDE DEF asked, latest
      <4> QED BY <3>3, <4>1, <4>2, <4>3, <4>4 DEF FirstObject
    <3> QED BY <3>2, <3>3, <3>4, <3>5 DEF InitialOK
  <2>5. CASE stream[w] = <<>> /\ w \in ended
    BY <2>5, <1>2, <1>6 DEF InitialOK
  <2>6. CASE stream[w] # <<>>
    <3>1. PICK first \in ApiEvents, r \in Nat : first = Head(stream[w]) /\ r = first.obj.rev
      <4>1. Head(stream[w]) \in ApiEvents
        BY <2>6, <1>6
      <4> QED BY <4>1 DEF ApiEvents, Objects, Revisions
    <3>2. first.type # "Deleted" /\ StreamFrom(w, r) /\ FirstObject(w, first.obj)
      BY <3>1, <2>6, <1>11 DEF WatchOK, InitialOK
    <3>3. PICK h \in Nat : h = Len(first.obj.history)
      BY DEF ApiEvents, Objects
    <3>4. r - h >= 1 /\ \A i \in (r - h)..r : ~log[i].delete
      BY <3>1, <3>2, <3>3 DEF FirstObject
    <3>5. r >= 1 /\ r <= n
      <4>1. PICK l \in Nat : l = Len(stream[w])
        BY <1>6
      <4>2. l >= 1
        BY <4>1, <2>6, <1>6
      <4>3. r + l - 1 <= n
        BY <3>2, <4>1 DEF StreamFrom
      <4> QED BY <4>2, <4>3, <3>4
    <3>6. stream'[w] # <<>> /\ Head(stream'[w]) = first
      <4>1. CASE told
        <5>1. stream'[w] = Append(stream[w], new)
          BY <4>1, <1>6
        <5> QED BY <5>1, <3>1, <2>6, <1>6
      <4>2. CASE ~told
        BY <4>2, <3>1, <2>6, <1>6
      <4> QED BY <4>1, <4>2
    <3>7. StreamFrom(w, r)'
      BY <3>2, <3>5, <1>8, <1>11
    <3>8. FirstObject(w, first.obj)'
      <4>1. \A i \in (r - h)..r : ~log'[i].delete
        <5>1. \A i \in (r - h)..r : i \in 1..n
          BY <3>4, <3>5
        <5> QED BY <5>1, <3>4, <1>1
      <4>2. due'[w] = due[w] /\ watch'[w] = watch[w]
        BY <1>2
      <4> QED BY <3>1, <3>2, <3>3, <4>1, <4>2 DEF FirstObject
    <3> QED BY <3>1, <3>2, <3>6, <3>7, <3>8 DEF InitialOK
  <2> QED BY <2>4, <2>5, <2>6
<1>12. watch[w].state \in {"none", "got", "initial", "loop", "closed"}
  BY <1>3 DEF TypeAt
<1> QED BY <1>9, <1>10, <1>11, <1>12

\* Watch reads the object.
LEMMA WatchGetStep ==
  ASSUME TypeOK, LogOK, ObjectOK, HistoryIsLog, NEW w \in Watches, WatchOK(w),
         NEW rev, WatchGet(w, rev)
  PROVE  TypeOK' /\ WatchOK(w)'
<1> DEFINE latest == IF object = None THEN 0 ELSE object.rev
           new == [state |-> "got", asked |-> rev, previous |-> 0, latest |-> latest]
<1>1. /\ watch[w].state = "none" /\ Given(rev) /\ watch' = [watch EXCEPT ![w] = new]
      /\ UNCHANGED <<store, call, stream, ended, pending, channel, got, due, cancelled>>
  BY DEF WatchGet
<1>2. TypeAt(w) /\ watch'[w] = new
  BY <1>1, TypeFacts DEF TypeOK
<1>3. version = Len(log) /\ Len(log) \in Nat /\ Len(log) <= MaxVersion /\ MaxVersion \in Nat
  BY LogFacts
<1>4. latest \in Revisions /\ latest <= Len(log)
  <2>1. object # None => object.rev = Len(log)
    BY ObjectFacts
  <2> QED BY <2>1, <1>3 DEF Revisions
<1>5. rev \in Revisions \cup {Unset} /\ (rev # Unset => rev <= Len(log)) /\ 0 \in Revisions
  BY <1>1, <1>3 DEF Given, Revisions
<1> HIDE DEF latest
<1>6. TypeAt(w)'
  BY <1>1, <1>2, <1>4, <1>5 DEF TypeAt
<1>7. TypeOK'
  <2>1. ended' \subseteq Watches /\ cancelled' \subseteq Watches
    BY <1>1 DEF TypeOK
  <2> QED BY <1>1, <1>2, <1>6, <2>1, WatchStepType DEF TypeOK
<1>8. WatchOK(w)'
  <2>1. Seen(w)' = Seen(w) /\ stream'[w] = stream[w] /\ log' = log
    BY <1>1 DEF Seen, store
  <2>2. Seen(w) = <<>> /\ stream[w] = <<>>
    BY <1>1 DEF WatchOK
  <2> QED BY <2>1, <2>2, <1>2, <1>4, <1>5 DEF WatchOK
<1> QED BY <1>7, <1>8

\* The least of an interval's end.
LEMMA MinOfEnd ==
  ASSUME NEW o \in Nat, NEW n \in Nat, o <= n, NEW q \in Nat, q <= n, NEW S,
         S = {i \in o..(n - 1) : i >= q} \cup {n}
  PROVE  Min(S) = IF q <= o THEN o ELSE q
<1>1. S \subseteq Nat /\ S # {}
  OBVIOUS
<1>2. Min(S) \in S /\ \A j \in S : Min(S) <= j
  BY <1>1, MinFacts
<1>3. (IF q <= o THEN o ELSE q) \in S
  OBVIOUS
<1>4. \A j \in S : j >= IF q <= o THEN o ELSE q
  OBVIOUS
<1>5. PICK m \in S : m = Min(S)
  BY <1>2
<1>6. m \in Nat /\ m <= (IF q <= o THEN o ELSE q) /\ m >= IF q <= o THEN o ELSE q
  BY <1>1, <1>2, <1>3, <1>4, <1>5
<1> QED BY <1>5, <1>6

\* The API server begins a watch with the object that it has then.
LEMMA WatchOpenStep ==
  ASSUME TypeOK, LogOK, ObjectOK, HistoryIsLog, NEW w \in Watches, WatchOK(w), WatchOpen(w)
  PROVE  TypeOK' /\ WatchOK(w)'
<1> DEFINE asked == watch[w].asked
           latest == watch[w].latest
           first == [type |-> "Added", obj |-> object]
<1>1. PICK n \in Nat : n = Len(log) /\ n <= MaxVersion
  BY LogFacts
<1>2. /\ watch[w].state = "got" /\ watch' = [watch EXCEPT ![w].state = "initial"]
      /\ stream' = [stream EXCEPT ![w] = IF object = None THEN <<>> ELSE <<first>>]
      /\ due' = [due EXCEPT ![w] = FirstDue(w)]
      /\ UNCHANGED <<store, call, ended, pending, channel, got, cancelled>>
  BY DEF WatchOpen
<1>3. TypeAt(w) /\ Seen(w) = <<>>
  BY <1>2, TypeFacts DEF WatchOK
<1>4. /\ watch'[w] = [watch[w] EXCEPT !.state = "initial"]
      /\ stream'[w] = IF object = None THEN <<>> ELSE <<first>>
      /\ due'[w] = FirstDue(w)
  BY <1>2 DEF TypeOK
<1>5. watch'[w].state = "initial" /\ watch'[w].asked = asked /\ watch'[w].latest = latest
  BY <1>3, <1>4 DEF TypeAt
<1>6. latest \in Nat /\ latest <= n /\ (asked # Unset => asked \in Nat /\ asked <= n)
  BY <1>1, <1>3 DEF TypeAt, Revisions, WatchOK
<1>7. Seen(w)' = <<>> /\ log' = log /\ object' = object
  BY <1>2, <1>3 DEF Seen, store
<1>8. ASSUME InitialOK(w)', due'[w] \in 1..(n + 1), stream'[w] \in Seq(ApiEvents)
      PROVE  TypeOK' /\ WatchOK(w)'
  <2>1. TypeAt(w)'
    <3>1. watch'[w] \in [state : {"none", "got", "initial", "loop", "closed"},
                         asked : Revisions \cup {Unset}, previous : Revisions, latest : Revisions]
      BY <1>3, <1>4 DEF TypeAt
    <3>2. due'[w] \in Nat \ {0}
      BY <1>8
    <3>3. pending'[w] = pending[w] /\ channel'[w] = channel[w] /\ got'[w] = got[w]
      BY <1>2
    <3> QED BY <3>1, <3>2, <3>3, <1>3, <1>8, Zenon DEF TypeAt
  <2>2. TypeOK'
    <3>1. ended' \subseteq Watches /\ cancelled' \subseteq Watches
      BY <1>2 DEF TypeOK
    <3> QED BY <1>2, <1>4, <2>1, <3>1, WatchStepType DEF TypeOK
  <2>3. SeenOK(w)'
    <3>1. Position(w)' <= n + 1
      <4>1. Len(Seen(w)') = 0
        BY <1>7
      <4>2. Position(w)' = due'[w] + 0
        BY <4>1 DEF Position
      <4> QED BY <4>2, <1>8
    <3>2. 1..Len(Seen(w)') = {}
      BY <1>7
    <3> QED BY <3>1, <3>2, <1>1, <1>7 DEF SeenOK
  <2>4. WatchOK(w)'
    BY <2>3, <1>1, <1>5, <1>6, <1>7, <1>8 DEF WatchOK
  <2> QED BY <2>2, <2>4
<1>9. CASE object = None
  <2>1. due'[w] = n + 1 /\ n + 1 \in 1..(n + 1)
    BY <1>1, <1>4, <1>9 DEF FirstDue
  <2>2. stream'[w] = <<>>
    BY <1>4, <1>9
  <2>3. InitialOK(w)'
    BY <2>1, <2>2, <1>1, <1>7, <1>9 DEF InitialOK
  <2> QED BY <1>8, <2>1, <2>2, <2>3
<1>10. CASE object # None
  <2>1. PICK h \in Nat : h = Len(object.history)
    BY <1>10, ObjectFacts
  <2>2. PICK o \in Nat : o = n - h /\ o >= 1 /\ o <= n
    <3>1. h < n
      BY <1>1, <1>10, <2>1, ObjectFacts
    <3> QED BY <3>1
  <2>3. /\ object \in Objects /\ object.rev = n /\ object.value = n /\ Kept = o..(n - 1)
        /\ \A i \in o..n : ~log[i].delete
        /\ \A i \in 1..h : object.history[i] = [rev |-> o + i - 1, value |-> o + i - 1]
    <3>1. /\ object \in Objects /\ object.rev = n /\ object.value = n /\ Kept = (n - h)..(n - 1)
          /\ \A i \in (n - h)..n : ~log[i].delete
          /\ \A i \in 1..h : object.history[i] = [rev |-> n - h - 1 + i, value |-> n - h - 1 + i]
      BY <1>1, <1>10, <2>1, ObjectFacts
    <3>2. \A i \in 1..h : n - h - 1 + i = o + i - 1
      BY <2>2
    <3> QED BY <3>1, <3>2, <2>2
  <2>4. log \in Seq(Events) /\ \A i \in 1..n : ~log[i].delete => log[i].rev = i /\ log[i].value = i
    BY <1>1, LogFacts
  <2>5. stream'[w] = <<first>> /\ first \in ApiEvents
    BY <1>4, <1>10, <2>3 DEF ApiEvents, Types
  <2>6. due'[w] = IF asked = Unset THEN IF n = latest THEN n + 1 ELSE n
                  ELSE IF asked <= o THEN o ELSE asked
    <3>1. CASE asked = Unset
      BY <3>1, <1>1, <1>4, <1>10, <2>3 DEF FirstDue
    <3>2. CASE asked # Unset
      <4> DEFINE S == {i \in o..(n - 1) : i >= asked} \cup {n}
                 T == {i \in Kept : log[i].rev >= asked} \cup {Len(log)}
      <4>1. FirstDue(w) = Min(T)
        BY <3>2, <1>10 DEF FirstDue
      <4>2. S = T
        <5>1. \A i \in o..(n - 1) : i \in 1..n /\ ~log[i].delete
          BY <2>2, <2>3
        <5>2. \A i \in o..(n - 1) : log[i].rev = i
          BY <5>1, <2>4
        <5>3. {i \in Kept : log[i].rev >= asked} = {i \in o..(n - 1) : i >= asked}
          <6> HIDE DEF asked
          <6> QED BY <5>2, <2>3
        <5> QED BY <5>3, <1>1
      <4>3. PICK q \in Nat : q = asked /\ q <= n
        BY <3>2, <1>6
      <4>4. Min(S) = IF q <= o THEN o ELSE q
        BY <2>2, <4>3, MinOfEnd
      <4> HIDE DEF S, T
      <4> QED BY <3>2, <4>1, <4>2, <4>3, <4>4, <1>4
    <3> QED BY <3>1, <3>2
  <2>7. due'[w] \in 1..(n + 1)
    BY <2>6, <1>6, <2>2
  <2>8. StreamFrom(w, n)'
    <3>1. Len(stream'[w]) = 1 /\ stream'[w][1] = first /\ n + 1 - 1 = n
      BY <2>5
    <3>2. first.type = "Added" /\ first.obj = object
      OBVIOUS
    <3>3. ~log[n].delete /\ log[n].value = n
      <4>1. n \in o..n /\ n \in 1..n
        BY <2>2
      <4> QED BY <4>1, <2>3, <2>4
    <3>4. \A k \in 1..1 : k = 1
      OBVIOUS
    <3> HIDE DEF first
    <3> QED BY <3>1, <3>2, <3>3, <3>4, <1>1, <1>7, <2>3 DEF StreamFrom
  <2>9. FirstObject(w, object)'
    <3>1. object.history = [i \in 1..h |-> [rev |-> o + i - 1, value |-> o + i - 1]]
      <4>1. object.history \in Seq(Entries)
        BY <2>3 DEF Objects, Entries
      <4>2. object.history = [i \in 1..h |-> object.history[i]]
        BY <4>1, <2>1
      <4> QED BY <4>2, <2>3
    <3>2. object.rev - h = o
      BY <2>2, <2>3
    <3> HIDE DEF asked, latest
    <3> QED BY <3>1, <3>2, <1>5, <1>6, <1>7, <2>1, <2>2, <2>3, <2>6 DEF FirstObject
  <2>10. InitialOK(w)'
    <3>1. stream'[w] # <<>> /\ Head(stream'[w]) = first
      BY <2>5
    <3>2. first.type # "Deleted" /\ first.obj = object /\ object' = object /\ object.rev = n
      BY <1>7, <2>3
    <3>3. FirstObject(w, first.obj)' /\ StreamFrom(w, first.obj.rev)'
      BY <2>8, <2>9, <3>2
    <3> QED BY <3>1, <3>2, <3>3 DEF InitialOK
  <2>11. stream'[w] \in Seq(ApiEvents)
    BY <2>5
  <2> QED BY <1>8, <2>7, <2>10, <2>11
<1> QED BY <1>9, <1>10

\* The goroutine reads the next of the API server's events.
LEMMA StreamTail ==
  ASSUME TypeOK, LogOK, NEW w \in Watches, NEW i \in Nat, i >= 1, StreamFrom(w, i), stream[w] # <<>>,
         stream'[w] = Tail(stream[w]), UNCHANGED <<log, ended>>, NEW j \in Nat, j = i + 1
  PROVE  LET e == Head(stream[w])
         IN /\ StreamFrom(w, j)' /\ stream'[w] \in Seq(ApiEvents)
            /\ e \in ApiEvents /\ i \in 1..Len(log)
            /\ (e.type = "Deleted") <=> log[i].delete
            /\ e.obj.rev = i /\ e.obj.value = log[i].value
<1> DEFINE e == Head(stream[w])
<1>1. PICK n \in Nat, l \in Nat : n = Len(log) /\ l = Len(stream[w])
  BY LogFacts, TypeFacts DEF TypeAt
<1>2. stream[w] \in Seq(ApiEvents) /\ l >= 1
  BY <1>1, TypeFacts DEF TypeAt
<1>3. /\ i + l - 1 <= n /\ (w \notin ended => i + l - 1 = n)
      /\ \A k \in 1..l : /\ (stream[w][k].type = "Deleted") <=> log[i + k - 1].delete
                         /\ stream[w][k].obj.rev = i + k - 1 /\ stream[w][k].obj.value = log[i + k - 1].value
  BY <1>1 DEF StreamFrom
<1>4. /\ e \in ApiEvents /\ e = stream[w][1]
      /\ Tail(stream[w]) \in Seq(ApiEvents) /\ Len(Tail(stream[w])) = l - 1
      /\ \A k \in 1..(l - 1) : Tail(stream[w])[k] = stream[w][k + 1]
  BY <1>1, <1>2
<1>5. i + 1 - 1 = i /\ 1 \in 1..l /\ i \in 1..n
  BY <1>2, <1>3
<1>6. (e.type = "Deleted" <=> log[i].delete) /\ e.obj.rev = i /\ e.obj.value = log[i].value
  BY <1>3, <1>4, <1>5
<1>7. ASSUME NEW k \in 1..(l - 1)
      PROVE  /\ (stream'[w][k].type = "Deleted") <=> log[j + k - 1].delete
             /\ stream'[w][k].obj.rev = j + k - 1 /\ stream'[w][k].obj.value = log[j + k - 1].value
  <2>1. k + 1 \in 1..l /\ i + (k + 1) - 1 = j + k - 1
    BY <1>2
  <2>2. stream'[w][k] = stream[w][k + 1]
    BY <1>4
  <2> QED BY <2>1, <2>2, <1>3
<1>8. j + (l - 1) - 1 <= n /\ (w \notin ended => j + (l - 1) - 1 = n) /\ Len(stream'[w]) = l - 1
  BY <1>2, <1>3, <1>4
<1>9. StreamFrom(w, j)'
  BY <1>1, <1>7, <1>8 DEF StreamFrom
<1> QED BY <1>1, <1>4, <1>5, <1>6, <1>9

\* An entry of the log is what its kind and index make it.
LEMMA LogEvent ==
  ASSUME TypeOK, LogOK, NEW i \in 1..Len(log)
  PROVE  log[i] = IF log[i].delete
                  THEN [delete |-> TRUE, rev |-> 0, value |-> i - 1, prev |-> PutBefore(i)]
                  ELSE [delete |-> FALSE, rev |-> i, value |-> i, prev |-> PutBefore(i)]
<1>1. PICK e, p : e = log[i] /\ p = PutBefore(i)
  OBVIOUS
<1>2. /\ e \in Events /\ e.prev = p
      /\ ~e.delete => e.rev = i /\ e.value = i
      /\ e.delete => e.rev = 0 /\ e.value = i - 1
  BY <1>1, LogFacts
<1>3. e = IF e.delete THEN [delete |-> TRUE, rev |-> 0, value |-> i - 1, prev |-> p]
          ELSE [delete |-> FALSE, rev |-> i, value |-> i, prev |-> p]
  BY ONLY <1>2 DEF Events
<1> QED BY <1>1, <1>3, Zenon

\* An event without its predecessor.
LEMMA WithoutPrev ==
  ASSUME NEW e \in Events
  PROVE  [e EXCEPT !.prev = 0] = [delete |-> e.delete, rev |-> e.rev, value |-> e.value, prev |-> 0]
<1> DEFINE f == [e EXCEPT !.prev = 0]
<1>1. f = [x \in {"delete", "rev", "value", "prev"} |-> IF x = "prev" THEN 0 ELSE e[x]]
  BY DEF Events
<1> QED BY <1>1

\* The goroutine reads the first object and makes its events.
LEMMA InitialStep ==
  ASSUME TypeOK, LogOK, ObjectOK, HistoryIsLog, NEW w \in Watches, WatchOK(w), Initial(w)
  PROVE  TypeOK' /\ WatchOK(w)'
<1> DEFINE asked == watch[w].asked
           latest == watch[w].latest
           first == Head(stream[w])
<1>1. PICK n \in Nat : n = Len(log) /\ n <= MaxVersion
  BY LogFacts
<1>2. /\ watch[w].state = "initial" /\ stream[w] # <<>>
      /\ pending' = [pending EXCEPT ![w] = InitialEvents(w, first.obj)]
      /\ watch' = [watch EXCEPT ![w].state = "loop", ![w].previous = first.obj.rev]
      /\ stream' = [stream EXCEPT ![w] = Tail(@)]
      /\ UNCHANGED <<store, call, ended, channel, got, due, cancelled>>
  BY DEF Initial
<1>3. TypeAt(w) /\ Seen(w) = <<>>
  BY <1>2, TypeFacts DEF WatchOK
<1>4. /\ pending'[w] = InitialEvents(w, first.obj)
      /\ watch'[w] = [watch[w] EXCEPT !.state = "loop", !.previous = first.obj.rev]
      /\ stream'[w] = Tail(stream[w])
      /\ due'[w] = due[w] /\ channel'[w] = channel[w] /\ got'[w] = got[w]
  BY <1>2 DEF TypeOK
<1>5. /\ watch'[w].state = "loop" /\ watch'[w].asked = asked /\ watch'[w].latest = latest
      /\ watch'[w].previous = first.obj.rev
  BY <1>3, <1>4 DEF TypeAt
<1>6. PICK f \in ApiEvents, obj \in Objects, r \in Nat :
         f = first /\ obj = first.obj /\ r = obj.rev /\ r \in Revisions
  <2>1. PICK f \in ApiEvents : f = first
    BY <1>2, <1>3 DEF TypeAt
  <2>2. PICK obj \in Objects : obj = f.obj
    BY DEF ApiEvents
  <2>3. obj.rev \in Revisions /\ obj.rev \in Nat
    BY DEF Objects, Revisions
  <2> QED BY <2>1, <2>2, <2>3
<1>7. f.type # "Deleted" /\ StreamFrom(w, r) /\ FirstObject(w, obj)
  BY <1>2, <1>6 DEF WatchOK, InitialOK
<1>8. r >= 1 /\ ~log[r].delete
  <2>1. PICK h \in Nat : h = Len(obj.history)
    BY DEF Objects
  <2>2. r - h >= 1 /\ \A i \in (r - h)..r : ~log[i].delete
    BY <1>6, <1>7, <2>1 DEF FirstObject
  <2> QED BY <2>2
<1>9. PICK j \in Nat : j = r + 1
  OBVIOUS
<1>10. /\ StreamFrom(w, j)' /\ stream'[w] \in Seq(ApiEvents) /\ r \in 1..n
       /\ obj.value = log[r].value
  <2>1. UNCHANGED <<log, ended>>
    BY <1>2 DEF store
  <2> QED BY <2>1, <1>1, <1>2, <1>4, <1>6, <1>7, <1>8, <1>9, StreamTail
<1>11. \A i \in 1..n : ~log[i].delete => log[i] = [delete |-> FALSE, rev |-> i, value |-> i, prev |-> PutBefore(i)]
  BY <1>1, LogEvent
<1>12. PICK d \in Nat : d = due[w]
  BY TypeFacts
<1>13. InitialRun(w, obj, d, r)
  <2>1. obj.value = r
    BY <1>1, <1>8, <1>10, LogFacts
  <2>2. r <= Len(log) /\ r = obj.rev /\ FirstObject(w, obj) /\ d = due[w]
    BY <1>1, <1>6, <1>7, <1>10, <1>12
  <2> HIDE DEF first
  <2> QED BY <2>1, <2>2, InitialFacts, Zenon
<1>14. Seen(w)' = InitialEvents(w, obj)
  <2>1. got[w] = <<>> /\ channel[w] = <<>>
    <3>1. PICK x, y, z : x = got[w] /\ y = channel[w] /\ z = pending[w]
      OBVIOUS
    <3>2. x \in Seq(Events) /\ y \in Seq(Events) /\ z \in Seq(Events)
      BY <1>3, <3>1 DEF TypeAt
    <3>3. x \o y \o z = <<>>
      BY <1>3, <3>1 DEF Seen
    <3>4. x = <<>> /\ y = <<>>
      BY ONLY <3>2, <3>3
    <3> QED BY <3>1, <3>4
  <2>2. Seen(w)' = <<>> \o <<>> \o InitialEvents(w, obj)
    BY <2>1, <1>4, <1>6 DEF Seen
  <2>3. <<>> \o <<>> \o InitialEvents(w, obj) = InitialEvents(w, obj)
    BY <1>13 DEF InitialRun
  <2> QED BY <2>2, <2>3, Zenon
<1>15. Position(w)' = j
  <2>1. PICK l \in Nat : l = Len(Seen(w)') /\ l = r - d + 1
    BY <1>13, <1>14 DEF InitialRun
  <2>2. Position(w)' = d + l
    BY <2>1, <1>4, <1>12 DEF Position
  <2>3. d + l = j
    BY ONLY <2>1, <1>9, d \in Nat, r \in Nat
  <2> QED BY <2>2, <2>3
<1>16. SeenOK(w)'
  <2>1. Position(w)' <= Len(log') + 1
    <3>1. log' = log
      BY <1>2 DEF store
    <3> QED BY <3>1, <1>1, <1>9, <1>10, <1>15
  <2>2. ASSUME NEW k \in 1..(r - d + 1)
        PROVE  \/ InitialEvents(w, obj)[k] = log[d + k - 1]
               \/ k = 1 /\ InitialEvents(w, obj)[k] = [log[d + k - 1] EXCEPT !.prev = 0]
    <3>1. PICK i \in 1..r : i = d + k - 1
      <4>1. d + k - 1 \in 1..r
        BY <1>13 DEF InitialRun
      <4> QED BY <4>1
    <3>2. PICK prev : /\ InitialEvents(w, obj)[k] = [delete |-> FALSE, rev |-> i, value |-> i, prev |-> prev]
                      /\ (i > 1 /\ ~log[i - 1].delete /\ prev = i - 1) \/ (k = 1 /\ prev = 0)
      BY <3>1, <1>13 DEF InitialRun
    <3>3. i \in 1..n /\ ~log[i].delete
      <4>1. PICK h \in Nat : h = Len(obj.history)
        BY DEF Objects
      <4>2. \A x \in (r - h)..r : ~log[x].delete
        BY <1>6, <1>7, <4>1 DEF FirstObject
      <4>3. d >= r - h \/ (d = r /\ r >= r - h) \/ d = r + 1
        <5>1. CASE asked = Unset
          <6>1. d = IF r = latest THEN r + 1 ELSE r
            BY <5>1, <1>6, <1>7, <1>12 DEF FirstObject
          <6> QED BY <6>1
        <5>2. CASE asked # Unset
          <6>1. PICK q \in Nat : q = asked
            BY <5>2, <1>3 DEF TypeAt, Revisions
          <6>2. d = IF q <= r - h THEN r - h ELSE q
            BY <5>2, <6>1, <1>6, <1>7, <1>12, <4>1 DEF FirstObject
          <6> QED BY <6>2
        <5> QED BY <5>1, <5>2
      <4>4. i \in (r - h)..r
        BY <1>9, <3>1, <4>3
      <4> QED BY <4>2, <4>4, <1>10
    <3>4. log[i] = [delete |-> FALSE, rev |-> i, value |-> i, prev |-> PutBefore(i)]
      BY <3>3, <1>11
    <3>5. CASE i > 1 /\ ~log[i - 1].delete /\ prev = i - 1
      <4>1. PutBefore(i) = prev
        BY <3>5 DEF PutBefore
      <4> QED BY <3>1, <3>2, <3>4, <4>1
    <3>6. CASE k = 1 /\ prev = 0
      <4>1. PICK e, p : e = log[i] /\ p = PutBefore(i)
        OBVIOUS
      <4>2. e = [delete |-> FALSE, rev |-> i, value |-> i, prev |-> p]
        BY <3>4, <4>1, Zenon
      <4>3. [e EXCEPT !.prev = 0] = [delete |-> FALSE, rev |-> i, value |-> i, prev |-> 0]
        <5>1. e \in Events
          BY <1>1, <3>3, <4>1, LogFacts
        <5>2. [e EXCEPT !.prev = 0] = [delete |-> e.delete, rev |-> e.rev, value |-> e.value, prev |-> 0]
          BY <5>1, WithoutPrev
        <5>3. e.delete = FALSE /\ e.rev = i /\ e.value = i
          BY ONLY <4>2
        <5> QED BY <5>2, <5>3, Zenon
      <4> QED BY <3>1, <3>2, <3>6, <4>1, <4>3
    <3> QED BY <3>2, <3>5, <3>6
  <2>3. log' = log
    BY <1>2 DEF store
  <2>4. Len(Seen(w)') = r - d + 1
    BY <1>13, <1>14 DEF InitialRun
  <2>5. ASSUME NEW k \in 1..Len(Seen(w)')
        PROVE  LET l == log'[due'[w] + k - 1]
               IN Seen(w)'[k] = l \/ (k = 1 /\ Seen(w)'[k] = [l EXCEPT !.prev = 0])
    <3>1. k \in 1..(r - d + 1)
      BY <2>4, Zenon
    <3> QED BY <3>1, <2>2, <2>3, <1>4, <1>12, <1>14, Zenon
  <2> QED BY <2>1, <2>5 DEF SeenOK
<1>17. TypeOK'
  <2>1. TypeAt(w)'
    BY <1>3, <1>4, <1>5, <1>6, <1>10, <1>13 DEF TypeAt, InitialRun
  <2>2. ended' \subseteq Watches /\ cancelled' \subseteq Watches
    BY <1>2 DEF TypeOK
  <2> QED BY <1>2, <1>4, <2>1, <2>2, WatchStepType DEF TypeOK
<1>18. watch'[w].previous = PutBefore(Position(w))'
  <2>1. j > 1 /\ j - 1 = r /\ log' = log
    BY <1>2, <1>8, <1>9 DEF store
  <2>2. PutBefore(Position(w))' = j - 1
    BY <2>1, <1>8, <1>15 DEF PutBefore
  <2> QED BY <2>1, <2>2, <1>5, <1>6
<1>19. StreamFrom(w, Position(w))'
  BY <1>10, <1>15
<1>20. /\ watch'[w].latest <= Len(log') /\ (watch'[w].asked # Unset => watch'[w].asked <= Len(log'))
  BY <1>2, <1>5 DEF WatchOK, store
<1>21. WatchOK(w)'
  BY <1>5, <1>16, <1>18, <1>19, <1>20 DEF WatchOK
<1> QED BY <1>17, <1>21

\* A value more at the end of what a watch has made.
LEMMA SeenMore ==
  ASSUME NEW x \in Seq(Events), NEW y \in Seq(Events), NEW e \in Events
  PROVE  /\ x \o y \o <<>> = x \o y
         /\ x \o y \o <<e>> = Append(x \o y, e)
OBVIOUS

\* The goroutine reads a later event and makes its own.
LEMMA TakeStep ==
  ASSUME TypeOK, LogOK, ObjectOK, HistoryIsLog, NEW w \in Watches, WatchOK(w), Take(w)
  PROVE  TypeOK' /\ WatchOK(w)'
<1> DEFINE e == Head(stream[w])
           previous == IF e.type = "Deleted" THEN 0 ELSE e.obj.rev
<1>1. PICK n \in Nat : n = Len(log) /\ n <= MaxVersion
  BY LogFacts
<1>2. /\ watch[w].state = "loop" /\ pending[w] = <<>> /\ stream[w] # <<>>
      /\ pending' = [pending EXCEPT ![w] = <<EventOf(w, e)>>]
      /\ watch' = [watch EXCEPT ![w].previous = previous]
      /\ stream' = [stream EXCEPT ![w] = Tail(@)]
      /\ UNCHANGED <<store, call, ended, channel, got, due, cancelled>>
  BY DEF Take
<1>3. TypeAt(w) /\ Seen(w) \in Seq(Events)
  BY TypeFacts
<1>4. /\ pending'[w] = <<EventOf(w, e)>>
      /\ watch'[w] = [watch[w] EXCEPT !.previous = previous]
      /\ stream'[w] = Tail(stream[w])
      /\ due'[w] = due[w] /\ channel'[w] = channel[w] /\ got'[w] = got[w] /\ log' = log
  BY <1>2 DEF TypeOK, store
<1>5. /\ watch'[w].state = "loop" /\ watch'[w].asked = watch[w].asked
      /\ watch'[w].latest = watch[w].latest /\ watch'[w].previous = previous
  BY <1>2, <1>3, <1>4 DEF TypeAt
<1>6. PICK i \in Nat, l \in Nat, d \in Nat :
        i = Position(w) /\ l = Len(Seen(w)) /\ d = due[w] /\ i = d + l /\ d >= 1 /\ i >= 1
  <2>1. PICK m \in Nat : m = Len(Seen(w))
    BY TypeFacts
  <2>2. PICK c \in Nat : c = due[w] /\ c >= 1
    BY TypeFacts
  <2>3. PICK p \in Nat : p = Position(w) /\ p = c + m
    <3>1. Position(w) = c + m
      BY <2>1, <2>2 DEF Position
    <3> QED BY <3>1
  <2>4. p >= 1
    BY <2>2, <2>3
  <2> QED BY <2>1, <2>2, <2>3, <2>4, Zenon
<1>7. /\ StreamFrom(w, i) /\ watch[w].previous = PutBefore(i) /\ SeenOK(w)
  BY <1>2, <1>6 DEF WatchOK
<1>8. PICK j \in Nat : j = i + 1
  OBVIOUS
<1>9. /\ StreamFrom(w, j)' /\ stream'[w] \in Seq(ApiEvents) /\ e \in ApiEvents /\ i \in 1..n
      /\ (e.type = "Deleted") <=> log[i].delete
      /\ e.obj.rev = i /\ e.obj.value = log[i].value
  <2>1. UNCHANGED <<log, ended>>
    BY <1>2 DEF store
  <2> QED BY <2>1, <1>1, <1>2, <1>4, <1>6, <1>7, <1>8, StreamTail
<1>10. log[i] \in Events /\ (log[i].delete => PutBefore(i) # 0)
  BY <1>1, <1>9, LogFacts DEF LogOK
<1>11. log[i] = IF log[i].delete
                THEN [delete |-> TRUE, rev |-> 0, value |-> i - 1, prev |-> PutBefore(i)]
                ELSE [delete |-> FALSE, rev |-> i, value |-> i, prev |-> PutBefore(i)]
  BY <1>1, <1>9, LogEvent
<1>12. log[i].value = IF log[i].delete THEN i - 1 ELSE i
  BY <1>1, <1>9, LogFacts
<1>13. EventOf(w, e) = log[i]
  <2>1. CASE log[i].delete
    <3>1. EventOf(w, e) = [delete |-> TRUE, rev |-> 0, value |-> e.obj.value, prev |-> watch[w].previous]
      BY <2>1, <1>7, <1>9, <1>10 DEF EventOf
    <3> QED BY <3>1, <2>1, <1>7, <1>9, <1>11, <1>12
  <2>2. CASE ~log[i].delete
    <3>1. EventOf(w, e) = [delete |-> FALSE, rev |-> e.obj.rev, value |-> e.obj.value,
                           prev |-> watch[w].previous]
      BY <2>2, <1>9 DEF EventOf
    <3> QED BY <3>1, <2>2, <1>7, <1>9, <1>11, <1>12
  <2> QED BY <2>1, <2>2
<1>14. previous = PutBefore(j)' /\ previous \in Revisions
  <2>1. j > 1 /\ j - 1 = i
    BY <1>6, <1>8
  <2>2. PutBefore(j)' = IF log[i].delete THEN 0 ELSE i
    <3>1. PutBefore(j)' = IF j > 1 /\ ~log'[j - 1].delete THEN j - 1 ELSE 0
      BY DEF PutBefore
    <3> QED BY <3>1, <2>1, <1>4
  <2>3. previous = IF log[i].delete THEN 0 ELSE i
    BY <1>9
  <2>4. 0 \in Revisions /\ i \in Revisions
    BY <1>1, <1>9, ParametersAssumption DEF Revisions
  <2> QED BY <2>2, <2>3, <2>4
<1> HIDE DEF previous
<1>15. Seen(w)' = Append(Seen(w), log[i])
  <2>1. PICK x, y : x = got[w] /\ y = channel[w] /\ x \in Seq(Events) /\ y \in Seq(Events)
    BY <1>3 DEF TypeAt
  <2>2. x \o y \o <<>> = x \o y /\ x \o y \o <<log[i]>> = Append(x \o y, log[i])
    BY <2>1, <1>10, SeenMore
  <2>3. Seen(w) = x \o y
    BY <2>1, <2>2, <1>2 DEF Seen
  <2>4. Seen(w)' = x \o y \o <<log[i]>>
    BY <2>1, <1>4, <1>13 DEF Seen
  <2> QED BY <2>2, <2>3, <2>4, Zenon
<1>16. /\ Len(Seen(w)') = l + 1 /\ Seen(w)'[l + 1] = log[i]
       /\ \A k \in 1..l : Seen(w)'[k] = Seen(w)[k]
  <2>1. PICK s, x : s = Seen(w) /\ x = log[i] /\ s \in Seq(Events) /\ x \in Events /\ Len(s) = l
    BY <1>3, <1>6, <1>10
  <2>2. /\ Len(Append(s, x)) = l + 1 /\ Append(s, x)[l + 1] = x /\ \A k \in 1..l : Append(s, x)[k] = s[k]
    BY ONLY <2>1, AppendFacts
  <2> QED BY <2>1, <2>2, <1>15, Zenon
<1>17. Position(w)' = j
  <2>1. Position(w)' = d + (l + 1)
    <3>1. Position(w)' = due'[w] + Len(Seen(w)')
      BY DEF Position
    <3> QED BY <3>1, <1>4, <1>6, <1>16, Zenon
  <2>2. d + (l + 1) = j
    <3>1. i = d + l /\ j = i + 1
      BY <1>6, <1>8, Zenon
    <3> QED BY ONLY <3>1, d \in Nat, l \in Nat
  <2> QED BY <2>1, <2>2, Zenon
<1>18. SeenOK(w)'
  <2>1. j <= n + 1
    BY <1>8, <1>9
  <2>2. ASSUME NEW k \in 1..(l + 1)
        PROVE  \/ Seen(w)'[k] = log[d + k - 1]
               \/ k = 1 /\ Seen(w)'[k] = [log[d + k - 1] EXCEPT !.prev = 0]
    <3>1. CASE k = l + 1
      <4>1. d + k - 1 = i
        BY <3>1, <1>6
      <4> QED BY <3>1, <4>1, <1>16
    <3>2. CASE k # l + 1
      <4>1. k \in 1..l
        BY <3>2
      <4>2. \/ Seen(w)[k] = log[d + k - 1]
            \/ k = 1 /\ Seen(w)[k] = [log[d + k - 1] EXCEPT !.prev = 0]
        BY <4>1, <1>6, <1>7 DEF SeenOK
      <4> QED BY <4>1, <4>2, <1>16, Zenon
    <3> QED BY <3>1, <3>2
  <2> QED BY <2>1, <2>2, <1>1, <1>4, <1>6, <1>16, <1>17 DEF SeenOK
<1>19. TypeOK'
  <2>1. TypeAt(w)'
    <3>1. pending'[w] \in Seq(Events)
      <4> HIDE DEF e
      <4>1. pending'[w] = <<log[i]>>
        BY <1>4, <1>13, Zenon
      <4> QED BY <4>1, <1>10
    <3>2. watch'[w] \in [state : {"none", "got", "initial", "loop", "closed"},
                         asked : Revisions \cup {Unset}, previous : Revisions, latest : Revisions]
      BY <1>3, <1>4, <1>14 DEF TypeAt
    <3> QED BY <3>1, <3>2, <1>3, <1>4, <1>9 DEF TypeAt
  <2>2. ended' \subseteq Watches /\ cancelled' \subseteq Watches
    BY <1>2 DEF TypeOK
  <2> QED BY <1>2, <1>4, <2>1, <2>2, WatchStepType DEF TypeOK
<1>20. StreamFrom(w, Position(w))' /\ watch'[w].previous = PutBefore(Position(w))'
  <2>1. PutBefore(Position(w))' = PutBefore(j)'
    BY <1>17 DEF PutBefore
  <2> QED BY <2>1, <1>5, <1>9, <1>14, <1>17
<1>21. watch'[w].latest <= Len(log') /\ (watch'[w].asked # Unset => watch'[w].asked <= Len(log'))
  BY <1>4, <1>5 DEF WatchOK
<1>22. WatchOK(w)'
  BY <1>5, <1>18, <1>20, <1>21 DEF WatchOK
<1> QED BY <1>19, <1>22

\* Moving the first of one sequence to the end of another leaves what they
\* are together.
LEMMA MoveHead ==
  ASSUME NEW x \in Seq(Events), NEW y \in Seq(Events), y # <<>>
  PROVE  /\ Append(x, Head(y)) \o Tail(y) = x \o y
         /\ Append(x, Head(y)) \in Seq(Events) /\ Tail(y) \in Seq(Events) /\ Head(y) \in Events
<1>1. Append(x, Head(y)) \in Seq(Events) /\ Tail(y) \in Seq(Events) /\ Head(y) \in Events
  OBVIOUS
<1>2. PICK e \in Events, z \in Seq(Events) : e = Head(y) /\ z = Tail(y)
  BY <1>1
<1>3. y = <<e>> \o z
  BY <1>2
<1>4. Append(x, e) = x \o <<e>>
  OBVIOUS
<1>5. (x \o <<e>>) \o z = x \o (<<e>> \o z)
  OBVIOUS
<1> QED BY <1>1, <1>2, <1>3, <1>4, <1>5

LEMMA ConcatAssoc ==
  ASSUME NEW x \in Seq(Events), NEW y \in Seq(Events), NEW z \in Seq(Events)
  PROVE  (x \o y) \o z = x \o (y \o z)
OBVIOUS

\* The goroutine sends, or the caller receives: what has been seen is the same.
LEMMA SendStep ==
  ASSUME TypeOK, NEW w \in Watches, WatchOK(w), Send(w)
  PROVE  TypeOK' /\ WatchOK(w)'
<1>1. /\ pending[w] # <<>> /\ Len(channel[w]) < ChannelCap
      /\ channel' = [channel EXCEPT ![w] = Append(@, Head(pending[w]))]
      /\ pending' = [pending EXCEPT ![w] = Tail(@)]
      /\ UNCHANGED <<store, call, watch, stream, ended, got, due, cancelled>>
  BY DEF Send, HasRoom
<1>2. TypeAt(w)
  BY TypeFacts
<1>3. channel'[w] = Append(channel[w], Head(pending[w])) /\ pending'[w] = Tail(pending[w])
  BY <1>1 DEF TypeOK
<1>4. PICK x \in Seq(Events), y \in Seq(Events), z \in Seq(Events) :
         x = got[w] /\ y = channel[w] /\ z = pending[w]
  BY <1>2 DEF TypeAt
<1>5. /\ Append(y, Head(z)) \o Tail(z) = y \o z
      /\ Append(y, Head(z)) \in Seq(Events) /\ Tail(z) \in Seq(Events)
  BY <1>1, <1>4, MoveHead
<1>6. Seen(w)' = Seen(w)
  <2>1. Seen(w)' = (x \o Append(y, Head(z))) \o Tail(z)
    BY <1>1, <1>3, <1>4 DEF Seen
  <2>2. Seen(w) = (x \o y) \o z
    BY <1>4 DEF Seen
  <2>3. (x \o Append(y, Head(z))) \o Tail(z) = x \o (Append(y, Head(z)) \o Tail(z))
    BY <1>5, ConcatAssoc
  <2>4. (x \o y) \o z = x \o (y \o z)
    BY ConcatAssoc
  <2> QED BY <2>1, <2>2, <2>3, <2>4, <1>5, Zenon
<1>7. TypeOK'
  <2>1. Len(channel'[w]) <= ChannelCap
    <3>1. PICK m \in Nat : m = Len(channel[w])
      BY <1>2 DEF TypeAt
    <3>2. Len(channel'[w]) = m + 1
      <4>1. Len(Append(y, Head(z))) = Len(y) + 1
        OBVIOUS
      <4> QED BY <4>1, <3>1, <1>3, <1>4
    <3> QED BY <3>1, <3>2, <1>1, ParametersAssumption
  <2>2. TypeAt(w)'
    BY <2>1, <1>1, <1>2, <1>3, <1>4, <1>5 DEF TypeAt
  <2>3. /\ ended' \subseteq Watches /\ cancelled' \subseteq Watches
        /\ UNCHANGED <<store, call, watch, stream, got, due>>
    BY <1>1 DEF TypeOK
  <2> QED BY <2>2, <2>3, <1>1, <1>3, WatchStepType DEF TypeOK
<1>8. WatchOK(w)'
  BY <1>1, <1>6, SameWatch DEF store
<1> QED BY <1>7, <1>8

LEMMA ReceiveStep ==
  ASSUME TypeOK, NEW w \in Watches, WatchOK(w), Receive(w)
  PROVE  TypeOK' /\ WatchOK(w)'
<1>1. /\ channel[w] # <<>>
      /\ got' = [got EXCEPT ![w] = Append(@, Head(channel[w]))]
      /\ channel' = [channel EXCEPT ![w] = Tail(@)]
      /\ UNCHANGED <<store, call, watch, stream, ended, pending, due, cancelled>>
  BY DEF Receive
<1>2. TypeAt(w)
  BY TypeFacts
<1>3. got'[w] = Append(got[w], Head(channel[w])) /\ channel'[w] = Tail(channel[w])
  BY <1>1 DEF TypeOK
<1>4. PICK x \in Seq(Events), y \in Seq(Events), z \in Seq(Events) :
         x = got[w] /\ y = channel[w] /\ z = pending[w]
  BY <1>2 DEF TypeAt
<1>5. /\ Append(x, Head(y)) \o Tail(y) = x \o y
      /\ Append(x, Head(y)) \in Seq(Events) /\ Tail(y) \in Seq(Events)
  BY <1>1, <1>4, MoveHead
<1>6. Seen(w)' = Seen(w)
  <2>1. Seen(w)' = (Append(x, Head(y)) \o Tail(y)) \o z
    BY <1>1, <1>3, <1>4 DEF Seen
  <2>2. Seen(w) = (x \o y) \o z
    BY <1>4 DEF Seen
  <2> QED BY <2>1, <2>2, <1>5, Zenon
<1>7. TypeOK'
  <2>1. Len(channel'[w]) <= ChannelCap
    <3>1. PICK m \in Nat : m = Len(channel[w]) /\ m <= ChannelCap
      BY <1>2 DEF TypeAt
    <3>2. Len(channel'[w]) = m - 1
      <4>1. Len(Tail(y)) = Len(y) - 1
        BY <1>1, <1>4
      <4> QED BY <4>1, <3>1, <1>3, <1>4
    <3> QED BY <3>1, <3>2, ParametersAssumption
  <2>2. TypeAt(w)'
    BY <2>1, <1>1, <1>2, <1>3, <1>4, <1>5 DEF TypeAt
  <2>3. /\ ended' \subseteq Watches /\ cancelled' \subseteq Watches
        /\ UNCHANGED <<store, call, watch, stream, pending, due>>
    BY <1>1 DEF TypeOK
  <2> QED BY <2>2, <2>3, <1>1, <1>3, WatchStepType DEF TypeOK
<1>8. WatchOK(w)'
  BY <1>1, <1>6, SameWatch DEF store
<1> QED BY <1>7, <1>8

\* A watch whose goroutine returns keeps what it has seen.
LEMMA ReturnStep ==
  ASSUME TypeOK, NEW w \in Watches, WatchOK(w), Return(w)
  PROVE  TypeOK' /\ WatchOK(w)'
<1>1. /\ watch[w].state \in {"initial", "loop"}
      /\ watch' = [watch EXCEPT ![w].state = "closed"]
      /\ UNCHANGED <<store, call, stream, ended, pending, channel, got, due, cancelled>>
  BY DEF Return
<1>2. TypeAt(w)
  BY TypeFacts
<1>3. watch'[w] = [watch[w] EXCEPT !.state = "closed"]
  BY <1>1 DEF TypeOK
<1>4. watch'[w].state = "closed" /\ watch'[w].asked = watch[w].asked /\ watch'[w].latest = watch[w].latest
  BY <1>2, <1>3 DEF TypeAt
<1>5. TypeOK'
  <2>1. TypeAt(w)'
    <3>1. watch'[w] \in [state : {"none", "got", "initial", "loop", "closed"},
                         asked : Revisions \cup {Unset}, previous : Revisions, latest : Revisions]
      BY <1>2, <1>3 DEF TypeAt
    <3> QED BY <3>1, <1>1, <1>2, Zenon DEF TypeAt
  <2>2. ended' \subseteq Watches /\ cancelled' \subseteq Watches
    BY <1>1 DEF TypeOK
  <2> QED BY <1>1, <1>3, <2>1, <2>2, WatchStepType DEF TypeOK
<1>6. SeenOK(w)'
  <2>1. SeenOK(w)
    BY <1>1 DEF WatchOK
  <2>2. Seen(w)' = Seen(w) /\ Position(w)' = Position(w) /\ log' = log /\ due' = due
    BY <1>1 DEF Seen, Position, store
  <2> QED BY <2>1, <2>2 DEF SeenOK
<1>7. WatchOK(w)'
  BY <1>1, <1>4, <1>6 DEF WatchOK, store
<1> QED BY <1>5, <1>7

-----------------------------------------------------------------------------
(* The invariant is inductive.                                              *)

\* A step that does not write leaves what is said of the log and the object.
LEMMA StoreUnchanged ==
  ASSUME UNCHANGED store
  PROVE  /\ LogOK => LogOK'
         /\ ObjectOK => ObjectOK'
         /\ HistoryIsLog => HistoryIsLog'
         /\ \A c : CallOK(c) /\ UNCHANGED call => CallOK(c)'
<1>1. version' = version /\ object' = object /\ log' = log
  BY DEF store
<1>2. LogOK => LogOK'
  BY <1>1 DEF LogOK, PutBefore
<1>3. ObjectOK => ObjectOK'
  BY <1>1 DEF ObjectOK, PutBefore
<1>4. Kept' = Kept
  BY <1>1 DEF Kept, Fits, SizeOf
<1>5. HistoryIsLog => HistoryIsLog'
  BY <1>1, <1>4 DEF HistoryIsLog, readHistory, Entry
<1>6. \A c : CallOK(c) /\ UNCHANGED call => CallOK(c)'
  BY <1>1 DEF CallOK
<1> QED BY <1>2, <1>3, <1>5, <1>6

\* A step of one watch leaves the others alone.
LEMMA OneWatchStep ==
  ASSUME Inductive, NEW w \in Watches, UNCHANGED <<store, call>>, TypeOK', WatchOK(w)',
         \A v \in Watches : v # w =>
            /\ watch'[v] = watch[v] /\ stream'[v] = stream[v] /\ pending'[v] = pending[v]
            /\ channel'[v] = channel[v] /\ got'[v] = got[v] /\ due'[v] = due[v],
         ended \subseteq ended'
  PROVE  Inductive'
<1>1. LogOK' /\ ObjectOK' /\ HistoryIsLog' /\ \A c \in Clients : CallOK(c)'
  BY StoreUnchanged DEF Inductive
<1>2. ASSUME NEW v \in Watches PROVE WatchOK(v)'
  <2>1. CASE v # w
    <3>1. Seen(v)' = Seen(v)
      BY <2>1 DEF Seen
    <3>2. WatchOK(v) /\ UNCHANGED <<log, object>>
      BY DEF Inductive, store
    <3> QED BY <2>1, <3>1, <3>2, SameWatch
  <2> QED BY <2>1
<1> QED BY <1>1, <1>2 DEF Inductive

\* A write, by the call of one client.
LEMMA WriteStep ==
  ASSUME Inductive, NEW c \in Clients, StoreStep, call' = [call EXCEPT ![c] = NoCall]
  PROVE  Inductive'
<1>1. TypeOK /\ LogOK /\ ObjectOK /\ HistoryIsLog
  BY DEF Inductive
<1>2. PICK n \in Nat : n = Len(log)
  BY <1>1, LogFacts
<1>3. PICK e, type, obj : Written(n, e, type, obj)
  BY <1>1, <1>2, StoreStepFacts
<1>4. call \in [Clients -> Calls] /\ call' \in [Clients -> Calls]
  <2>1. call \in [Clients -> Calls]
    BY <1>1 DEF TypeOK, Calls
  <2> QED BY <2>1, NoCallIsCall
<1>5. TypeOK'
  BY <1>1, <1>2, <1>3, <1>4, WrittenType
<1>6. LogOK' /\ ObjectOK' /\ HistoryIsLog'
  BY <1>1, <1>2, <1>3, <1>5, WrittenStore
<1>7. ASSUME NEW d \in Clients PROVE CallOK(d)'
  <2>1. call'[d] = call[d] \/ call'[d] = NoCall
    BY <1>4
  <2>2. CallOK(d)
    BY DEF Inductive
  <2> QED BY <2>1, <2>2, <1>1, <1>2, <1>3, <1>5, WrittenCalls
<1>8. ASSUME NEW w \in Watches PROVE WatchOK(w)'
  <2>1. WatchOK(w)
    BY DEF Inductive
  <2> QED BY <2>1, <1>1, <1>2, <1>3, WrittenWatch
<1> QED BY <1>5, <1>6, <1>7, <1>8 DEF Inductive

\* A request that only reads, or is refused.
LEMMA ReadStep ==
  ASSUME Inductive, NEW d \in Clients, UNCHANGED <<store, watching>>,
         \/ \E rev : PutGet(d, rev) \/ DeleteGet(d, rev)
         \/ call' = [call EXCEPT ![d] = NoCall]
         \/ UNCHANGED call
  PROVE  Inductive'
<1>1. TypeOK /\ LogOK /\ ObjectOK /\ HistoryIsLog
  BY DEF Inductive
<1>2. LogOK' /\ ObjectOK' /\ HistoryIsLog'
  BY <1>1, StoreUnchanged
<1>3. ASSUME NEW c \in Clients PROVE CallOK(c)' /\ call' \in [Clients -> Calls]
  <2>1. CallOK(c)
    BY DEF Inductive
  <2> QED BY <2>1, <1>1, ReadCalls
<1>4. call' \in [Clients -> Calls]
  BY <1>3
<1>5. /\ version' = version /\ object' = object /\ log' = log
      /\ watch' = watch /\ stream' = stream /\ ended' = ended /\ pending' = pending
      /\ channel' = channel /\ got' = got /\ due' = due /\ cancelled' = cancelled
  BY DEF store, watching
<1>6. TypeOK'
  BY <1>1, <1>4, <1>5 DEF TypeOK, Calls
<1>7. ASSUME NEW v \in Watches PROVE WatchOK(v)'
  <2>1. Seen(v)' = Seen(v)
    BY <1>5 DEF Seen
  <2>2. WatchOK(v)
    BY DEF Inductive
  <2> QED BY <2>1, <2>2, <1>5, SameWatch
<1> QED BY <1>2, <1>3, <1>6, <1>7 DEF Inductive

LEMMA InitInductive ==
  ASSUME Init
  PROVE  Inductive
<1>1. MaxVersion \in Nat /\ ChannelCap \in Nat /\ 0 \in Revisions
  BY ParametersAssumption DEF Revisions
<1>2. TypeOK
  BY <1>1 DEF Init, TypeOK, NoCall
<1>3. LogOK /\ ObjectOK /\ HistoryIsLog
  <2>1. Len(log) = 0 /\ 1..0 = {} /\ object = None /\ version = 0
    BY DEF Init
  <2> QED BY <2>1 DEF LogOK, ObjectOK, HistoryIsLog, PutBefore
<1>4. \A c \in Clients : CallOK(c)
  BY DEF Init, CallOK, NoCall
<1>5. ASSUME NEW w \in Watches PROVE WatchOK(w)
  <2>1. Seen(w) = <<>>
    BY DEF Init, Seen
  <2>2. /\ watch[w] = [state |-> "none", asked |-> Unset, previous |-> 0, latest |-> 0]
        /\ stream[w] = <<>> /\ Len(log) = 0
    BY DEF Init
  <2> QED BY <2>1, <2>2 DEF WatchOK
<1> QED BY <1>2, <1>3, <1>4, <1>5 DEF Inductive

\* The API server ends a watch, or its caller cancels it: nothing moves.
LEMMA StopStep ==
  ASSUME Inductive, NEW w \in Watches, Cancel(w) \/ EndStream(w)
  PROVE  Inductive'
<1>1. /\ UNCHANGED <<store, call, watch, stream, pending, channel, got, due>>
      /\ ended \subseteq ended'
      /\ ended' \subseteq ended \cup {w} /\ cancelled' \subseteq cancelled \cup {w}
  BY DEF Cancel, EndStream
<1>2. TypeOK'
  BY <1>1 DEF Inductive, TypeOK, store
<1>3. WatchOK(w)'
  <2>1. Seen(w)' = Seen(w)
    BY <1>1 DEF Seen
  <2>2. WatchOK(w)
    BY DEF Inductive
  <2> QED BY <1>1, <2>1, <2>2, SameWatch DEF store
<1> QED BY <1>1, <1>2, <1>3, OneWatchStep

LEMMA NextInductive ==
  ASSUME Inductive, [Next]_vars
  PROVE  Inductive'
<1>1. TypeOK /\ LogOK /\ ObjectOK /\ HistoryIsLog /\ \A w \in Watches : WatchOK(w)
  BY DEF Inductive
<1>2. ASSUME NEW c \in Clients, NEW rev, PutGet(c, rev) PROVE Inductive'
  BY <1>2, ReadStep DEF PutGet
<1>3. ASSUME NEW c \in Clients, NEW rev, DeleteGet(c, rev) PROVE Inductive'
  BY <1>3, ReadStep DEF DeleteGet
<1>4. ASSUME NEW c \in Clients, PutCreate(c) \/ PutUpdate(c) \/ DeleteObject(c) PROVE Inductive'
  <2>1. call' = [call EXCEPT ![c] = NoCall]
    BY <1>4 DEF PutCreate, PutUpdate, DeleteObject
  <2>2. StoreStep \/ Refuse
    BY <1>4, ClientStep
  <2>3. CASE StoreStep
    BY <2>1, <2>3, WriteStep
  <2>4. CASE Refuse
    BY <2>1, <2>4, ReadStep DEF Refuse
  <2> QED BY <2>2, <2>3, <2>4
<1>5. ASSUME NEW w \in Watches, NEW rev, WatchGet(w, rev) PROVE Inductive'
  <2>1. TypeOK' /\ WatchOK(w)'
    BY <1>1, <1>5, WatchGetStep
  <2>2. UNCHANGED <<store, call, stream, ended, pending, channel, got, due>>
    BY <1>5 DEF WatchGet
  <2>3. \A v \in Watches : v # w => watch'[v] = watch[v]
    BY <1>1, <1>5 DEF WatchGet, TypeOK
  <2> QED BY <2>1, <2>2, <2>3, OneWatchStep
<1>6. ASSUME NEW w \in Watches, WatchOpen(w) PROVE Inductive'
  <2>1. TypeOK' /\ WatchOK(w)'
    BY <1>1, <1>6, WatchOpenStep
  <2>2. UNCHANGED <<store, call, ended, pending, channel, got>>
    BY <1>6 DEF WatchOpen
  <2>3. \A v \in Watches : v # w => watch'[v] = watch[v] /\ stream'[v] = stream[v] /\ due'[v] = due[v]
    BY <1>1, <1>6 DEF WatchOpen, TypeOK
  <2> QED BY <2>1, <2>2, <2>3, OneWatchStep
<1>7. ASSUME NEW w \in Watches, Initial(w) PROVE Inductive'
  <2>1. TypeOK' /\ WatchOK(w)'
    BY <1>1, <1>7, InitialStep
  <2>2. UNCHANGED <<store, call, ended, channel, got, due>>
    BY <1>7 DEF Initial
  <2>3. \A v \in Watches : v # w => watch'[v] = watch[v] /\ stream'[v] = stream[v] /\ pending'[v] = pending[v]
    BY <1>1, <1>7 DEF Initial, TypeOK
  <2> QED BY <2>1, <2>2, <2>3, OneWatchStep
<1>8. ASSUME NEW w \in Watches, Take(w) PROVE Inductive'
  <2>1. TypeOK' /\ WatchOK(w)'
    BY <1>1, <1>8, TakeStep
  <2>2. UNCHANGED <<store, call, ended, channel, got, due>>
    BY <1>8 DEF Take
  <2>3. \A v \in Watches : v # w => watch'[v] = watch[v] /\ stream'[v] = stream[v] /\ pending'[v] = pending[v]
    BY <1>1, <1>8 DEF Take, TypeOK
  <2> QED BY <2>1, <2>2, <2>3, OneWatchStep
<1>9. ASSUME NEW w \in Watches, Send(w) PROVE Inductive'
  <2>1. TypeOK' /\ WatchOK(w)'
    BY <1>1, <1>9, SendStep
  <2>2. UNCHANGED <<store, call, ended, watch, stream, got, due>>
    BY <1>9 DEF Send
  <2>3. \A v \in Watches : v # w => channel'[v] = channel[v] /\ pending'[v] = pending[v]
    BY <1>1, <1>9 DEF Send, TypeOK
  <2> QED BY <2>1, <2>2, <2>3, OneWatchStep
<1>10. ASSUME NEW w \in Watches, Receive(w) PROVE Inductive'
  <2>1. TypeOK' /\ WatchOK(w)'
    BY <1>1, <1>10, ReceiveStep
  <2>2. UNCHANGED <<store, call, ended, watch, stream, pending, due>>
    BY <1>10 DEF Receive
  <2>3. \A v \in Watches : v # w => channel'[v] = channel[v] /\ got'[v] = got[v]
    BY <1>1, <1>10 DEF Receive, TypeOK
  <2> QED BY <2>1, <2>2, <2>3, OneWatchStep
<1>11. ASSUME NEW w \in Watches, Return(w) PROVE Inductive'
  <2>1. TypeOK' /\ WatchOK(w)'
    BY <1>1, <1>11, ReturnStep
  <2>2. UNCHANGED <<store, call, ended, stream, pending, channel, got, due>>
    BY <1>11 DEF Return
  <2>3. \A v \in Watches : v # w => watch'[v] = watch[v]
    BY <1>1, <1>11 DEF Return, TypeOK
  <2> QED BY <2>1, <2>2, <2>3, OneWatchStep
<1>12. CASE WatchStep
  BY <1>6, <1>7, <1>8, <1>9, <1>10, <1>11, <1>12 DEF WatchStep
<1>13. CASE UNCHANGED vars
  <2>1. UNCHANGED <<store, call, watching>>
    BY <1>13 DEF vars
  <2>2. /\ version' = version /\ object' = object /\ log' = log /\ call' = call
        /\ watch' = watch /\ stream' = stream /\ ended' = ended /\ pending' = pending
        /\ channel' = channel /\ got' = got /\ due' = due /\ cancelled' = cancelled
    BY <2>1 DEF store, watching
  <2>3. TypeOK'
    BY <1>1, <2>2 DEF TypeOK
  <2>4. LogOK' /\ ObjectOK' /\ HistoryIsLog' /\ \A c \in Clients : CallOK(c)'
    BY <2>1, StoreUnchanged DEF Inductive
  <2>5. ASSUME NEW v \in Watches PROVE WatchOK(v)'
    <3>1. Seen(v)' = Seen(v)
      BY <2>2 DEF Seen
    <3> QED BY <1>1, <2>2, <3>1, SameWatch
  <2> QED BY <2>3, <2>4, <2>5 DEF Inductive
<1> QED BY <1>2, <1>3, <1>4, <1>5, <1>12, <1>13, StopStep DEF Next

\* The inductive invariant holds of every behaviour.
THEOREM InductiveInvariant == Spec => []Inductive
<1>1. Init => Inductive
  BY InitInductive
<1>2. Inductive /\ [Next]_vars => Inductive'
  BY NextInductive
<1> QED BY <1>1, <1>2, PTL DEF Spec

\* Every variable has its type, and no channel and no annotation ever exceeds
\* its limit, whatever the clients and the watches do.
THEOREM TypeCorrect == Spec => []TypeOK
<1>1. Inductive => TypeOK
  BY DEF Inductive
<1> QED BY <1>1, InductiveInvariant, PTL

\* The annotation that Put writes with the object it has read is always the
\* log's: the newest puts since the object was created, as many as fit.
THEOREM HistoryCorrect == Spec => []HistoryIsLog
<1>1. Inductive => HistoryIsLog
  BY DEF Inductive
<1> QED BY <1>1, InductiveInvariant, PTL

\* What has been made for a watch is a run of the log.
LEMMA RunOfOne ==
  ASSUME Inductive, NEW w \in Watches, watch[w].state \in {"initial", "loop", "closed"}
  PROVE  LET seen == got[w] \o channel[w] \o pending[w]
             n    == due[w] + Len(seen) - 1
         IN /\ n <= Len(log)
            /\ \A i \in DOMAIN seen :
                 LET l == log[due[w] + i - 1]
                 IN seen[i] = l \/ (i = 1 /\ seen[i] = [l EXCEPT !.prev = 0])
            /\ watch[w].state # "closed" /\ stream[w] = <<>> /\ w \notin ended => n = Len(log)
<1>1. TypeOK /\ LogOK /\ WatchOK(w)
  BY DEF Inductive
<1>2. PICK n \in Nat : n = Len(log)
  BY <1>1, LogFacts
<1>3. PICK s \in Seq(Events), d \in Nat, l \in Nat : s = Seen(w) /\ d = due[w] /\ l = Len(s)
  <2>1. PICK s \in Seq(Events) : s = Seen(w)
    BY <1>1, TypeFacts
  <2>2. PICK d \in Nat : d = due[w]
    BY <1>1, TypeFacts
  <2>3. Len(s) \in Nat
    OBVIOUS
  <2> QED BY <2>1, <2>2, <2>3
<1>4. Position(w) = d + l
  BY <1>3 DEF Position
<1>5. SeenOK(w)
  BY <1>1 DEF WatchOK
<1>6. d + l - 1 <= n
  BY <1>2, <1>4, <1>5 DEF SeenOK
<1>7. DOMAIN s = 1..l /\ \A i \in 1..l : s[i] = log[d + i - 1] \/ (i = 1 /\ s[i] = [log[d + i - 1] EXCEPT !.prev = 0])
  <2>1. \A i \in 1..Len(Seen(w)) : \/ Seen(w)[i] = log[due[w] + i - 1]
                                   \/ i = 1 /\ Seen(w)[i] = [log[due[w] + i - 1] EXCEPT !.prev = 0]
    BY <1>5 DEF SeenOK
  <2> QED BY <2>1, <1>3
<1>8. ASSUME watch[w].state # "closed", stream[w] = <<>>, w \notin ended PROVE d + l - 1 = n
  <2>1. CASE watch[w].state = "initial"
    <3>1. d = n + 1 /\ s = <<>>
      BY <2>1, <1>1, <1>2, <1>3, <1>8 DEF WatchOK, InitialOK
    <3>2. l = 0
      BY <3>1, <1>3
    <3> QED BY <3>1, <3>2
  <2>2. CASE watch[w].state = "loop"
    <3>1. StreamFrom(w, Position(w))
      BY <2>2, <1>1 DEF WatchOK
    <3>2. Len(stream[w]) = 0
      BY <1>8
    <3>3. (d + l) + 0 - 1 = n
      BY <3>1, <3>2, <1>2, <1>4, <1>8 DEF StreamFrom
    <3> QED BY <3>3
  <2> QED BY <2>1, <2>2, <1>8
<1> DEFINE seen == got[w] \o channel[w] \o pending[w]
<1>9. seen = s
  BY <1>3 DEF Seen
<1> HIDE DEF seen
<1>10. /\ due[w] + Len(seen) - 1 <= Len(log)
       /\ \A i \in DOMAIN seen : \/ seen[i] = log[due[w] + i - 1]
                                 \/ i = 1 /\ seen[i] = [log[due[w] + i - 1] EXCEPT !.prev = 0]
       /\ watch[w].state # "closed" /\ stream[w] = <<>> /\ w \notin ended =>
            due[w] + Len(seen) - 1 = Len(log)
  BY <1>2, <1>3, <1>6, <1>7, <1>8, <1>9
<1> QED BY <1>10 DEF seen

\* The events of every watch are the log's from where they are due on, without
\* a gap and in order: those of the first object's annotation are followed by
\* exactly the API server's that come after it.
THEOREM WatchCorrect == Spec => []WatchIsRun
<1>1. Inductive => WatchIsRun
  BY RunOfOne DEF WatchIsRun
<1> QED BY <1>1, InductiveInvariant, PTL

-----------------------------------------------------------------------------
(* What Get and History return.                                             *)

\* The revisions that the object with its annotation holds.
LEMMA HeldFacts ==
  ASSUME Inductive, object # None
  PROVE  \E o \in Nat, n \in Nat, h \in Nat :
           /\ o >= 1 /\ n = Len(log) /\ h = Len(object.history) /\ o + h = n /\ version = n
           /\ object \in Objects /\ object.rev = n /\ object.value = n
           /\ object.history \in Seq(Entries)
           /\ \A i \in 1..h : object.history[i].rev = o + i - 1 /\ object.history[i].value = o + i - 1
           /\ Kept \cup {Len(log)} = o..n
           /\ \A i \in o..n : log[i].rev = i /\ log[i].value = i
<1>1. TypeOK /\ LogOK /\ ObjectOK /\ HistoryIsLog
  BY DEF Inductive
<1>2. PICK n \in Nat, h \in Nat : n = Len(log) /\ h = Len(object.history) /\ h < n
  BY <1>1, ObjectFacts
<1>3. PICK o \in Nat : o = n - h /\ o >= 1
  <2>1. n - h \in Nat /\ n - h >= 1
    BY ONLY <1>2, n \in Nat, h \in Nat
  <2> QED BY <2>1
<1>4. /\ object \in Objects /\ object.history \in Seq(Entries) /\ object.rev = n /\ object.value = n
      /\ Kept = (n - h)..(n - 1) /\ \A i \in (n - h)..n : ~log[i].delete
      /\ \A i \in 1..h : object.history[i] = [rev |-> n - h - 1 + i, value |-> n - h - 1 + i]
  BY <1>1, <1>2, ObjectFacts
<1>5. ASSUME NEW i \in 1..h PROVE object.history[i].rev = o + i - 1 /\ object.history[i].value = o + i - 1
  <2>1. PICK j \in Int : j = n - h - 1 + i
    OBVIOUS
  <2>2. j = o + i - 1
    BY ONLY <2>1, <1>3, o \in Nat, n \in Nat, h \in Nat, i \in 1..h
  <2>3. object.history[i] = [rev |-> j, value |-> j]
    BY <2>1, <1>4
  <2>4. object.history[i].rev = j /\ object.history[i].value = j
    BY ONLY <2>3
  <2> QED BY <2>2, <2>4, Zenon
<1>6. Kept \cup {Len(log)} = o..n
  <2>1. (n - h)..(n - 1) \cup {n} = o..n
    BY <1>2, <1>3
  <2> QED BY <2>1, <1>2, <1>4
<1>7. ASSUME NEW i \in o..n PROVE log[i].rev = i /\ log[i].value = i
  <2>1. i \in 1..n /\ i \in (n - h)..n
    BY <1>3
  <2> QED BY <2>1, <1>1, <1>2, <1>4, LogFacts
<1>8. version = n /\ o + h = n
  BY <1>1, <1>2, <1>3, LogFacts
<1> QED BY <1>2, <1>3, <1>4, <1>5, <1>6, <1>7, <1>8

Found(rev) == [code |-> "OK", rev |-> rev, value |-> rev]

\* Get finds just the revisions that are held.
LEMMA GetFacts ==
  ASSUME object # None, NEW o \in Nat, NEW n \in Nat, NEW h \in Nat,
         o >= 1, h = Len(object.history), o + h = n,
         object.rev = n, object.value = n, object.history \in Seq(Entries),
         \A i \in 1..h : object.history[i].rev = o + i - 1 /\ object.history[i].value = o + i - 1,
         NEW rev \in Nat
  PROVE  Get(rev) = IF rev \in o..n THEN Found(rev)
                    ELSE [code |-> IF rev > n THEN "OutOfRange" ELSE "NotFound"]
<1>1. rev # Unset
  BY ParametersAssumption
<1> DEFINE found == {e \in ToSet(object.history) : e.rev = rev}
<1>2. ToSet(object.history) = {object.history[i] : i \in 1..h}
  BY DEF ToSet
<1>3. Get(rev) = IF rev = n THEN [code |-> "OK", value |-> n, rev |-> n]
                 ELSE IF found # {} THEN [code |-> "OK", value |-> (CHOOSE e \in found : TRUE).value, rev |-> rev]
                 ELSE [code |-> IF rev > n THEN "OutOfRange" ELSE "NotFound"]
  BY <1>1 DEF Get
<1>4. CASE rev = n
  <2>1. rev \in o..n
    BY <1>4
  <2> QED BY <2>1, <1>3, <1>4 DEF Found
<1>5. CASE rev \in o..(n - 1)
  <2>1. PICK i \in 1..h : i = rev - o + 1
    BY <1>5
  <2>2. o + i - 1 = rev /\ rev # n /\ rev \in o..n
    BY <2>1, <1>5
  <2>3. object.history[i] \in found
    BY <2>2, <1>2
  <2>4. \A e \in found : e.value = rev
    <3>1. ASSUME NEW e \in found PROVE e.value = rev
      <4>1. PICK k \in 1..h : e = object.history[k]
        BY <1>2
      <4>2. e.rev = rev
        OBVIOUS
      <4> QED BY <4>1, <4>2
    <3> QED BY <3>1
  <2> HIDE DEF found
  <2>5. (CHOOSE e \in found : TRUE).value = rev /\ found # {}
    BY <2>3, <2>4
  <2> QED BY <2>2, <2>5, <1>3 DEF Found
<1>6. CASE rev \notin o..n
  <2>1. rev # n
    BY <1>6
  <2>2. found = {}
    <3>1. ASSUME NEW e \in found PROVE FALSE
      <4>1. PICK k \in 1..h : e = object.history[k]
        BY <1>2
      <4>2. e.rev = rev
        OBVIOUS
      <4>3. rev = o + k - 1
        BY <4>1, <4>2
      <4> QED BY <4>3, <1>6
    <3> QED BY <3>1
  <2> HIDE DEF found
  <2> QED BY <2>1, <2>2, <1>3, <1>6
<1>7. rev \in o..n => rev = n \/ rev \in o..(n - 1)
  OBVIOUS
<1> QED BY <1>4, <1>5, <1>6, <1>7

\* History up to a revision that is held ends with it.
LEMMA HistoryFacts ==
  ASSUME NEW o \in Nat, NEW n \in Nat, NEW h \in Nat,
         o >= 1, h = Len(object.history), o + h = n,
         object \in Objects, object.rev = n, object.value = n, object.history \in Seq(Entries),
         \A i \in 1..h : object.history[i].rev = o + i - 1 /\ object.history[i].value = o + i - 1,
         NEW rev \in o..n
  PROVE  {e.rev : e \in ToSet(History(rev))} = o..rev
<1> DEFINE entries == readHistory(object)
           at == {i \in DOMAIN entries : entries[i].rev = rev}
           end == IF at = {} THEN Len(entries) ELSE Min(at)
<1>1. History(rev) = SubSeq(entries, 1, end)
  BY DEF History
<1>2. entries \in Seq(Entries) /\ Len(entries) = h + 1 /\ \A i \in 1..(h + 1) : entries[i].rev = o + i - 1
  <2>1. PICK s, x : s = object.history /\ x = Entry(object)
    OBVIOUS
  <2>2. s \in Seq(Entries) /\ x \in Entries /\ Len(s) = h /\ x.rev = n
    BY <2>1 DEF Entry, Entries, Objects
  <2>3. /\ Append(s, x) \in Seq(Entries) /\ Len(Append(s, x)) = h + 1
        /\ \A k \in 1..h : Append(s, x)[k] = s[k]
        /\ Append(s, x)[h + 1] = x
    BY ONLY <2>2, AppendFacts
  <2>4. entries = Append(s, x)
    BY <2>1 DEF readHistory
  <2>5. ASSUME NEW i \in 1..(h + 1) PROVE Append(s, x)[i].rev = o + i - 1
    <3>1. CASE i = h + 1
      <4>1. o + i - 1 = n
        BY <3>1
      <4> QED BY <4>1, <3>1, <2>2, <2>3
    <3>2. CASE i # h + 1
      <4>1. i \in 1..h
        BY <3>2
      <4> QED BY <4>1, <2>1, <2>3
    <3> QED BY <3>1, <3>2
  <2> HIDE DEF entries
  <2> QED BY <2>3, <2>4, <2>5, Zenon
<1> HIDE DEF entries
<1>3. PICK m \in 1..(h + 1) : m = rev - o + 1
  OBVIOUS
<1>4. at = {m}
  <2>1. DOMAIN entries = 1..(h + 1)
    BY <1>2
  <2>2. ASSUME NEW i \in 1..(h + 1) PROVE entries[i].rev = rev <=> i = m
    <3>1. entries[i].rev = o + i - 1
      BY <1>2
    <3>2. o + i - 1 = rev <=> i = m
      BY ONLY <1>3, o \in Nat, rev \in o..n, n \in Nat, h \in Nat, i \in 1..(h + 1), m \in 1..(h + 1)
    <3> QED BY <3>1, <3>2, Zenon
  <2> QED BY <2>1, <2>2
<1>5. end = m
  <2>1. Min({m}) = m
    <3>1. {m} \subseteq Nat /\ {m} # {}
      OBVIOUS
    <3>2. Min({m}) \in {m}
      BY <3>1, MinFacts
    <3> QED BY <3>2
  <2> HIDE DEF at
  <2> QED BY <2>1, <1>4
<1>6. /\ History(rev) \in Seq(Entries) /\ Len(History(rev)) = m
      /\ \A i \in 1..m : History(rev)[i].rev = o + i - 1
  <2>1. PICK s : s = SubSeq(entries, 1, m)
    OBVIOUS
  <2>2. s \in Seq(Entries) /\ Len(s) = m - 1 + 1 /\ \A k \in 1..(m - 1 + 1) : s[k] = entries[1 + k - 1]
    <3>1. 1 \in 1..(Len(entries) + 1) /\ m \in (1 - 1)..Len(entries)
      BY <1>2
    <3> QED BY <2>1, <3>1, <1>2, SubSeqFacts
  <2>3. m - 1 + 1 = m /\ \A k \in 1..m : 1 + k - 1 = k /\ k \in 1..(h + 1)
    OBVIOUS
  <2>4. History(rev) = s
    BY <2>1, <1>1, <1>5
  <2>5. Len(s) = m /\ \A k \in 1..m : s[k] = entries[k]
    BY <2>2, <2>3, Zenon
  <2>6. \A k \in 1..m : s[k].rev = o + k - 1
    BY <2>3, <2>5, <1>2, Zenon
  <2> QED BY <2>2, <2>4, <2>5, <2>6, Zenon
<1>7. ToSet(History(rev)) = {History(rev)[i] : i \in 1..m}
  <2>1. PICK s \in Seq(Entries) : s = History(rev)
    BY <1>6
  <2>2. DOMAIN s = 1..m
    <3>1. Len(s) = m
      BY <2>1, <1>6, Zenon
    <3> QED BY ONLY <3>1, s \in Seq(Entries)
  <2> QED BY <2>1, <2>2 DEF ToSet
<1>8. {e.rev : e \in ToSet(History(rev))} = {o + i - 1 : i \in 1..m}
  <2> HIDE DEF end, at
  <2>1. {e.rev : e \in ToSet(History(rev))} = {History(rev)[i].rev : i \in 1..m}
    BY <1>7, Zenon
  <2>2. {History(rev)[i].rev : i \in 1..m} = {o + i - 1 : i \in 1..m}
    <3> DEFINE r(i) == History(rev)[i].rev
               q(i) == o + i - 1
    <3>1. \A i \in 1..m : r(i) = q(i)
      BY <1>6, Zenon
    <3> HIDE DEF r, q
    <3>2. {r(i) : i \in 1..m} = {q(i) : i \in 1..m}
      BY <3>1
    <3> QED BY <3>2, Zenon DEF r, q
  <2> QED BY <2>1, <2>2, Zenon
<1>9. {o + i - 1 : i \in 1..m} = o..rev
  <2>1. \A x \in o..rev : x - o + 1 \in 1..m /\ o + (x - o + 1) - 1 = x
    BY <1>3
  <2>2. \A i \in 1..m : o + i - 1 \in o..rev
    BY <1>3
  <2> QED BY <2>1, <2>2
<1> QED BY <1>8, <1>9

\* Get answers by what was put at a revision for as long as it is held, and
\* tells revisions of the future from those that are not there; History up to a
\* revision that is held ends with it.
THEOREM ReadsCorrect == Spec => []ReadsServeLog
<1>1. ASSUME Inductive PROVE ReadsServeLog
  <2> DEFINE puts == IF object = None THEN {} ELSE Kept \cup {Len(log)}
             answer(rev) ==
               IF \E i \in puts : log[i].rev = rev
               THEN [code |-> "OK", rev |-> rev,
                     value |-> log[CHOOSE i \in puts : log[i].rev = rev].value]
               ELSE [code |-> IF object # None /\ rev > version THEN "OutOfRange" ELSE "NotFound"]
  <2>1. version \in Nat
    BY <1>1, LogFacts DEF Inductive
  <2>2. CASE object = None
    <3>1. puts = {} /\ \A rev : Get(rev) = [code |-> "NotFound"]
      BY <2>2 DEF Get
    <3>2. \A rev : answer(rev) = [code |-> "NotFound"]
      BY <2>2
    <3> QED BY <3>1, <3>2, <2>2 DEF ReadsServeLog
  <2>3. CASE object # None
    <3>1. PICK o \in Nat, n \in Nat, h \in Nat :
            /\ o >= 1 /\ n = Len(log) /\ h = Len(object.history) /\ o + h = n /\ version = n
            /\ object \in Objects /\ object.rev = n /\ object.value = n
            /\ object.history \in Seq(Entries)
            /\ \A i \in 1..h : object.history[i].rev = o + i - 1 /\ object.history[i].value = o + i - 1
            /\ Kept \cup {Len(log)} = o..n
            /\ \A i \in o..n : log[i].rev = i /\ log[i].value = i
      BY <1>1, <2>3, HeldFacts
    <3>2. puts = o..n
      BY <2>3, <3>1
    <3> HIDE DEF puts
    <3>3. ASSUME NEW rev \in Nat
          PROVE  answer(rev) = IF rev \in o..n THEN Found(rev)
                               ELSE [code |-> IF rev > n THEN "OutOfRange" ELSE "NotFound"]
      <4>1. (\E i \in puts : log[i].rev = rev) <=> rev \in o..n
        BY <3>1, <3>2
      <4>2. ASSUME rev \in o..n PROVE (CHOOSE i \in puts : log[i].rev = rev) = rev
        <5>1. \A i \in puts : log[i].rev = rev <=> i = rev
          BY <3>1, <3>2
        <5> QED BY <4>2, <5>1, <3>2
      <4>3. rev \in o..n => log[rev].value = rev
        BY <3>1
      <4> QED BY <4>1, <4>2, <4>3, <2>3, <3>1 DEF Found
    <3>4. ASSUME NEW rev \in Nat PROVE Get(rev) = answer(rev)
      <4> HIDE DEF answer
      <4>1. Get(rev) = IF rev \in o..n THEN Found(rev)
                       ELSE [code |-> IF rev > n THEN "OutOfRange" ELSE "NotFound"]
        BY <2>3, <3>1, GetFacts
      <4> QED BY <4>1, <3>3, Zenon
    <3>5. Get(Unset) = answer(log[Len(log)].rev)
      <4>1. n \in o..n /\ log[Len(log)].rev = n
        BY <3>1
      <4>2. answer(n) = Found(n)
        <5> HIDE DEF answer
        <5> QED BY <4>1, <3>3
      <4>3. Get(Unset) = Found(n)
        BY <2>3, <3>1 DEF Get, Found
      <4> HIDE DEF answer
      <4> QED BY <4>1, <4>2, <4>3, Zenon
    <3>6. ASSUME NEW i \in puts
          PROVE  {e.rev : e \in ToSet(History(log[i].rev))} = {log[j].rev : j \in {j \in puts : j <= i}}
      <4>1. i \in o..n /\ log[i].rev = i
        BY <3>1, <3>2
      <4>2. {e.rev : e \in ToSet(History(i))} = o..i
        BY <3>1, <4>1, HistoryFacts
      <4>3. {log[j].rev : j \in {j \in puts : j <= i}} = o..i
        <5>1. {j \in puts : j <= i} = o..i
          BY <3>2, <4>1
        <5>2. \A j \in o..i : log[j].rev = j
          BY <3>1, <4>1
        <5>3. {log[j].rev : j \in o..i} = o..i
          BY <5>2
        <5> QED BY <5>1, <5>3
      <4> QED BY <4>1, <4>2, <4>3
    <3>7. \A rev \in 0..(version + 1) : rev \in Nat
      BY <2>1
    <3>8. \A rev \in 0..(version + 1) : Get(rev) = answer(rev)
      <4> HIDE DEF answer
      <4> QED BY <3>4, <3>7
    <3> QED BY <2>3, <3>5, <3>6, <3>8 DEF ReadsServeLog, puts
  <2> QED BY <2>2, <2>3
<1> QED BY <1>1, InductiveInvariant, PTL
=============================================================================
