---------------------------- MODULE Etcd_proofs -----------------------------
(***************************************************************************)
(* Proofs about Etcd for every number of calls, keys and writes, every     *)
(* request and every size of the channels.                                 *)
(***************************************************************************)
EXTENDS Etcd, TLAPS, WellFoundedInduction, SequenceTheorems

-----------------------------------------------------------------------------
(* The least and the greatest of a set of revisions.                        *)

\* A non-empty set of naturals has a least element, which Min chooses.
LEMMA MinFacts ==
  ASSUME NEW S, S \subseteq Nat, S # {}
  PROVE  Min(S) \in S /\ \A j \in S : Min(S) <= j
<1>1. \E i \in S : \A j \in S : ~ (<<j, i>> \in OpToRel(<, Nat))
  BY NatLessThanWellFounded, WFMin, Zenon
<1>2. \A i, j \in Nat : j < i => <<j, i>> \in OpToRel(<, Nat)
  BY DEF OpToRel
<1>3. \E i \in S : \A j \in S : ~(j < i)
  BY <1>1, <1>2, Zenon
<1>4. \E i \in S : \A j \in S : i <= j
  BY <1>3
<1> QED BY <1>4 DEF Min

\* A non-empty set of naturals that has a bound has a greatest element, which
\* Max chooses.
LEMMA MaxFacts ==
  ASSUME NEW n \in Nat, NEW S, S \subseteq 0..n, S # {}
  PROVE  Max(S) \in S /\ \A j \in S : j <= Max(S)
<1> DEFINE T == {m \in 0..n : n - m \in S}
<1>1. \A i \in S : n - i \in T
  OBVIOUS
<1>2. T \subseteq Nat /\ T # {}
  <2>1. PICK i : i \in S
    OBVIOUS
  <2>2. n - i \in T
    BY <2>1, <1>1
  <2> QED BY <2>2
<1>3. PICK m \in T : \A l \in T : m <= l
  <2> HIDE DEF T
  <2> QED BY <1>2, MinFacts
<1>4. \E i \in S : \A j \in S : i >= j
  <2>1. n - m \in S /\ m \in 0..n
    BY <1>3
  <2>2. \A j \in S : m <= n - j
    BY <1>1, <1>3
  <2> QED BY <2>1, <2>2
<1>5. Max(S) \in S /\ \A j \in S : Max(S) >= j
  BY <1>4 DEF Max
<1> QED BY <1>5

-----------------------------------------------------------------------------
(* The revisions of a key.                                                  *)

WritesOK == writes \in Seq([key : Keys, delete : BOOLEAN])

\* What is written at a revision is the key's from there on, and a key does
\* not change before it is written again.
Dated ==
  \A k \in Keys :
    /\ ModRevision(k, 0) = 0
    /\ \A r \in 0..Now : ModRevision(k, r) \in 0..r
    /\ \A r \in 1..Now : writes[r].key = k =>
         ModRevision(k, r) = IF writes[r].delete THEN 0 ELSE r
    /\ \A r, s \in 0..Now :
         r <= s /\ (\A i \in r + 1..s : writes[i].key # k) =>
           ModRevision(k, s) = ModRevision(k, r)
    /\ \A s \in 0..Now : ModRevision(k, s) # 0 =>
         /\ writes[ModRevision(k, s)].key = k /\ ~writes[ModRevision(k, s)].delete
         /\ \A r \in 1..s : writes[r].key = k => r <= ModRevision(k, s)

LEMMA DatedAlways == WritesOK => Dated
<1> SUFFICES ASSUME WritesOK, NEW k \in Keys
             PROVE  /\ ModRevision(k, 0) = 0
                    /\ \A r \in 0..Now : ModRevision(k, r) \in 0..r
                    /\ \A r \in 1..Now : writes[r].key = k =>
                         ModRevision(k, r) = IF writes[r].delete THEN 0 ELSE r
                    /\ \A r, s \in 0..Now :
                         r <= s /\ (\A i \in r + 1..s : writes[i].key # k) =>
                           ModRevision(k, s) = ModRevision(k, r)
                    /\ \A s \in 0..Now : ModRevision(k, s) # 0 =>
                         /\ writes[ModRevision(k, s)].key = k
                         /\ ~writes[ModRevision(k, s)].delete
                         /\ \A r \in 1..s : writes[r].key = k => r <= ModRevision(k, s)
  BY DEF Dated
<1> DEFINE S(r) == {0} \cup {s \in 1..r : writes[s].key = k}
<1>1. Now \in Nat
  BY DEF WritesOK, Now
<1>2. ASSUME NEW r \in 0..Now
      PROVE  Max(S(r)) \in S(r) /\ \A j \in S(r) : j <= Max(S(r))
  <2>1. r \in Nat /\ S(r) \subseteq 0..r /\ S(r) # {}
    BY <1>1
  <2> HIDE DEF S
  <2> QED BY <2>1, MaxFacts
<1>3. \A r \in 0..Now : LastWrite(k, r) = Max(S(r))
  BY DEF LastWrite
<1>4. \A r \in 0..Now : LastWrite(k, r) \in 0..r
  <2> SUFFICES ASSUME NEW r \in 0..Now PROVE LastWrite(k, r) \in 0..r
    OBVIOUS
  <2>1. S(r) \subseteq 0..r
    BY <1>1
  <2> QED BY <2>1, <1>2, <1>3
<1>5. LastWrite(k, 0) = 0
  BY <1>1, <1>4
<1>6. ASSUME NEW r \in 1..Now, writes[r].key = k
      PROVE  LastWrite(k, r) = r
  <2>1. r \in S(r)
    BY <1>6, <1>1
  <2>2. r <= Max(S(r))
    BY <2>1, <1>1, <1>2
  <2> QED BY <2>2, <1>1, <1>3, <1>4
<1>7. ASSUME NEW r \in 0..Now, NEW s \in 0..Now, r <= s,
             \A i \in r + 1..s : writes[i].key # k
      PROVE  LastWrite(k, s) = LastWrite(k, r)
  <2>1. S(s) = S(r)
    BY <1>7, <1>1
  <2> HIDE DEF S
  <2> QED BY <2>1, <1>3
<1>8. ASSUME NEW s \in 0..Now, LastWrite(k, s) # 0
      PROVE  /\ writes[LastWrite(k, s)].key = k
             /\ \A r \in 1..s : writes[r].key = k => r <= LastWrite(k, s)
  BY <1>8, <1>1, <1>2, <1>3
<1>9. /\ ModRevision(k, 0) = 0
      /\ \A r \in 0..Now : ModRevision(k, r) \in 0..r
  BY <1>1, <1>4, <1>5 DEF ModRevision
<1>10. \A r \in 1..Now : writes[r].key = k =>
         ModRevision(k, r) = IF writes[r].delete THEN 0 ELSE r
  BY <1>1, <1>6 DEF ModRevision
<1>11. \A r, s \in 0..Now :
         r <= s /\ (\A i \in r + 1..s : writes[i].key # k) =>
           ModRevision(k, s) = ModRevision(k, r)
  BY <1>7 DEF ModRevision
<1>12. \A s \in 0..Now : ModRevision(k, s) # 0 =>
         /\ writes[ModRevision(k, s)].key = k /\ ~writes[ModRevision(k, s)].delete
         /\ \A r \in 1..s : writes[r].key = k => r <= ModRevision(k, s)
  BY <1>8 DEF ModRevision
<1> QED BY <1>9, <1>10, <1>11, <1>12

\* A key that exists has existed since it was created.
LEMMA CreateFacts ==
  ASSUME WritesOK, NEW k \in Keys, NEW rev \in 0..Now, ModRevision(k, rev) # 0
  PROVE  /\ CreateRevision(k, rev) \in 1..rev
         /\ IsCreate(k, rev, CreateRevision(k, rev))
<1> DEFINE Z == {s \in 0..rev : ModRevision(k, s) = 0}
<1>1. Now \in Nat
  BY DEF WritesOK, Now
<1>2. Dated
  BY DatedAlways
<1>3. Z \subseteq 0..rev /\ Z # {} /\ rev \in Nat
  BY <1>1, <1>2 DEF Dated
<1>4. PICK z \in Z : \A s \in Z : s <= z
  <2> HIDE DEF Z
  <2> QED BY <1>3, MaxFacts
<1>5. z \in 0..rev /\ ModRevision(k, z) = 0 /\ z # rev
  BY <1>4
<1>6. \A s \in z + 1..rev : ModRevision(k, s) # 0
  BY <1>1, <1>4
<1>7. writes[z + 1].key = k
  <2>1. z + 1 \in z + 1..rev /\ z \in 0..Now /\ z + 1 \in 0..Now
    BY <1>1, <1>5
  <2>2. SUFFICES ASSUME writes[z + 1].key # k PROVE FALSE
    OBVIOUS
  <2>3. \A i \in z + 1..z + 1 : writes[i].key # k
    BY <2>2, <2>1
  <2>4. ModRevision(k, z + 1) = ModRevision(k, z)
    BY <2>1, <2>3, <1>2 DEF Dated
  <2> QED BY <2>4, <2>1, <1>5, <1>6
<1>8. z + 1 \in 1..rev /\ (z + 1) - 1 = z
  BY <1>1, <1>5
<1>9. IsCreate(k, rev, z + 1)
  BY <1>5, <1>6, <1>7, <1>8 DEF IsCreate
<1> QED BY <1>8, <1>9 DEF CreateRevision

\* Writing leaves the revisions before as they were.
LEMMA WriteFacts ==
  ASSUME WritesOK, NEW k \in Keys, NEW d \in BOOLEAN, Write(k, d)
  PROVE  /\ WritesOK' /\ Now \in Nat /\ Now' = Now + 1
         /\ \A r \in 1..Now : writes'[r] = writes[r]
         /\ writes'[Now + 1] = [key |-> k, delete |-> d]
         /\ \A q, r : r \in 0..Now => ModRevision(q, r)' = ModRevision(q, r)
<1>1. /\ WritesOK' /\ Now \in Nat /\ Now' = Now + 1
      /\ \A r \in 1..Now : writes'[r] = writes[r]
      /\ writes'[Now + 1] = [key |-> k, delete |-> d]
  BY DEF WritesOK, Write, Now
<1>2. ASSUME NEW q, NEW r \in 0..Now
      PROVE  ModRevision(q, r)' = ModRevision(q, r)
  <2> DEFINE S == {0} \cup {s \in 1..r : writes[s].key = q}
             T == {0} \cup {s \in 1..r : writes'[s].key = q}
  <2>1. S = T
    BY <1>1
  <2>2. LastWrite(q, r) = Max(S) /\ LastWrite(q, r)' = Max(T)
    BY DEF LastWrite
  <2>3. S \subseteq 0..r /\ S # {} /\ r \in Nat
    BY <1>1
  <2>4. Max(S) \in S
    <3> HIDE DEF S
    <3> QED BY <2>3, MaxFacts
  <2>5. LastWrite(q, r)' = LastWrite(q, r)
    <3> HIDE DEF S, T
    <3> QED BY <2>1, <2>2
  <2>6. LastWrite(q, r) = 0 \/ LastWrite(q, r) \in 1..Now
    BY <2>2, <2>3, <2>4, <1>1
  <2> QED BY <2>5, <2>6, <1>1 DEF ModRevision
<1> QED BY <1>1, <1>2

\* Nor do other steps change them.
LEMMA UnwrittenFacts ==
  ASSUME writes' = writes
  PROVE  /\ Now' = Now
         /\ \A k, r : ModRevision(k, r)' = ModRevision(k, r)
BY DEF Now, ModRevision, LastWrite

-----------------------------------------------------------------------------
(* Sequences of revisions in order.                                         *)

LEMMA AppendAscending ==
  ASSUME NEW s \in Seq(Nat \ {0}), Ascending(s), NEW n \in Nat \ {0},
         \A r \in Range(s) : r < n
  PROVE  /\ Append(s, n) \in Seq(Nat \ {0}) /\ Append(s, n) # <<>>
         /\ Ascending(Append(s, n)) /\ Range(Append(s, n)) = Range(s) \cup {n}
         /\ Append(s, n)[1] = IF s = <<>> THEN n ELSE s[1]
<1> DEFINE t == Append(s, n)
<1>1. /\ t \in Seq(Nat \ {0}) /\ t # <<>> /\ Len(s) \in Nat /\ Len(t) = Len(s) + 1
      /\ \A i \in 1..Len(s) : t[i] = s[i]
      /\ t[Len(s) + 1] = n
  OBVIOUS
<1>2. \A i \in 1..Len(s) : s[i] \in Range(s) /\ s[i] \in Nat
  BY DEF Range
<1> HIDE DEF t
<1>3. Ascending(t)
  <2> SUFFICES ASSUME NEW i \in 1..Len(t), NEW j \in 1..Len(t), i < j
               PROVE  t[i] < t[j]
    BY DEF Ascending
  <2>1. i \in 1..Len(s)
    BY <1>1
  <2>2. CASE j = Len(s) + 1
    BY <2>1, <2>2, <1>1, <1>2
  <2>3. CASE j \in 1..Len(s)
    BY <2>1, <2>3, <1>1 DEF Ascending
  <2>4. ASSUME NEW m \in Nat, NEW l \in 1..m + 1 PROVE l = m + 1 \/ l \in 1..m
    OBVIOUS
  <2>5. j = Len(s) + 1 \/ j \in 1..Len(s)
    BY <2>4, <1>1
  <2> QED BY <2>2, <2>3, <2>5
<1>4. Range(t) = Range(s) \cup {n}
  <2>1. DOMAIN t = 1..Len(s) + 1 /\ DOMAIN s = 1..Len(s)
    BY <1>1
  <2>2. t[Len(s) + 1] = n /\ Len(s) + 1 \in DOMAIN t
    BY <1>1, <2>1
  <2>3. \A i \in DOMAIN t : t[i] \in Range(s) \cup {n}
    <3>1. ASSUME NEW m \in Nat, NEW l \in 1..m + 1 PROVE l = m + 1 \/ l \in 1..m
      OBVIOUS
    <3> QED BY <3>1, <2>1, <1>1 DEF Range
  <2>4. \A i \in DOMAIN s : s[i] \in Range(t)
    BY <2>1, <1>1 DEF Range
  <2> QED BY <2>2, <2>3, <2>4 DEF Range
<1>5. t[1] = IF s = <<>> THEN n ELSE s[1]
  BY <1>1
<1> QED BY <1>1, <1>3, <1>4, <1>5 DEF t

LEMMA TailAscending ==
  ASSUME NEW s \in Seq(Nat \ {0}), Ascending(s), s # <<>>
  PROVE  /\ Tail(s) \in Seq(Nat \ {0}) /\ Len(Tail(s)) <= Len(s)
         /\ Head(s) = s[1] /\ s[1] \in Range(s)
         /\ Ascending(Tail(s)) /\ Range(Tail(s)) = Range(s) \ {s[1]}
         /\ \A r \in Range(s) : s[1] <= r
         /\ Tail(s) # <<>> => /\ Tail(s)[1] \in Range(Tail(s))
                             /\ \A r \in Range(Tail(s)) : Tail(s)[1] <= r
<1> DEFINE t == Tail(s)
<1>1. /\ t \in Seq(Nat \ {0}) /\ Len(s) \in Nat \ {0} /\ Len(t) = Len(s) - 1
      /\ \A i \in 1..Len(t) : t[i] = s[i + 1]
      /\ Head(s) = s[1]
  OBVIOUS
<1>2. DOMAIN t = 1..Len(t) /\ DOMAIN s = 1..Len(s)
  BY <1>1
<1>3. \A i \in 1..Len(s) : s[i] \in Nat
  OBVIOUS
<1> HIDE DEF t
<1>4. Ascending(t)
  <2> SUFFICES ASSUME NEW i \in 1..Len(t), NEW j \in 1..Len(t), i < j
               PROVE  t[i] < t[j]
    BY DEF Ascending
  <2>1. i + 1 \in 1..Len(s) /\ j + 1 \in 1..Len(s) /\ i + 1 < j + 1
    BY <1>1
  <2>2. s[i + 1] < s[j + 1]
    BY <2>1 DEF Ascending
  <2> QED BY <2>2, <1>1
<1>5. Range(t) = Range(s) \ {s[1]}
  <2>1. ASSUME NEW i \in 2..Len(s)
        PROVE  s[i] \in Range(t) /\ s[i] # s[1]
    <3>1. 1 \in 1..Len(s) /\ i \in 1..Len(s) /\ 1 < i
      BY <1>1
    <3>2. s[1] < s[i]
      BY <3>1 DEF Ascending
    <3>3. i - 1 \in 1..Len(t) /\ (i - 1) + 1 = i
      BY <1>1
    <3>4. t[i - 1] = s[i]
      BY <3>3, <1>1
    <3> QED BY <3>1, <3>2, <3>3, <3>4, <1>2, <1>3 DEF Range
  <2>2. ASSUME NEW i \in 1..Len(t)
        PROVE  t[i] \in Range(s) /\ t[i] # s[1]
    <3>1. i + 1 \in 2..Len(s) /\ i + 1 \in 1..Len(s)
      BY <1>1
    <3> QED BY <3>1, <2>1, <1>1, <1>2 DEF Range
  <2>3. \A x \in Range(s) : x = s[1] \/ \E i \in 2..Len(s) : x = s[i]
    BY <1>1, <1>2 DEF Range
  <2>4. \A x \in Range(t) : \E i \in 1..Len(t) : x = t[i]
    BY <1>2 DEF Range
  <2>5. \A x \in Range(t) : x \in Range(s) \ {s[1]}
    BY <2>2, <2>4
  <2>6. \A x \in Range(s) \ {s[1]} : x \in Range(t)
    BY <2>1, <2>3
  <2> QED BY <2>5, <2>6
<1>6. ASSUME NEW q \in Seq(Nat \ {0}), Ascending(q), q # <<>>
      PROVE  q[1] \in Range(q) /\ \A r \in Range(q) : q[1] <= r
  <2>1. 1 \in 1..Len(q) /\ DOMAIN q = 1..Len(q) /\ \A i \in 1..Len(q) : q[i] \in Nat
    BY <1>6
  <2>2. \A i \in 1..Len(q) : i = 1 \/ q[1] < q[i]
    BY <1>6, <2>1 DEF Ascending
  <2>3. q[1] \in Range(q) /\ \A r \in Range(q) : \E i \in 1..Len(q) : r = q[i]
    BY <2>1 DEF Range
  <2> QED BY <2>1, <2>2, <2>3
<1>7. t # <<>> => t[1] \in Range(t) /\ \A r \in Range(t) : t[1] <= r
  BY <1>1, <1>4, <1>6
<1> QED BY <1>1, <1>4, <1>5, <1>6, <1>7 DEF t

-----------------------------------------------------------------------------
(* The inductive invariant, call by call.                                   *)

CallOK(w) == StreamOK(w) /\ FoundOK(w) /\ KnownOK(w) /\ HistoryOK(w)

LEMMA InductiveByCall == Inductive <=> TypeOK /\ \A w \in Calls : CallOK(w)
BY DEF Inductive, CallOK

\* What the invariant says of one call, and the types of its variables.
LEMMA CallFacts ==
  ASSUME Inductive, NEW w \in Calls
  PROVE  /\ TypeOK /\ WritesOK /\ Dated /\ Now \in Nat
         /\ StreamOK(w) /\ FoundOK(w) /\ KnownOK(w) /\ HistoryOK(w)
         /\ next[w] \in Nat /\ batch[w] \subseteq Nat \ {0}
         /\ channel[w] \in Seq(Nat \ {0}) /\ Len(channel[w]) \in Nat
         /\ watch[w].keys \subseteq Keys
         /\ call[w] \in [state : {"none", "reading", "done", "failed", "cut"},
                         key : Keys \cup {Unset}, at : Nat, next : Nat, latest : Nat,
                         revs : Seq(Nat \ {0})]
<1>1. TypeOK /\ StreamOK(w) /\ FoundOK(w) /\ KnownOK(w) /\ HistoryOK(w)
  BY DEF Inductive
<1>2. WritesOK
  BY <1>1 DEF TypeOK, WritesOK
<1>3. Dated /\ Now \in Nat
  BY <1>2, DatedAlways DEF WritesOK, Now
<1>4. next[w] \in Nat /\ batch[w] \subseteq Nat \ {0} /\ channel[w] \in Seq(Nat \ {0})
  BY <1>1 DEF TypeOK
<1>5. Len(channel[w]) \in Nat
  BY <1>4
<1>6. watch[w].keys \subseteq Keys
  BY <1>1 DEF TypeOK
<1>7. call[w] \in [state : {"none", "reading", "done", "failed", "cut"},
                   key : Keys \cup {Unset}, at : Nat, next : Nat, latest : Nat,
                   revs : Seq(Nat \ {0})]
  BY <1>1 DEF TypeOK
<1> QED BY <1>1, <1>2, <1>3, <1>4, <1>5, <1>6, <1>7

\* Where the events on their way begin.
LEMMA FirstFacts ==
  ASSUME TypeOK, NEW w \in Calls, StreamOK(w)
  PROVE  /\ Now \in Nat /\ next[w] \in Nat /\ First(w) \in Nat /\ First(w) <= next[w]
         /\ watch[w].state \in {"open", "closed"} => First(w) # 0
         /\ batch[w] # {} => Min(batch[w]) \in batch[w] /\ \A r \in batch[w] : Min(batch[w]) <= r
         /\ \A r \in Range(channel[w]) \cup batch[w] : r \in 1..Now
<1>1. /\ Now \in Nat /\ next[w] \in Nat /\ channel[w] \in Seq(Nat \ {0})
      /\ batch[w] \subseteq Nat \ {0}
  BY DEF TypeOK, Now
<1>2. batch[w] # {} => Min(batch[w]) \in batch[w] /\ \A r \in batch[w] : Min(batch[w]) <= r
  BY <1>1, MinFacts
<1>3. channel[w] # <<>> => channel[w][1] \in Range(channel[w])
  BY <1>1 DEF Range
<1>4. \A r \in Range(channel[w]) \cup batch[w] : r \in Nat \ {0} /\ r <= next[w] - 1
  <2>1. \A r \in Range(channel[w]) \cup batch[w] : r \in Nat \ {0}
    BY <1>1 DEF Range
  <2> QED BY <2>1, <1>1 DEF StreamOK, Events
<1>5. next[w] <= Now + 1 /\ (watch[w].state \in {"open", "closed"} => next[w] # 0)
  BY DEF StreamOK
<1> QED BY <1>1, <1>2, <1>3, <1>4, <1>5 DEF First

\* A call of History is not concerned by steps of Watch.
LEMMA HistoryKept ==
  ASSUME NEW w \in Calls, HistoryOK(w), writes' = writes, call'[w] = call[w]
  PROVE  HistoryOK(w)'
<1>1. Now' = Now /\ \A k, r : ModRevision(k, r)' = ModRevision(k, r)
  BY UnwrittenFacts
<1>2. \A ks, r, s : Events(ks, r, s)' = Events(ks, r, s)
  BY DEF Events
<1>3. \A k, r, s : IsCreate(k, r, s)' = IsCreate(k, r, s)
  BY <1>1 DEF IsCreate
<1> QED BY <1>1, <1>2, <1>3 DEF HistoryOK

\* A call is not concerned by steps of others that write nothing.
LEMMA CallKept ==
  ASSUME NEW w \in Calls, CallOK(w), writes' = writes, watch'[w] = watch[w],
         next'[w] = next[w], batch'[w] = batch[w], channel'[w] = channel[w],
         view'[w] = view[w], call'[w] = call[w]
  PROVE  CallOK(w)'
<1>1. Now' = Now /\ \A k, r : ModRevision(k, r)' = ModRevision(k, r)
  BY UnwrittenFacts
<1>2. First(w)' = First(w) /\ \A ks, r, s : Events(ks, r, s)' = Events(ks, r, s)
  BY DEF First, Events
<1>3. \A k, v, r : Suffices(k, v, r)' = Suffices(k, v, r)
  BY <1>1 DEF Suffices
<1>4. StreamOK(w)'
  BY <1>1, <1>2 DEF CallOK, StreamOK
<1>5. FoundOK(w)'
  BY <1>1, <1>3 DEF CallOK, FoundOK
<1>6. KnownOK(w)'
  BY <1>2, <1>3 DEF CallOK, KnownOK, Grounded
<1>7. HistoryOK(w)'
  BY HistoryKept DEF CallOK
<1> QED BY <1>4, <1>5, <1>6, <1>7 DEF CallOK

LEMMA OneCall ==
  ASSUME Inductive, TypeOK', writes' = writes, NEW w \in Calls, CallOK(w)',
         \A v \in Calls : v # w =>
           /\ watch'[v] = watch[v] /\ next'[v] = next[v] /\ batch'[v] = batch[v]
           /\ channel'[v] = channel[v] /\ view'[v] = view[v] /\ call'[v] = call[v]
  PROVE  Inductive'
<1>1. \A v \in Calls : CallOK(v)
  BY InductiveByCall
<1>2. ASSUME NEW v \in Calls PROVE CallOK(v)'
  <2>1. CASE v = w
    BY <2>1
  <2>2. CASE v # w
    BY <1>1, <2>2, CallKept
  <2> QED BY <2>1, <2>2
<1>3. TypeOK' /\ \A v \in Calls : CallOK(v)'
  BY <1>2
<1> QED BY <1>3 DEF Inductive, CallOK

LEMMA InitInductive == Init => Inductive
<1> SUFFICES ASSUME Init PROVE Inductive
  OBVIOUS
<1>1. TypeOK
  BY InputsAssumption DEF Init, TypeOK
<1>2. ASSUME NEW w \in Calls PROVE CallOK(w)
  <2>1. /\ watch[w].state = "none" /\ call[w].state = "none" /\ next[w] = 0 /\ Now = 0
        /\ channel[w] = <<>> /\ batch[w] = {}
    BY DEF Init, Now
  <2>2. First(w) = 0 /\ Range(channel[w]) = {}
    BY <2>1 DEF First, Range
  <2>3. Events(watch[w].keys, First(w), next[w] - 1) = {}
    BY <2>1, <2>2 DEF Events
  <2>4. StreamOK(w)
    <3>1. Ascending(channel[w])
      BY <2>1 DEF Ascending
    <3>2. Range(channel[w]) \cup batch[w] = Events(watch[w].keys, First(w), next[w] - 1)
      BY <2>1, <2>2, <2>3
    <3>3. \A r \in Range(channel[w]), s \in batch[w] : r < s
      BY <2>1
    <3> QED BY <2>1, <3>1, <3>2, <3>3 DEF StreamOK
  <2> QED BY <2>1, <2>4 DEF CallOK, FoundOK, KnownOK, HistoryOK
<1> QED BY <1>1, <1>2 DEF Inductive, CallOK

\* Writes of clients: calls lose nothing of what they have found.
LEMMA WriteStep ==
  ASSUME Inductive, NEW k \in Keys, NEW d \in BOOLEAN, Write(k, d),
         UNCHANGED <<watching, call, cancelled>>
  PROVE  Inductive'
<1> USE DEF watching
<1>1. TypeOK /\ WritesOK /\ \A w \in Calls : CallOK(w)
  BY DEF Inductive, CallOK, TypeOK, WritesOK
<1>2. /\ WritesOK' /\ Now \in Nat /\ Now' = Now + 1
      /\ \A r \in 1..Now : writes'[r] = writes[r]
      /\ \A q, r : r \in 0..Now => ModRevision(q, r)' = ModRevision(q, r)
  BY <1>1, WriteFacts
<1>3. TypeOK'
  BY <1>1, <1>2 DEF TypeOK, WritesOK
<1>4. ASSUME NEW from \in Nat, NEW q, NEW v, from <= Now + 1, from # 0, Suffices(q, v, from)
      PROVE  Suffices(q, v, from)'
  <2>1. from - 1 \in 0..Now
    BY <1>2, <1>4
  <2>2. ASSUME NEW r \in from..Now, writes[r].key = q
        PROVE  r \in from..Now' /\ writes'[r].key = q
    BY <2>2, <1>2, <1>4
  <2> QED BY <2>1, <2>2, <1>2, <1>4 DEF Suffices
<1>5. ASSUME NEW ks, NEW from \in Nat, NEW to \in Int, to <= Now, from # 0 \/ to < from
      PROVE  Events(ks, from, to)' = Events(ks, from, to)
  BY <1>2, <1>5 DEF Events
<1>6. ASSUME NEW w \in Calls PROVE CallOK(w)'
  <2>1. StreamOK(w) /\ FoundOK(w) /\ KnownOK(w) /\ HistoryOK(w)
    BY <1>1 DEF CallOK
  <2>2. First(w)' = First(w)
    BY DEF First
  <2>3. /\ First(w) \in Nat /\ First(w) <= next[w] /\ next[w] \in Nat /\ next[w] <= Now + 1
        /\ watch[w].state \in {"open", "closed"} => First(w) # 0
    BY <1>1, <2>1, FirstFacts DEF StreamOK
  <2>4. Events(watch[w].keys, First(w), next[w] - 1)' = Events(watch[w].keys, First(w), next[w] - 1)
    <3>1. CASE First(w) # 0
      BY <3>1, <1>2, <1>5, <2>2, <2>3
    <3>2. CASE First(w) = 0
      <4>1. watch[w].state \in {"none", "got"}
        BY <3>2, <2>3, <1>1 DEF TypeOK
      <4>2. next[w] = 0
        BY <4>1, <3>2, <2>1 DEF StreamOK, First
      <4> QED BY <4>2, <3>2, <1>2, <1>5, <2>2
    <3> QED BY <3>1, <3>2
  <2>5. StreamOK(w)'
    BY <2>1, <2>2, <2>3, <2>4, <1>2 DEF StreamOK
  <2>6. FoundOK(w)'
    BY <2>1, <1>2, <1>4 DEF FoundOK
  <2>7. KnownOK(w)'
    BY <2>1, <2>2, <2>3, <1>2, <1>4 DEF KnownOK, Grounded
  <2>8. HistoryOK(w)'
    <3> DEFINE c == call[w]
    <3> SUFFICES ASSUME c.state \in {"reading", "done"}
                 PROVE  HistoryOK(w)'
      BY DEF HistoryOK
    <3>1. /\ c.key \in Keys /\ c.at \in 1..Now /\ c.latest = ModRevision(c.key, c.at)
          /\ c.next \in Nat /\ c.next <= c.latest + 1
      BY <2>1, <1>1 DEF HistoryOK, TypeOK
    <3>2. PICK first \in 1..c.at :
            /\ IsCreate(c.key, c.at, first) /\ first <= c.next
            /\ Range(c.revs) = Events({c.key}, first, c.next - 1)
      BY <2>1 DEF HistoryOK
    <3>3. c.latest \in 0..c.at
      BY <3>1, <1>1, <1>2, DatedAlways DEF Dated
    <3>4. IsCreate(c.key, c.at, first)'
      BY <3>1, <3>2, <1>2 DEF IsCreate
    <3>5. Events({c.key}, first, c.next - 1)' = Events({c.key}, first, c.next - 1)
      BY <3>1, <3>2, <3>3, <1>2, <1>5
    <3>6. ModRevision(c.key, c.at)' = ModRevision(c.key, c.at)
      BY <3>1, <1>2
    <3> QED BY <2>1, <3>1, <3>2, <3>4, <3>5, <3>6, <1>2 DEF HistoryOK
  <2> QED BY <2>5, <2>6, <2>7, <2>8 DEF CallOK
<1> QED BY <1>3, <1>6 DEF Inductive, CallOK

-----------------------------------------------------------------------------
(* The steps of Watch.                                                      *)

\* What suffices from a revision on suffices from a later one, if the key is
\* not written in between.
LEMMA SufficesLater ==
  ASSUME WritesOK, NEW k \in Keys, NEW v, NEW from \in Nat \ {0}, NEW later \in Nat,
         from <= later, later <= Now + 1,
         \A r \in from..later - 1 : writes[r].key # k, Suffices(k, v, from)
  PROVE  Suffices(k, v, later)
<1>1. Now \in Nat
  BY DEF WritesOK, Now
<1>2. ModRevision(k, later - 1) = ModRevision(k, from - 1)
  <2>1. from - 1 \in 0..Now /\ later - 1 \in 0..Now /\ from - 1 <= later - 1 /\ (from - 1) + 1 = from
    BY <1>1
  <2> QED BY <2>1, DatedAlways DEF Dated
<1>3. \A r \in from..Now : writes[r].key = k => r \in later..Now
  BY <1>1
<1> QED BY <1>2, <1>3 DEF Suffices

\* Get WithFirstCreate finds a revision from which all keys can be rebuilt.
LEMMA FirstCreateFacts ==
  ASSUME WritesOK, NEW extending \in SUBSET Keys, FirstCreate(extending) # 0
  PROVE  /\ FirstCreate(extending) \in 1..Now
         /\ \A k \in extending : Suffices(k, 0, FirstCreate(extending))
<1> DEFINE created == {CreateRevision(k, Now) : k \in ListKeys(extending)}
           first == FirstCreate(extending)
<1>1. Now \in Nat /\ Dated
  BY DatedAlways DEF WritesOK, Now
<1>2. ASSUME NEW k \in ListKeys(extending)
      PROVE  /\ CreateRevision(k, Now) \in 1..Now
             /\ IsCreate(k, Now, CreateRevision(k, Now))
  <2>1. k \in Keys /\ ModRevision(k, Now) # 0 /\ Now \in 0..Now
    BY <1>1 DEF ListKeys, Live
  <2> QED BY <2>1, CreateFacts
<1>3. created \subseteq 1..Now
  BY <1>2
<1>4. created # {} /\ first = Min(created)
  BY DEF FirstCreate
<1>5. first \in created /\ \A c \in created : first <= c
  <2>1. created \subseteq Nat
    BY <1>1, <1>3
  <2> HIDE DEF created, first
  <2> QED BY <2>1, <1>4, MinFacts
<1>6. first \in 1..Now
  BY <1>3, <1>5
<1> HIDE DEF first
<1>7. ASSUME NEW k \in extending PROVE Suffices(k, 0, first)
  <2>1. CASE Live(k)
    <3>1. k \in ListKeys(extending)
      BY <2>1 DEF ListKeys
    <3>2. CreateRevision(k, Now) \in first..Now
      BY <3>1, <1>1, <1>2, <1>5, <1>6
    <3>3. writes[CreateRevision(k, Now)].key = k
      BY <3>1, <1>2 DEF IsCreate
    <3> QED BY <3>2, <3>3 DEF Suffices
  <2>2. CASE ~Live(k)
    <3>1. ModRevision(k, Now) = 0
      BY <2>2 DEF Live
    <3>2. SUFFICES ASSUME \A r \in first..Now : writes[r].key # k
                   PROVE  ModRevision(k, first - 1) = 0
      BY DEF Suffices
    <3>3. /\ first - 1 \in 0..Now /\ Now \in 0..Now /\ first - 1 <= Now
          /\ (first - 1) + 1 = first
      BY <1>1, <1>6
    <3>4. \A i \in (first - 1) + 1..Now : writes[i].key # k
      BY <3>2, <3>3
    <3> QED BY <3>1, <3>3, <3>4, <1>1 DEF Dated
  <2> QED BY <2>1, <2>2
<1> QED BY <1>6, <1>7 DEF first

LEMMA WatchGetStep ==
  ASSUME Inductive, NEW w \in Calls, NEW q \in Requests, NEW rev \in Revisions,
         WatchGet(w, q, rev)
  PROVE  Inductive'
<1> DEFINE first == IF rev = 0 THEN FirstCreate(q.extending) ELSE rev
<1>1. TypeOK /\ WritesOK /\ CallOK(w) /\ Now \in Nat
  BY DEF Inductive, CallOK, TypeOK, WritesOK, Now
<1>2. /\ q.keys \subseteq q.extending /\ q.extending \subseteq Keys
      /\ rev \in Nat \cup {Unset} /\ Unset \notin Int
  BY InputsAssumption
<1>3. FirstCreate(q.extending) # 0 =>
        /\ FirstCreate(q.extending) \in 1..Now
        /\ \A k \in q.extending : Suffices(k, 0, FirstCreate(q.extending))
  BY <1>1, <1>2, FirstCreateFacts
<1>4. first \in Nat \cup {Unset}
  BY <1>1, <1>2, <1>3
<1>5. /\ watch' = [watch EXCEPT ![w] = [state |-> "got", keys |-> q.keys,
                                         asked |-> rev, first |-> first]]
      /\ writes' = writes /\ next' = next /\ batch' = batch
      /\ channel' = channel /\ view' = view /\ call' = call /\ cancelled' = cancelled
      /\ watch[w].state = "none" /\ call[w].state = "none"
      /\ rev \in {0, Unset} \cup 1..Now
  BY DEF WatchGet
<1> HIDE DEF first
<1>6. watch'[w] = [state |-> "got", keys |-> q.keys, asked |-> rev, first |-> first]
  BY <1>1, <1>5 DEF TypeOK
<1>7. TypeOK'
  <2>1. [state |-> "got", keys |-> q.keys, asked |-> rev, first |-> first]
          \in [state : {"none", "got", "open", "closed"}, keys : SUBSET Keys,
               asked : Nat \cup {Unset}, first : Nat \cup {Unset}]
    BY <1>2, <1>4
  <2> QED BY <2>1, <1>1, <1>5 DEF TypeOK
<1>8. Now' = Now /\ \A k, r : ModRevision(k, r)' = ModRevision(k, r)
  BY <1>5, UnwrittenFacts
<1>9. StreamOK(w)'
  <2>1. /\ StreamOK(w) /\ channel[w] = <<>> /\ batch[w] = {} /\ next[w] \in Nat
        /\ next[w] <= Now + 1
    BY <1>1, <1>5 DEF CallOK, StreamOK, TypeOK
  <2>2. First(w)' = next[w] /\ Range(channel'[w]) = {}
    BY <2>1, <1>5 DEF First, Range
  <2>3. Events(watch[w].keys, First(w), next[w] - 1)' = {}
    BY <2>1, <2>2, <1>5 DEF Events
  <2>4. Ascending(channel[w])' /\ \A r \in Range(channel'[w]), s \in batch'[w] : r < s
    BY <2>1, <2>2, <1>5 DEF Ascending
  <2>5. Range(channel'[w]) \cup batch'[w] = Events(watch[w].keys, First(w), next[w] - 1)'
    BY <2>1, <2>2, <2>3, <1>5
  <2>6. watch'[w].state = "got"
    BY <1>6
  <2> QED BY <2>1, <2>4, <2>5, <2>6, <1>5, <1>8 DEF StreamOK
<1>10. FoundOK(w)'
  <2>1. CASE rev # 0
    BY <2>1, <1>2, <1>5, <1>6, <1>8 DEF FoundOK, first
  <2>2. CASE rev = 0
    <3>1. first # 0 => first \in 1..Now /\ \A k \in q.keys : Suffices(k, 0, first)
      BY <2>2, <1>2, <1>3 DEF first
    <3>2. \A k, v, r : Suffices(k, v, r)' = Suffices(k, v, r)
      BY <1>5, <1>8 DEF Suffices
    <3> QED BY <2>2, <3>1, <3>2, <1>6, <1>8 DEF FoundOK
  <2> QED BY <2>1, <2>2
<1>11. KnownOK(w)' /\ HistoryOK(w)'
  BY <1>5, <1>6 DEF KnownOK, HistoryOK
<1>12. CallOK(w)'
  BY <1>9, <1>10, <1>11 DEF CallOK
<1>13. \A v \in Calls : v # w => watch'[v] = watch[v]
  BY <1>1, <1>5 DEF TypeOK
<1> QED BY <1>5, <1>7, <1>12, <1>13, OneCall

LEMMA WatchOpenStep ==
  ASSUME Inductive, NEW w \in Calls, WatchOpen(w)
  PROVE  Inductive'
<1> DEFINE first == IF watch[w].first \in {0, Unset} THEN Now + 1 ELSE watch[w].first
           known == [k \in Keys |->
                       IF watch[w].asked = 0 THEN 0 ELSE ModRevision(k, first - 1)]
<1>1. /\ TypeOK /\ WritesOK /\ CallOK(w) /\ Now \in Nat /\ Dated
      /\ StreamOK(w) /\ FoundOK(w)
  BY DatedAlways DEF Inductive, CallOK, TypeOK, WritesOK, Now
<1>2. /\ watch' = [watch EXCEPT ![w].state = "open"]
      /\ next' = [next EXCEPT ![w] = first]
      /\ view' = [view EXCEPT ![w] = known]
      /\ writes' = writes /\ batch' = batch
      /\ channel' = channel /\ call' = call /\ cancelled' = cancelled
      /\ watch[w].state = "got"
  BY DEF WatchOpen
<1>3. first \in 1..Now + 1
  <2>1. watch[w].first \in {0, Unset} \cup 1..Now
    BY <1>1, <1>2 DEF FoundOK
  <2> QED BY <2>1, <1>1
<1>4. known \in [Keys -> Nat]
  <2>1. first - 1 \in 0..Now
    BY <1>1, <1>3
  <2>2. \A k \in Keys : ModRevision(k, first - 1) \in Nat
    BY <2>1, <1>1 DEF Dated
  <2> HIDE DEF first
  <2> QED BY <2>2
<1> HIDE DEF first, known
<1>5. /\ watch[w] \in [state : {"none", "got", "open", "closed"}, keys : SUBSET Keys,
                       asked : Nat \cup {Unset}, first : Nat \cup {Unset}]
      /\ watch'[w] = [watch[w] EXCEPT !.state = "open"]
      /\ next'[w] = first /\ view'[w] = known
  BY <1>1, <1>2 DEF TypeOK
<1>6. /\ watch'[w].state = "open" /\ watch'[w].keys = watch[w].keys
      /\ watch'[w].asked = watch[w].asked /\ watch'[w].first = watch[w].first
      /\ watch'[w] \in [state : {"none", "got", "open", "closed"}, keys : SUBSET Keys,
                        asked : Nat \cup {Unset}, first : Nat \cup {Unset}]
      /\ watch[w].keys \subseteq Keys
  BY <1>5
<1>7. TypeOK'
  <2>1. first \in Nat
    BY <1>1, <1>3
  <2>2. watch' \in [Calls -> [state : {"none", "got", "open", "closed"}, keys : SUBSET Keys,
                              asked : Nat \cup {Unset}, first : Nat \cup {Unset}]]
    BY <1>1, <1>2, <1>6 DEF TypeOK
  <2>3. next' \in [Calls -> Nat] /\ view' \in [Calls -> [Keys -> Nat]]
    BY <2>1, <1>1, <1>2, <1>4 DEF TypeOK
  <2> QED BY <2>2, <2>3, <1>1, <1>2 DEF TypeOK
<1>8. Now' = Now /\ \A k, r : ModRevision(k, r)' = ModRevision(k, r)
  BY <1>2, UnwrittenFacts
<1>9. channel[w] = <<>> /\ batch[w] = {}
  BY <1>1, <1>2 DEF StreamOK
<1>10. First(w)' = first /\ Range(channel'[w]) = {}
  BY <1>2, <1>5, <1>9 DEF First, Range
<1>11. StreamOK(w)'
  <2>1. Events(watch[w].keys, First(w), next[w] - 1)' = {}
    BY <1>1, <1>3, <1>5, <1>10 DEF Events
  <2>2. Ascending(channel[w])' /\ \A r \in Range(channel'[w]), s \in batch'[w] : r < s
    BY <1>2, <1>9, <1>10 DEF Ascending
  <2>3. Range(channel'[w]) \cup batch'[w] = Events(watch[w].keys, First(w), next[w] - 1)'
    BY <2>1, <1>2, <1>9, <1>10
  <2>4. next'[w] <= Now' + 1 /\ next'[w] # 0
    BY <1>1, <1>3, <1>5, <1>8
  <2> QED BY <2>2, <2>3, <2>4, <1>6 DEF StreamOK
<1>12. KnownOK(w)'
  <2> SUFFICES ASSUME Grounded(w)', NEW k \in watch[w].keys
               PROVE  Suffices(k, view[w][k], First(w))'
    BY <1>6 DEF KnownOK
  <2>1. k \in Keys /\ view'[w][k] = known[k] /\ First(w)' = first
    BY <1>5, <1>6, <1>10
  <2>2. \A v, r : Suffices(k, v, r)' = Suffices(k, v, r)
    BY <1>2, <1>8 DEF Suffices
  <2>3. CASE watch[w].asked # 0
    <3>1. known[k] = ModRevision(k, first - 1)
      BY <2>1, <2>3 DEF known
    <3>2. Suffices(k, known[k], first)
      BY <3>1 DEF Suffices
    <3> QED BY <3>2, <2>1, <2>2
  <2>4. CASE watch[w].asked = 0
    <3>1. watch[w].first # 0
      BY <2>4, <1>6 DEF Grounded
    <3>2. watch[w].first \in 1..Now /\ Suffices(k, 0, watch[w].first)
      BY <3>1, <2>4, <1>1, <1>2 DEF FoundOK
    <3>3. first = watch[w].first /\ known[k] = 0
      BY <3>2, <2>1, <2>4, <1>1, InputsAssumption DEF first, known
    <3> QED BY <3>2, <3>3, <2>1, <2>2
  <2> QED BY <2>3, <2>4
<1>13. FoundOK(w)' /\ HistoryOK(w)'
  <2>1. FoundOK(w)'
    BY <1>6 DEF FoundOK
  <2>2. HistoryOK(w)'
    BY <1>1, <1>2, HistoryKept DEF CallOK
  <2> QED BY <2>1, <2>2
<1>14. CallOK(w)'
  BY <1>11, <1>12, <1>13 DEF CallOK
<1>15. \A v \in Calls : v # w =>
         watch'[v] = watch[v] /\ next'[v] = next[v] /\ view'[v] = view[v]
  BY <1>1, <1>2 DEF TypeOK
<1> QED BY <1>2, <1>7, <1>14, <1>15, OneCall

\* A step of a watch on its stream, by which its caller misses nothing.
LEMMA StreamStep ==
  ASSUME Inductive, TypeOK', NEW w \in Calls, writes' = writes, call' = call,
         watch[w].state \notin {"none", "got"},
         watch'[w] = watch[w] \/ watch'[w].state = "closed",
         StreamOK(w)', KnownOK(w)',
         \A v \in Calls : v # w =>
           /\ watch'[v] = watch[v] /\ next'[v] = next[v] /\ batch'[v] = batch[v]
           /\ channel'[v] = channel[v] /\ view'[v] = view[v]
  PROVE  Inductive'
<1>1. HistoryOK(w)'
  BY HistoryKept DEF Inductive
<1>2. FoundOK(w)'
  BY DEF FoundOK
<1>3. CallOK(w)'
  BY <1>1, <1>2 DEF CallOK
<1> QED BY <1>3, OneCall

LEMMA TakeStep ==
  ASSUME Inductive, NEW w \in Calls, Take(w)
  PROVE  Inductive'
<1>1. /\ TypeOK /\ WritesOK /\ Now \in Nat /\ StreamOK(w) /\ KnownOK(w)
      /\ next[w] \in Nat /\ channel[w] \in Seq(Nat \ {0}) /\ watch[w].keys \subseteq Keys
  BY CallFacts
<1> DEFINE keys == watch[w].keys
<1>2. PICK to \in next[w]..Now :
        /\ writes[to].key \in keys
        /\ batch' = [batch EXCEPT ![w] = Events(keys, next[w], to)]
        /\ next' = [next EXCEPT ![w] = to + 1]
  BY DEF Take
<1>3. /\ watch[w].state = "open" /\ batch[w] = {}
      /\ UNCHANGED <<writes, watch, channel, view, call, cancelled>>
  BY DEF Take
<1>4. /\ First(w) \in Nat \ {0} /\ First(w) <= next[w] /\ next[w] # 0
      /\ \A r \in Range(channel[w]) : r \in 1..Now
  BY <1>1, <1>3, FirstFacts DEF StreamOK
<1> DEFINE B == Events(keys, next[w], to)
<1>5. /\ next'[w] = to + 1 /\ batch'[w] = B /\ to \in B
      /\ B \subseteq next[w]..to /\ B \subseteq Nat \ {0}
  BY <1>1, <1>2, <1>4, SMTT(30) DEF TypeOK, Events
<1>6. Min(B) \in B /\ \A r \in B : Min(B) <= r
  <2>1. B \subseteq Nat /\ B # {}
    BY <1>5
  <2> HIDE DEF B
  <2> QED BY <2>1, MinFacts
<1>7. TypeOK'
  <2>1. batch' \in [Calls -> SUBSET (Nat \ {0})] /\ next' \in [Calls -> Nat]
    BY <1>1, <1>2, <1>5 DEF TypeOK
  <2> QED BY <2>1, <1>1, <1>3 DEF TypeOK
<1> DEFINE from == IF channel[w] # <<>> THEN First(w) ELSE Min(B)
<1>8. First(w)' = from
  BY <1>3, <1>5 DEF First
<1>9. /\ from \in Nat \ {0} /\ First(w) <= from /\ from <= to
      /\ \A r \in First(w)..from - 1 : writes[r].key \notin keys
  <2>1. CASE channel[w] # <<>>
    BY <2>1, <1>1, <1>2, <1>4
  <2>2. CASE channel[w] = <<>>
    <3>1. First(w) = next[w] /\ from = Min(B)
      BY <2>2, <1>3 DEF First
    <3>2. \A r \in next[w]..Min(B) - 1 : r \in next[w]..to /\ r \notin B
      BY <1>1, <1>2, <1>5, <1>6
    <3>3. \A r \in next[w]..Min(B) - 1 : writes[r].key \notin keys
      BY <3>2 DEF Events
    <3> QED BY <3>1, <3>3, <1>1, <1>2, <1>4, <1>5, <1>6
  <2> QED BY <2>1, <2>2
<1>10. Range(channel[w]) \cup B = Events(keys, from, to)
  <2>1. Range(channel[w]) = Events(keys, First(w), next[w] - 1)
    BY <1>1, <1>3 DEF StreamOK
  <2>2. \A r \in First(w)..to : r \in First(w)..next[w] - 1 \/ r \in next[w]..to
    BY <1>1, <1>2, <1>4
  <2>3. \A r \in First(w)..next[w] - 1 : r \in First(w)..to
    BY <1>1, <1>2, <1>4
  <2>4. \A r \in next[w]..to : r \in First(w)..to
    BY <1>1, <1>2, <1>4
  <2>5. Range(channel[w]) \cup B = Events(keys, First(w), to)
    BY <2>1, <2>2, <2>3, <2>4 DEF Events
  <2>6. \A r \in First(w)..to : r \in First(w)..from - 1 \/ r \in from..to
    BY <1>2, <1>4, <1>9
  <2>7. \A r \in from..to : r \in First(w)..to
    BY <1>2, <1>4, <1>9
  <2>8. Events(keys, First(w), to) = Events(keys, from, to)
    <3> HIDE DEF from, keys
    <3> QED BY <2>6, <2>7, <1>9 DEF Events
  <2> QED BY <2>5, <2>8
<1> HIDE DEF from, B
<1>11. StreamOK(w)'
  <2>1. \A ks, r, s : Events(ks, r, s)' = Events(ks, r, s)
    BY <1>3 DEF Events
  <2>2. Range(channel'[w]) \cup batch'[w] = Events(watch[w].keys, First(w), next[w] - 1)'
    BY <2>1, <1>3, <1>5, <1>8, <1>10, <1>2
  <2>3. \A r \in Range(channel'[w]), s \in batch'[w] : r < s
    <3>1. \A r \in Range(channel[w]) : r <= next[w] - 1
      BY <1>1, <1>3 DEF StreamOK, Events
    <3> QED BY <3>1, <1>1, <1>2, <1>3, <1>4, <1>5
  <2>4. next'[w] <= Now' + 1 /\ next'[w] # 0
    BY <1>1, <1>2, <1>3, <1>5 DEF Now
  <2>5. Ascending(channel[w])' /\ watch'[w].state = "open"
    BY <1>1, <1>3 DEF StreamOK, Ascending
  <2> QED BY <2>2, <2>3, <2>4, <2>5 DEF StreamOK
<1>12. KnownOK(w)'
  <2> SUFFICES ASSUME Grounded(w)', NEW k \in keys
               PROVE  Suffices(k, view[w][k], First(w))'
    BY <1>3 DEF KnownOK
  <2>1. Suffices(k, view[w][k], First(w))
    BY <1>1, <1>3 DEF KnownOK, Grounded
  <2>2. \A r \in First(w)..from - 1 : writes[r].key # k
    BY <1>9
  <2>3. from <= Now + 1 /\ k \in Keys
    BY <1>1, <1>2, <1>9
  <2>4. Suffices(k, view[w][k], from)
    BY <2>1, <2>2, <2>3, <1>1, <1>4, <1>9, SufficesLater
  <2>5. \A v, r : Suffices(k, v, r)' = Suffices(k, v, r)
    BY <1>3, UnwrittenFacts DEF Suffices
  <2> QED BY <2>4, <2>5, <1>3, <1>8
<1>13. \A v \in Calls : v # w => next'[v] = next[v] /\ batch'[v] = batch[v]
  BY <1>1, <1>2 DEF TypeOK
<1> QED BY <1>3, <1>7, <1>11, <1>12, <1>13, StreamStep

LEMMA SendStep ==
  ASSUME Inductive, NEW w \in Calls, Send(w)
  PROVE  Inductive'
<1>1. /\ TypeOK /\ WritesOK /\ Now \in Nat /\ StreamOK(w) /\ KnownOK(w)
      /\ channel[w] \in Seq(Nat \ {0}) /\ batch[w] \subseteq Nat \ {0}
      /\ Len(channel[w]) \in Nat
  BY CallFacts
<1> DEFINE m == Min(batch[w])
           sent == Append(channel[w], m)
<1>2. /\ batch[w] # {} /\ Len(channel[w]) < ChannelCap
      /\ channel' = [channel EXCEPT ![w] = sent]
      /\ batch' = [batch EXCEPT ![w] = @ \ {m}]
      /\ UNCHANGED <<writes, watch, next, view, call, cancelled>>
  BY DEF Send, HasRoom
<1>3. /\ m \in batch[w] /\ \A r \in batch[w] : m <= r
      /\ m \in Nat \ {0} /\ \A r \in Range(channel[w]) : r < m
  BY <1>1, <1>2, FirstFacts DEF StreamOK
<1>4. channel'[w] = sent /\ batch'[w] = batch[w] \ {m}
  BY <1>1, <1>2 DEF TypeOK
<1> HIDE DEF m
<1>5. /\ sent \in Seq(Nat \ {0}) /\ sent # <<>> /\ Ascending(sent)
      /\ Range(sent) = Range(channel[w]) \cup {m}
      /\ sent[1] = IF channel[w] = <<>> THEN m ELSE channel[w][1]
      /\ Len(sent) = Len(channel[w]) + 1
  BY <1>1, <1>3, AppendAscending DEF StreamOK
<1> HIDE DEF sent
<1>6. watch[w].state \notin {"none", "got"}
  BY <1>1, <1>2 DEF StreamOK
<1>7. TypeOK'
  <2>1. channel' \in [Calls -> Seq(Nat \ {0})] /\ batch' \in [Calls -> SUBSET (Nat \ {0})]
    BY <1>1, <1>2, <1>5 DEF TypeOK
  <2>2. \A v \in Calls : Len(channel'[v]) <= ChannelCap
    <3>1. Len(sent) <= ChannelCap
      BY <1>1, <1>2, <1>5, InputsAssumption
    <3> QED BY <3>1, <1>1, <1>2, <1>4 DEF TypeOK
  <2> QED BY <2>1, <2>2, <1>1, <1>2 DEF TypeOK
<1>8. First(w)' = First(w)
  BY <1>2, <1>4, <1>5 DEF First, m
<1>9. Now' = Now /\ \A k, r : ModRevision(k, r)' = ModRevision(k, r)
  BY <1>2, UnwrittenFacts
<1>10. StreamOK(w)'
  <2>1. \A ks, r, s : Events(ks, r, s)' = Events(ks, r, s)
    BY <1>2 DEF Events
  <2>2. Range(channel'[w]) \cup batch'[w] = Range(channel[w]) \cup batch[w]
    BY <1>3, <1>4, <1>5
  <2>3. \A r \in Range(channel'[w]), s \in batch'[w] : r < s
    <3>1. \A s \in batch'[w] : m < s /\ s \in batch[w]
      BY <1>1, <1>3, <1>4
    <3> QED BY <3>1, <1>1, <1>4, <1>5 DEF StreamOK
  <2>4. Ascending(channel[w])'
    BY <1>4, <1>5 DEF Ascending
  <2> QED BY <2>1, <2>2, <2>3, <2>4, <1>1, <1>2, <1>6, <1>8, <1>9 DEF StreamOK
<1>11. KnownOK(w)'
  <2>1. \A k, v, r : Suffices(k, v, r)' = Suffices(k, v, r)
    BY <1>2, <1>9 DEF Suffices
  <2> QED BY <2>1, <1>1, <1>2, <1>8 DEF KnownOK, Grounded
<1>12. \A v \in Calls : v # w => channel'[v] = channel[v] /\ batch'[v] = batch[v]
  BY <1>1, <1>2 DEF TypeOK
<1> QED BY <1>2, <1>6, <1>7, <1>10, <1>11, <1>12, StreamStep

LEMMA ReturnStep ==
  ASSUME Inductive, NEW w \in Calls, Return(w)
  PROVE  Inductive'
<1>1. TypeOK /\ StreamOK(w)
  BY DEF Inductive
<1>2. /\ watch[w].state = "open" /\ watch' = [watch EXCEPT ![w].state = "closed"]
      /\ UNCHANGED <<writes, next, batch, channel, view, call, cancelled>>
  BY DEF Return
<1>3. /\ watch[w] \in [state : {"none", "got", "open", "closed"}, keys : SUBSET Keys,
                       asked : Nat \cup {Unset}, first : Nat \cup {Unset}]
      /\ watch'[w] = [watch[w] EXCEPT !.state = "closed"]
  BY <1>1, <1>2 DEF TypeOK
<1>4. /\ watch'[w].state = "closed" /\ watch'[w].keys = watch[w].keys
      /\ watch'[w] \in [state : {"none", "got", "open", "closed"}, keys : SUBSET Keys,
                        asked : Nat \cup {Unset}, first : Nat \cup {Unset}]
  BY <1>3
<1>5. TypeOK'
  <2>1. watch' \in [Calls -> [state : {"none", "got", "open", "closed"}, keys : SUBSET Keys,
                              asked : Nat \cup {Unset}, first : Nat \cup {Unset}]]
    BY <1>1, <1>2, <1>4 DEF TypeOK
  <2> QED BY <2>1, <1>1, <1>2 DEF TypeOK
<1>6. StreamOK(w)'
  <2>1. First(w)' = First(w) /\ Now' = Now
        /\ \A ks, r, s : Events(ks, r, s)' = Events(ks, r, s)
    BY <1>2 DEF First, Now, Events
  <2> QED BY <2>1, <1>1, <1>2, <1>4 DEF StreamOK
<1>7. KnownOK(w)'
  BY <1>4 DEF KnownOK
<1>8. \A v \in Calls : v # w => watch'[v] = watch[v]
  BY <1>1, <1>2 DEF TypeOK
<1> QED BY <1>2, <1>4, <1>5, <1>6, <1>7, <1>8, StreamStep

LEMMA ReceiveStep ==
  ASSUME Inductive, NEW w \in Calls, Receive(w)
  PROVE  Inductive'
<1>1. /\ TypeOK /\ WritesOK /\ Dated /\ Now \in Nat /\ StreamOK(w) /\ KnownOK(w)
      /\ channel[w] \in Seq(Nat \ {0}) /\ batch[w] \subseteq Nat \ {0}
      /\ Len(channel[w]) \in Nat /\ next[w] \in Nat /\ watch[w].keys \subseteq Keys
  BY CallFacts
<1> DEFINE r == channel[w][1]
           rest == Tail(channel[w])
           key == writes[r].key
           new == IF writes[r].delete THEN 0 ELSE r
           coming == Range(rest) \cup batch[w]
           keys == watch[w].keys
<1>2. /\ channel[w] # <<>>
      /\ rest \in Seq(Nat \ {0}) /\ Len(rest) <= Len(channel[w])
      /\ Head(channel[w]) = r /\ r \in Range(channel[w])
      /\ Ascending(rest) /\ Range(rest) = Range(channel[w]) \ {r}
      /\ \A s \in Range(channel[w]) : r <= s
      /\ rest # <<>> => rest[1] \in Range(rest) /\ \A s \in Range(rest) : rest[1] <= s
  BY <1>1, TailAscending DEF Receive, StreamOK
<1>3. /\ view' = [view EXCEPT ![w][key] = new]
      /\ channel' = [channel EXCEPT ![w] = rest]
      /\ UNCHANGED <<writes, watch, next, batch, call, cancelled>>
  BY <1>2 DEF Receive
<1>4. First(w) = r /\ r \in 1..Now /\ key \in keys /\ key \in Keys /\ r <= next[w] - 1
  <2>1. First(w) = r
    BY <1>2 DEF First
  <2>2. r \in Events(keys, First(w), next[w] - 1)
    BY <1>1, <1>2 DEF StreamOK
  <2> QED BY <2>1, <2>2, <1>1, <1>2, FirstFacts DEF Events
<1>5. channel'[w] = rest /\ view'[w] = [view[w] EXCEPT ![key] = new]
  BY <1>1, <1>3 DEF TypeOK
<1>6. coming = Events(keys, r + 1, next[w] - 1)
  <2>1. Range(channel[w]) \cup batch[w] = Events(keys, r, next[w] - 1)
    BY <1>1, <1>4 DEF StreamOK
  <2>2. r \notin batch[w]
    BY <1>1, <1>2, <1>4 DEF StreamOK
  <2>3. coming = Events(keys, r, next[w] - 1) \ {r}
    BY <2>1, <2>2, <1>2
  <2>4. \A s : s \in r..next[w] - 1 /\ s # r <=> s \in r + 1..next[w] - 1
    <3> HIDE DEF r
    <3> QED BY <1>1, <1>4, SMTT(30)
  <2> QED BY <2>3, <2>4 DEF Events
<1> DEFINE from == IF rest # <<>> THEN rest[1] ELSE IF batch[w] # {} THEN Min(batch[w]) ELSE next[w]
<1>7. First(w)' = from
  <2>1. channel'[w] = rest /\ batch'[w] = batch[w] /\ next'[w] = next[w]
    BY <1>3, <1>5
  <2> HIDE DEF rest, r, key, new, coming, keys
  <2> QED BY <2>1 DEF First
<1>8. from \in coming \cup {next[w]} /\ (from = next[w] => coming = {})
      /\ \A s \in coming : from <= s
  <2>1. batch[w] # {} => Min(batch[w]) \in batch[w] /\ \A s \in batch[w] : Min(batch[w]) <= s
    BY <1>1, FirstFacts
  <2>2. \A s \in coming : s <= next[w] - 1 /\ s \in Int
    BY <1>1, <1>6 DEF Events
  <2>3. CASE rest # <<>>
    <3>1. \A s \in batch[w] : rest[1] < s
      BY <2>3, <1>1, <1>2 DEF StreamOK
    <3>2. rest[1] \in coming /\ from = rest[1]
      BY <2>3, <1>2
    <3>3. \A s \in coming : s \in batch[w] \/ rest[1] <= s
      BY <2>3, <1>2
    <3> HIDE DEF coming, rest
    <3>4. rest[1] \in Int /\ rest[1] <= next[w] - 1
      BY <3>2, <2>2
    <3>5. \A s \in coming : rest[1] <= s
      BY <3>1, <3>3, <3>4, <2>2
    <3>6. rest[1] # next[w]
      BY <3>4, <1>1
    <3> QED BY <3>2, <3>5, <3>6
  <2>4. CASE rest = <<>>
    <3>1. Range(rest) = {}
      BY <2>4 DEF Range
    <3>2. coming = batch[w] /\ from = IF batch[w] # {} THEN Min(batch[w]) ELSE next[w]
      BY <3>1, <2>4
    <3> HIDE DEF coming, rest, from
    <3>3. CASE batch[w] = {}
      BY <3>2, <3>3
    <3>4. CASE batch[w] # {}
      <4>1. Min(batch[w]) \in batch[w] /\ \A s \in batch[w] : Min(batch[w]) <= s
        BY <3>4, <2>1
      <4>2. from # next[w]
        BY <4>1, <3>2, <3>4, <2>2, <1>1
      <4> QED BY <4>1, <4>2, <3>2, <3>4
    <3> QED BY <3>3, <3>4
  <2> QED BY <2>3, <2>4
<1> HIDE DEF from, coming, rest
<1>9. /\ from \in Nat \ {0} /\ r < from /\ from <= next[w] /\ from <= Now + 1
      /\ \A s \in r + 1..from - 1 : writes[s].key \notin keys
  <2>1. from \in r + 1..next[w]
    BY <1>1, <1>4, <1>6, <1>8 DEF Events
  <2>2. \A s \in r + 1..from - 1 : s \in r + 1..next[w] - 1 /\ s \notin coming
    BY <2>1, <1>1, <1>4, <1>8
  <2>3. \A s \in r + 1..from - 1 : writes[s].key \notin keys
    BY <2>2, <1>6 DEF Events
  <2>4. next[w] <= Now + 1
    BY <1>1 DEF StreamOK
  <2>5. r \in Nat \ {0}
    BY <1>1, <1>4
  <2> HIDE DEF r
  <2>6. from \in Nat \ {0} /\ r < from /\ from <= next[w]
    BY <2>1, <2>5, <1>1
  <2>7. from <= Now + 1
    BY <2>6, <2>4, <1>1
  <2> QED BY <2>3, <2>6, <2>7
<1>10. coming = Events(keys, from, next[w] - 1)
  <2>1. \A s \in from..next[w] - 1 : s \in r + 1..next[w] - 1
    BY <1>1, <1>4, <1>9
  <2>2. \A s \in coming : s \in from..next[w] - 1
    <3>1. \A s \in coming : s \in Int /\ s <= next[w] - 1
      BY <1>1, <1>6 DEF Events
    <3> QED BY <3>1, <1>1, <1>8, <1>9
  <2> QED BY <2>1, <2>2, <1>6 DEF Events
<1>11. new \in Nat /\ new = ModRevision(key, r)
  <2>1. ASSUME NEW a \in Keys, NEW i \in 1..Now, writes[i].key = a
        PROVE  ModRevision(a, i) = IF writes[i].delete THEN 0 ELSE i
    BY <2>1, <1>1 DEF Dated
  <2>2. ModRevision(key, r) = new
    BY <2>1, <1>4
  <2>3. r \in Nat
    BY <1>1, <1>4
  <2> HIDE DEF key, r
  <2> QED BY <2>2, <2>3
<1> HIDE DEF new, r, key
<1>12. TypeOK'
  <2>1. channel' \in [Calls -> Seq(Nat \ {0})]
    BY <1>1, <1>2, <1>3 DEF TypeOK, rest
  <2>2. view' \in [Calls -> [Keys -> Nat]]
    BY <1>1, <1>3, <1>4, <1>11 DEF TypeOK
  <2>3. \A v \in Calls : Len(channel'[v]) <= ChannelCap
    <3>1. Len(rest) \in Nat /\ Len(rest) <= ChannelCap
      BY <1>1, <1>2, InputsAssumption DEF TypeOK, rest
    <3> QED BY <3>1, <1>1, <1>3, <1>5 DEF TypeOK
  <2> QED BY <2>1, <2>2, <2>3, <1>1, <1>3 DEF TypeOK
<1>13. StreamOK(w)'
  <2>1. Now' = Now /\ \A ks, q, s : Events(ks, q, s)' = Events(ks, q, s)
    BY <1>3 DEF Now, Events
  <2>2. Range(channel'[w]) \cup batch'[w] = Events(watch[w].keys, First(w), next[w] - 1)'
    BY <2>1, <1>3, <1>5, <1>7, <1>10 DEF coming
  <2>3. \A q \in Range(channel'[w]), s \in batch'[w] : q < s
    BY <1>1, <1>2, <1>3, <1>5 DEF StreamOK, rest
  <2>4. Ascending(channel[w])'
    BY <1>2, <1>5 DEF Ascending, rest
  <2>5. watch[w].state \notin {"none", "got"}
    BY <1>1, <1>2 DEF StreamOK
  <2> QED BY <2>1, <2>2, <2>3, <2>4, <2>5, <1>1, <1>3 DEF StreamOK
<1>14. KnownOK(w)'
  <2> SUFFICES ASSUME watch[w].state = "open", Grounded(w)', NEW k \in keys
               PROVE  Suffices(k, view[w][k], First(w))'
    BY <1>3 DEF KnownOK
  <2>1. k \in Keys /\ \A v, s : Suffices(k, v, s)' = Suffices(k, v, s)
    BY <1>1, <1>3, UnwrittenFacts DEF Suffices
  <2>2. CASE k = key
    <3>1. view'[w][k] = ModRevision(k, r)
      BY <2>1, <2>2, <1>1, <1>5, <1>11 DEF TypeOK
    <3>2. r + 1 \in Nat \ {0} /\ r + 1 <= from /\ (r + 1) - 1 = r
      BY <1>4, <1>9
    <3>3. Suffices(k, view'[w][k], r + 1)
      BY <3>1, <3>2 DEF Suffices
    <3>4. \A s \in r + 1..from - 1 : writes[s].key # k
      BY <1>9
    <3>5. Suffices(k, view'[w][k], from)
      BY <3>2, <3>3, <3>4, <2>1, <1>1, <1>9, SufficesLater
    <3> QED BY <3>5, <2>1, <1>7
  <2>3. CASE k # key
    <3>1. view'[w][k] = view[w][k]
      BY <2>1, <2>3, <1>1, <1>5 DEF TypeOK
    <3>2. Suffices(k, view[w][k], r)
      BY <1>1, <1>3, <1>4 DEF KnownOK, Grounded
    <3>3. \A s \in r..from - 1 : s = r \/ s \in r + 1..from - 1
      BY <1>4, <1>9
    <3>4. \A s \in r..from - 1 : writes[s].key # k
      BY <3>3, <2>3, <1>9 DEF key
    <3>5. r \in Nat \ {0} /\ r <= from
      BY <1>4, <1>9
    <3>6. Suffices(k, view[w][k], from)
      BY <3>2, <3>4, <3>5, <2>1, <1>1, <1>9, SufficesLater
    <3> QED BY <3>1, <3>6, <2>1, <1>7
  <2> QED BY <2>2, <2>3
<1>15. \A v \in Calls : v # w => channel'[v] = channel[v] /\ view'[v] = view[v]
  BY <1>1, <1>3 DEF TypeOK
<1>16. watch[w].state \notin {"none", "got"}
  BY <1>1, <1>2 DEF StreamOK
<1> QED BY <1>3, <1>12, <1>13, <1>14, <1>15, <1>16, StreamStep

-----------------------------------------------------------------------------
(* The steps of History.                                                    *)

\* A step of History on its own call.
LEMMA HistoryStep ==
  ASSUME Inductive, NEW h \in Calls, NEW c,
         c \in [state : {"none", "reading", "done", "failed", "cut"},
                key : Keys \cup {Unset}, at : Nat, next : Nat, latest : Nat,
                revs : Seq(Nat \ {0})],
         call' = [call EXCEPT ![h] = c], HistoryOK(h)',
         UNCHANGED <<writes, watching, cancelled>>
  PROVE  Inductive'
<1>1. TypeOK /\ CallOK(h)
  BY DEF Inductive, CallOK
<1>2. UNCHANGED <<writes, watch, next, batch, channel, view, cancelled>>
  BY DEF watching
<1>3. TypeOK'
  <2>1. call' \in [Calls -> [state : {"none", "reading", "done", "failed", "cut"},
                             key : Keys \cup {Unset}, at : Nat, next : Nat, latest : Nat,
                             revs : Seq(Nat \ {0})]]
    BY <1>1 DEF TypeOK
  <2> QED BY <2>1, <1>1, <1>2 DEF TypeOK
<1>4. /\ Now' = Now /\ First(h)' = First(h)
      /\ \A ks, r, s : Events(ks, r, s)' = Events(ks, r, s)
      /\ \A k, r : ModRevision(k, r)' = ModRevision(k, r)
  BY <1>2, UnwrittenFacts DEF First, Events
<1>5. \A k, v, r : Suffices(k, v, r)' = Suffices(k, v, r)
  BY <1>2, <1>4 DEF Suffices
<1>6. StreamOK(h)' /\ FoundOK(h)' /\ KnownOK(h)'
  <2>1. StreamOK(h)'
    BY <1>1, <1>2, <1>4 DEF CallOK, StreamOK
  <2>2. FoundOK(h)'
    BY <1>1, <1>2, <1>4, <1>5 DEF CallOK, FoundOK
  <2>3. KnownOK(h)'
    BY <1>1, <1>2, <1>4, <1>5 DEF CallOK, KnownOK, Grounded
  <2> QED BY <2>1, <2>2, <2>3
<1>7. CallOK(h)'
  BY <1>6 DEF CallOK
<1>8. \A v \in Calls : v # h => call'[v] = call[v]
  BY <1>1 DEF TypeOK
<1> QED BY <1>2, <1>3, <1>7, <1>8, OneCall

LEMMA HistoryGetStep ==
  ASSUME Inductive, NEW h \in Calls, NEW k \in Keys, NEW rev \in Revisions,
         HistoryGet(h, k, rev)
  PROVE  Inductive'
<1> DEFINE at == IF rev \in {0, Unset} THEN Now ELSE rev
           first == CreateRevision(k, at)
           latest == ModRevision(k, at)
           c == [state |-> "reading", key |-> k, at |-> at, next |-> first,
                 latest |-> latest, revs |-> <<>>]
<1>1. TypeOK /\ WritesOK /\ Dated /\ Now \in Nat
  BY CallFacts
<1>2. /\ at <= Now /\ latest # 0 /\ call' = [call EXCEPT ![h] = c]
      /\ UNCHANGED <<writes, watching, cancelled>>
  BY DEF HistoryGet, FirstOfHistory
<1>3. at \in 1..Now
  <2>1. at \in Nat
    BY <1>1, InputsAssumption
  <2>2. at # 0
    BY <1>1, <1>2 DEF Dated
  <2> QED BY <2>1, <2>2, <1>1, <1>2
<1>4. call'[h] = c
  BY <1>1, <1>2 DEF TypeOK
<1> HIDE DEF at
<1>5. /\ first \in 1..at /\ IsCreate(k, at, first)
  BY <1>1, <1>2, <1>3, CreateFacts
<1>6. latest \in Nat /\ latest \in 1..at /\ first <= latest
  <2>1. at \in 0..Now
    BY <1>1, <1>3
  <2>2. latest \in 0..at
    BY <2>1, <1>1 DEF Dated
  <2>3. writes[first].key = k
    BY <1>5 DEF IsCreate
  <2> QED BY <2>1, <2>2, <2>3, <1>1, <1>2, <1>3, <1>5 DEF Dated
<1> HIDE DEF first, latest
<1>7. c \in [state : {"none", "reading", "done", "failed", "cut"},
             key : Keys \cup {Unset}, at : Nat, next : Nat, latest : Nat,
             revs : Seq(Nat \ {0})]
  BY <1>1, <1>3, <1>5, <1>6
<1>8. HistoryOK(h)'
  <2>1. /\ call'[h].state = "reading" /\ call'[h].key = k /\ call'[h].at = at
        /\ call'[h].next = first /\ call'[h].latest = latest /\ call'[h].revs = <<>>
    BY <1>4
  <2>2. /\ Now' = Now /\ \A q, r : ModRevision(q, r)' = ModRevision(q, r)
    BY <1>2, UnwrittenFacts
  <2>3. /\ \A q, r, s : IsCreate(q, r, s)' = IsCreate(q, r, s)
        /\ \A ks, r, s : Events(ks, r, s)' = Events(ks, r, s)
    BY <2>2, <1>2 DEF IsCreate, Events
  <2>4. Events({k}, first, first - 1) = {} /\ Range(<<>>) = {} /\ Ascending(<<>>)
    BY <1>3, <1>5 DEF Events, Range, Ascending
  <2>5. latest = ModRevision(k, at)
    BY DEF latest
  <2> HIDE DEF c
  <2>6. call'[h].key \in Keys /\ call'[h].at \in 1..Now' /\ call'[h].latest # 0
    BY <2>1, <2>2, <1>2, <1>3
  <2>7. call'[h].latest = ModRevision(call[h].key, call[h].at)'
    BY <2>1, <2>2, <2>5
  <2>8. Ascending(call[h].revs)'
    BY <2>1, <2>4 DEF Ascending
  <2>9. PICK f : f = first
    OBVIOUS
  <2>10. /\ f \in 1..call'[h].at /\ f <= call'[h].next
         /\ IsCreate(call[h].key, call[h].at, f)'
         /\ Range(call'[h].revs) = Events({call[h].key}, f, call[h].next - 1)'
    <3>1. f \in 1..call'[h].at /\ f <= call'[h].next
      BY <2>1, <2>9, <1>3, <1>5
    <3>2. IsCreate(call[h].key, call[h].at, f)'
      BY <2>1, <2>3, <2>9, <1>5
    <3>3. Range(call'[h].revs) = Events({call[h].key}, f, call[h].next - 1)'
      <4>1. Events({k}, f, f - 1) = {} /\ call'[h].next - 1 = f - 1
        BY <2>1, <2>4, <2>9
      <4> QED BY <4>1, <2>1, <2>3, <2>4
    <3> QED BY <3>1, <3>2, <3>3
  <2>11. call'[h].next <= call'[h].latest
    BY <2>1, <1>6
  <2> QED BY <2>1, <2>6, <2>7, <2>8, <2>10, <2>11 DEF HistoryOK
<1> QED BY <1>2, <1>7, <1>8, HistoryStep

LEMMA RecordRead ==
  ASSUME NEW old \in [state : {"none", "reading", "done", "failed", "cut"},
                     key : Keys \cup {Unset}, at : Nat, next : Nat, latest : Nat,
                     revs : Seq(Nat \ {0})],
         NEW n \in Nat, NEW revs \in Seq(Nat \ {0}),
         NEW state \in {"none", "reading", "done", "failed", "cut"},
         NEW c, c = [old EXCEPT !.next = n, !.revs = revs, !.state = state]
  PROVE  /\ c.state = state /\ c.key = old.key /\ c.at = old.at /\ c.next = n
         /\ c.latest = old.latest /\ c.revs = revs
         /\ c \in [state : {"none", "reading", "done", "failed", "cut"},
                   key : Keys \cup {Unset}, at : Nat, next : Nat, latest : Nat,
                   revs : Seq(Nat \ {0})]
OBVIOUS

LEMMA HistoryReadStep ==
  ASSUME Inductive, NEW h \in Calls, HistoryRead(h)
  PROVE  Inductive'
<1> DEFINE old == call[h]
           k == old.key
           r == old.next
           put == writes[r].key = k /\ ~writes[r].delete
           revs == IF put THEN Append(old.revs, r) ELSE old.revs
           state == IF put /\ r = old.latest THEN "done" ELSE "reading"
           c == [old EXCEPT !.next = r + 1, !.revs = revs, !.state = state]
<1>1. /\ TypeOK /\ WritesOK /\ Dated /\ Now \in Nat /\ HistoryOK(h)
      /\ old \in [state : {"none", "reading", "done", "failed", "cut"},
                  key : Keys \cup {Unset}, at : Nat, next : Nat, latest : Nat,
                  revs : Seq(Nat \ {0})]
  BY CallFacts
<1>2. /\ old.state = "reading" /\ r <= Now
      /\ call' = [call EXCEPT ![h].next = r + 1, ![h].revs = revs, ![h].state = state]
      /\ UNCHANGED <<writes, watching, cancelled>>
  BY DEF HistoryRead, IsLast
<1>3. call' = [call EXCEPT ![h] = c] /\ call'[h] = c
  BY <1>1, <1>2 DEF TypeOK
<1>4. /\ k \in Keys /\ old.at \in 1..Now /\ old.latest = ModRevision(k, old.at)
      /\ old.latest # 0 /\ Ascending(old.revs) /\ r <= old.latest /\ r \in Nat
  BY <1>1, <1>2 DEF HistoryOK
<1>5. PICK first \in 1..old.at :
        /\ IsCreate(k, old.at, first) /\ first <= r
        /\ Range(old.revs) = Events({k}, first, r - 1)
  BY <1>1, <1>2 DEF HistoryOK
<1>6. /\ old.latest \in 1..old.at /\ writes[old.latest].key = k
      /\ ~writes[old.latest].delete
  <2>1. old.at \in 0..Now
    BY <1>1, <1>4
  <2>2. old.latest \in 0..old.at
    BY <2>1, <1>1, <1>4 DEF Dated
  <2>3. /\ writes[ModRevision(k, old.at)].key = k
        /\ ~writes[ModRevision(k, old.at)].delete
    <3>1. ModRevision(k, old.at) # 0
      BY <1>4
    <3> HIDE DEF k, old
    <3> QED BY <1>1, <1>4, <2>1, <3>1 DEF Dated
  <2>4. old.latest \in 1..old.at
    <3> HIDE DEF k, old
    <3> QED BY <2>1, <2>2, <1>1, <1>4
  <2> QED BY <2>3, <2>4, <1>4
<1>7. r \in first..old.at /\ r \in 1..Now
  BY <1>1, <1>4, <1>5, <1>6
<1>8. put <=> writes[r].key = k
  <2>1. ModRevision(k, r) # 0
    BY <1>5, <1>7 DEF IsCreate
  <2>2. writes[r].key = k => ModRevision(k, r) = IF writes[r].delete THEN 0 ELSE r
    <3> HIDE DEF k, r
    <3> QED BY <1>1, <1>4, <1>7 DEF Dated
  <2>3. writes[r].key = k => ~writes[r].delete
    <3> HIDE DEF k, r
    <3> QED BY <2>1, <2>2
  <2> QED BY <2>3
<1>9. /\ revs \in Seq(Nat \ {0}) /\ Ascending(revs)
      /\ Range(revs) = Events({k}, first, r)
  <2>1. \A s : s \in first..r <=> s \in first..r - 1 \/ s = r
    BY <1>4, <1>7
  <2>2. CASE put
    <3>1. \A s \in Range(old.revs) : s < r
      BY <1>4, <1>5 DEF Events
    <3>2. /\ revs \in Seq(Nat \ {0}) /\ Ascending(revs)
          /\ Range(revs) = Range(old.revs) \cup {r}
      <4>1. old.revs \in Seq(Nat \ {0}) /\ r \in Nat \ {0} /\ revs = Append(old.revs, r)
        BY <2>2, <1>1, <1>7
      <4> QED BY <4>1, <3>1, <1>4, AppendAscending
    <3> HIDE DEF revs
    <3> QED BY <2>1, <2>2, <3>2, <1>5, <1>8 DEF Events
  <2>3. CASE ~put
    <3>1. revs = old.revs /\ revs \in Seq(Nat \ {0})
      BY <2>3, <1>1
    <3> HIDE DEF revs
    <3> QED BY <2>1, <2>3, <3>1, <1>4, <1>5, <1>8 DEF Events
  <2> QED BY <2>2, <2>3
<1>10. IF state = "reading" THEN r + 1 <= old.latest ELSE r + 1 = old.latest + 1
  BY <1>2, <1>4, <1>6, <1>8
<1>11. state \in {"reading", "done"}
  OBVIOUS
<1> HIDE DEF revs, state, put
<1>12. /\ c.state = state /\ c.key = k /\ c.at = old.at /\ c.next = r + 1
       /\ c.latest = old.latest /\ c.revs = revs
       /\ c \in [state : {"none", "reading", "done", "failed", "cut"},
                 key : Keys \cup {Unset}, at : Nat, next : Nat, latest : Nat,
                 revs : Seq(Nat \ {0})]
  <2>1. r + 1 \in Nat /\ state \in {"none", "reading", "done", "failed", "cut"}
    BY <1>4, <1>11
  <2> HIDE DEF old, k, r
  <2>2. /\ c.state = state /\ c.key = old.key /\ c.at = old.at /\ c.next = r + 1
        /\ c.latest = old.latest /\ c.revs = revs
        /\ c \in [state : {"none", "reading", "done", "failed", "cut"},
                  key : Keys \cup {Unset}, at : Nat, next : Nat, latest : Nat,
                  revs : Seq(Nat \ {0})]
    BY <2>1, <1>1, <1>9, RecordRead
  <2> QED BY <2>2 DEF k
<1>13. HistoryOK(h)'
  <2>1. /\ Now' = Now /\ \A q, s : ModRevision(q, s)' = ModRevision(q, s)
    BY <1>2, UnwrittenFacts
  <2>2. /\ \A q, s, t : IsCreate(q, s, t)' = IsCreate(q, s, t)
        /\ \A ks, s, t : Events(ks, s, t)' = Events(ks, s, t)
    BY <2>1, <1>2 DEF IsCreate, Events
  <2>3. /\ call'[h].state = state /\ call'[h].key = k /\ call'[h].at = old.at
        /\ call'[h].next = r + 1 /\ call'[h].latest = old.latest /\ call'[h].revs = revs
    BY <1>3, <1>12
  <2> HIDE DEF c, old, k, r
  <2>4. /\ call'[h].key \in Keys /\ call'[h].at \in 1..Now' /\ call'[h].latest # 0
        /\ call'[h].latest = ModRevision(call[h].key, call[h].at)'
    BY <2>1, <2>3, <1>4
  <2>5. Ascending(call[h].revs)'
    BY <2>3, <1>9 DEF Ascending
  <2>6. /\ first \in 1..call'[h].at /\ first <= call'[h].next
        /\ IsCreate(call[h].key, call[h].at, first)'
        /\ Range(call'[h].revs) = Events({call[h].key}, first, call[h].next - 1)'
    <3>1. call'[h].next - 1 = r /\ first <= r + 1
      BY <2>3, <1>4, <1>5
    <3> QED BY <3>1, <2>2, <2>3, <1>5, <1>9
  <2>7. IF call'[h].state = "reading" THEN call'[h].next <= call'[h].latest
        ELSE call'[h].next = call'[h].latest + 1
    BY <2>3, <1>10
  <2> QED BY <2>4, <2>5, <2>6, <2>7 DEF HistoryOK
<1> QED BY <1>2, <1>3, <1>12, <1>13, HistoryStep

LEMMA HistoryCutStep ==
  ASSUME Inductive, NEW h \in Calls, HistoryCut(h)
  PROVE  Inductive'
<1>1. PICK s \in {"failed", "cut"} : call' = [call EXCEPT ![h].state = s]
  BY DEF HistoryCut
<1> DEFINE c == [call[h] EXCEPT !.state = s]
<1>2. call[h] \in [state : {"none", "reading", "done", "failed", "cut"},
                  key : Keys \cup {Unset}, at : Nat, next : Nat, latest : Nat,
                  revs : Seq(Nat \ {0})]
  BY DEF Inductive, TypeOK
<1>3. /\ c.state = s
      /\ c \in [state : {"none", "reading", "done", "failed", "cut"},
                key : Keys \cup {Unset}, at : Nat, next : Nat, latest : Nat,
                revs : Seq(Nat \ {0})]
  BY <1>2
<1>4. call' = [call EXCEPT ![h] = c] /\ call'[h] = c
  BY <1>1 DEF Inductive, TypeOK
<1>5. HistoryOK(h)'
  BY <1>3, <1>4 DEF HistoryOK
<1> QED BY <1>3, <1>4, <1>5, HistoryStep DEF HistoryCut

-----------------------------------------------------------------------------
(* All steps.                                                               *)

LEMMA StutterStep ==
  ASSUME Inductive, UNCHANGED <<writes, watching, call>>, cancelled' \subseteq Cancellable
  PROVE  Inductive'
<1>1. UNCHANGED <<writes, watch, next, batch, channel, view, call>>
  BY DEF watching
<1>2. TypeOK'
  BY <1>1 DEF Inductive, TypeOK
<1>3. ASSUME NEW w \in Calls PROVE CallOK(w)'
  BY <1>1, CallKept DEF Inductive, CallOK
<1> QED BY <1>2, <1>3 DEF Inductive, CallOK

LEMMA NextInductive == Inductive /\ [Next]_vars => Inductive'
<1> SUFFICES ASSUME Inductive, [Next]_vars PROVE Inductive'
  OBVIOUS
<1>1. ASSUME NEW k \in Keys, NEW rev \in Revisions, Put(k, rev) PROVE Inductive'
  BY <1>1, WriteStep DEF Put
<1>2. ASSUME NEW k \in Keys, NEW rev \in Revisions, Delete(k, rev) PROVE Inductive'
  BY <1>2, WriteStep DEF Delete
<1>3. ASSUME NEW c \in Cancellable, Cancel(c) PROVE Inductive'
  BY <1>3, StutterStep DEF Cancel, Inductive, TypeOK
<1>4. CASE UNCHANGED vars
  BY <1>4, StutterStep DEF vars, Inductive, TypeOK
<1>5. CASE SystemStep
  BY <1>5, WatchOpenStep, TakeStep, SendStep, ReturnStep, ReceiveStep, HistoryReadStep,
     HistoryCutStep DEF SystemStep
<1> QED BY <1>1, <1>2, <1>3, <1>4, <1>5, WatchGetStep, HistoryGetStep DEF Next

\* The inductive invariant holds in every reachable state.
LEMMA InductiveInvariant == Spec => []Inductive
BY InitInductive, NextInductive, PTL DEF Spec

-----------------------------------------------------------------------------
(* Theorems.                                                                *)

\* Every variable has its type and no channel exceeds its capacity.
THEOREM TypeCorrect == Spec => []TypeOK
<1>1. Inductive => TypeOK
  BY DEF Inductive
<1> QED BY <1>1, InductiveInvariant, PTL

\* What the caller of an open watch knows, brought up to date with the events
\* on their way, is the present state of every key it watches: the first
\* revision that Watch found in one request and uses in another misses
\* nothing, whatever is written, deleted and created in between.
THEOREM RebuildsStateCorrect == Spec => []RebuildsState
<1>1. ASSUME Inductive PROVE RebuildsState
  <2> SUFFICES ASSUME NEW w \in Calls, watch[w].state = "open", Grounded(w),
                      NEW k \in watch[w].keys
               PROVE  LET coming == {r \in Range(channel[w]) \cup batch[w] \cup next[w]..Now :
                                       writes[r].key = k}
                      IN ModRevision(k, Now) =
                           IF coming = {} THEN view[w][k]
                           ELSE IF writes[Max(coming)].delete THEN 0 ELSE Max(coming)
    BY <1>1 DEF RebuildsState, Inductive, StreamOK
  <2>1. /\ TypeOK /\ WritesOK /\ Dated /\ Now \in Nat /\ StreamOK(w) /\ k \in Keys
        /\ next[w] \in Nat /\ Suffices(k, view[w][k], First(w))
    <3>1. /\ TypeOK /\ WritesOK /\ Now \in Nat /\ next[w] \in Nat /\ k \in Keys
      BY <1>1, CallFacts
    <3>2. StreamOK(w) /\ Suffices(k, view[w][k], First(w))
      BY <1>1, CallFacts DEF KnownOK
    <3> QED BY <3>1, <3>2, DatedAlways
  <2>2. First(w) \in Nat \ {0} /\ First(w) <= next[w] /\ next[w] <= Now + 1
    BY <2>1, FirstFacts DEF StreamOK
  <2> DEFINE coming == {r \in Range(channel[w]) \cup batch[w] \cup next[w]..Now :
                          writes[r].key = k}
  <2>3. coming = {r \in First(w)..Now : writes[r].key = k}
    <3>1. Range(channel[w]) \cup batch[w] = Events(watch[w].keys, First(w), next[w] - 1)
      BY <2>1 DEF StreamOK
    <3>2. \A r : r \in First(w)..Now <=> r \in First(w)..next[w] - 1 \/ r \in next[w]..Now
      BY <2>1, <2>2
    <3> QED BY <3>1, <3>2 DEF Events
  <2> HIDE DEF coming
  <2>4. CASE coming = {}
    <3>1. /\ First(w) - 1 \in 0..Now /\ Now \in 0..Now /\ First(w) - 1 <= Now
          /\ (First(w) - 1) + 1 = First(w)
      BY <2>1, <2>2
    <3>2. \A r \in First(w)..Now : writes[r].key # k
      BY <2>3, <2>4
    <3>3. ModRevision(k, Now) = ModRevision(k, First(w) - 1)
      BY <3>1, <3>2, <2>1 DEF Dated
    <3>4. view[w][k] = ModRevision(k, First(w) - 1)
      BY <3>2, <2>1 DEF Suffices
    <3> QED BY <3>3, <3>4, <2>4 DEF coming
  <2>5. CASE coming # {}
    <3>1. coming \subseteq 0..Now
      BY <2>1, <2>2, <2>3
    <3>2. Max(coming) \in coming /\ \A r \in coming : r <= Max(coming)
      BY <3>1, <2>1, <2>5, MaxFacts
    <3> DEFINE m == Max(coming)
    <3>3. m \in First(w)..Now /\ m \in 1..Now /\ writes[m].key = k
      BY <3>2, <2>1, <2>2, <2>3
    <3>4. ModRevision(k, m) = IF writes[m].delete THEN 0 ELSE m
      <4> HIDE DEF m
      <4> QED BY <3>3, <2>1 DEF Dated
    <3>5. \A r \in m + 1..Now : writes[r].key # k
      <4>1. \A r \in m + 1..Now : r \in First(w)..Now /\ ~(r <= m)
        BY <3>3, <2>1, <2>2
      <4> QED BY <4>1, <3>2, <2>3
    <3>6. ModRevision(k, Now) = ModRevision(k, m)
      <4>1. m \in 0..Now /\ Now \in 0..Now /\ m <= Now
        BY <3>3, <2>1
      <4> HIDE DEF m
      <4> QED BY <4>1, <3>5, <2>1 DEF Dated
    <3> QED BY <3>4, <3>6, <2>5 DEF coming
  <2> QED BY <2>4, <2>5
<1> QED BY <1>1, InductiveInvariant, PTL

\* A History that returns by itself has all revisions of the key from its most
\* recent creation to the last one at the revision asked for, in order and no
\* others, whatever is written and deleted between its two requests and while
\* it reads.
THEOREM HistoryIsRunCorrect == Spec => []HistoryIsRun
<1>1. ASSUME Inductive PROVE HistoryIsRun
  <2> SUFFICES ASSUME NEW h \in Calls, call[h].state = "done"
               PROVE  LET k   == call[h].key
                          run == {r \in 1..call[h].at :
                                    /\ writes[r].key = k
                                    /\ \A s \in r..call[h].at : ModRevision(k, s) # 0}
                      IN Ascending(call[h].revs) /\ Range(call[h].revs) = run
    BY DEF HistoryIsRun
  <2> DEFINE k == call[h].key
             at == call[h].at
             latest == call[h].latest
             run == {r \in 1..at : /\ writes[r].key = k
                                   /\ \A s \in r..at : ModRevision(k, s) # 0}
  <2>1. Now \in Nat /\ Dated /\ HistoryOK(h)
    BY <1>1, CallFacts
  <2>2. /\ k \in Keys /\ at \in 1..Now /\ latest = ModRevision(k, at) /\ latest # 0
        /\ Ascending(call[h].revs) /\ call[h].next = latest + 1
    BY <2>1 DEF HistoryOK
  <2>3. PICK first \in 1..at : /\ IsCreate(k, at, first)
                               /\ Range(call[h].revs) = Events({k}, first, call[h].next - 1)
    BY <2>1 DEF HistoryOK
  <2> HIDE DEF k, at, latest
  <2>4. /\ latest \in 1..at
        /\ \A r \in 1..at : writes[r].key = k => r <= latest
    <3>1. at \in 0..Now
      BY <2>1, <2>2
    <3>2. latest \in 0..at
      BY <3>1, <2>1, <2>2 DEF Dated
    <3> QED BY <3>1, <3>2, <2>1, <2>2 DEF Dated
  <2>5. ModRevision(k, first - 1) = 0 /\ \A s \in first..at : ModRevision(k, s) # 0
    BY <2>3 DEF IsCreate
  <2>6. Range(call[h].revs) = {r \in first..latest : writes[r].key = k}
    <3>1. call[h].next - 1 = latest
      BY <2>2, <2>4
    <3> QED BY <3>1, <2>3 DEF Events
  <2>7. ASSUME NEW r \in first..latest, writes[r].key = k PROVE r \in run
    <3>1. r \in 1..at /\ \A s \in r..at : s \in first..at
      BY <2>2, <2>3, <2>4
    <3> QED BY <3>1, <2>5, <2>7
  <2>8. ASSUME NEW r \in run PROVE r \in first..latest /\ writes[r].key = k
    <3>1. ~(r < first)
      <4>1. SUFFICES ASSUME r < first PROVE FALSE
        OBVIOUS
      <4>2. first - 1 \in r..at
        BY <4>1, <2>2, <2>3
      <4> QED BY <4>2, <2>5
    <3> QED BY <3>1, <2>2, <2>3, <2>4
  <2>9. Range(call[h].revs) = run
    BY <2>6, <2>7, <2>8
  <2> QED BY <2>2, <2>9 DEF k, at
<1> QED BY <1>1, InductiveInvariant, PTL
=============================================================================
