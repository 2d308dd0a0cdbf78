-------------------------- MODULE ValueStore_proofs --------------------------
(***************************************************************************)
(* Proofs about ValueStore for every number of writers, watches and        *)
(* writes and every size of the ring and of the channels: its invariants,  *)
(* its refinement of WatchLog, and what its reads return.                  *)
(***************************************************************************)
EXTENDS ValueStore, TLAPS, WellFoundedInduction, SequenceTheorems

-----------------------------------------------------------------------------
(* Lemmas about the operators.                                              *)

\* A non-empty set of naturals has a least element, which Least chooses.
LEMMA LeastProperty ==
  ASSUME NEW S, S \subseteq Nat, S # {}
  PROVE  Least(S) \in S /\ \A j \in S : Least(S) <= j
<1>1. \E i \in S : \A j \in S : ~ (<<j, i>> \in OpToRel(<, Nat))
  BY NatLessThanWellFounded, WFMin, Zenon
<1>2. \A i, j \in Nat : j < i => <<j, i>> \in OpToRel(<, Nat)
  BY DEF OpToRel
<1>3. \E i \in S : \A j \in S : ~(j < i)
  BY <1>1, <1>2, Zenon
<1>4. \E i \in S : \A j \in S : i <= j
  BY <1>3
<1>5. QED BY <1>4 DEF Least

\* Taking an event from a channel and putting one into a channel.
LEMMA TailFacts ==
  ASSUME NEW s \in Seq(Event), s # <<>>
  PROVE  /\ Len(s) \in Nat /\ Len(s) > 0 /\ Head(s) = s[1] /\ Head(s) \in Event
         /\ Tail(s) \in Seq(Event) /\ Len(Tail(s)) = Len(s) - 1
         /\ \A k \in 1..Len(Tail(s)) : Tail(s)[k] = s[k + 1]
BY HeadTailProperties

\* Putting an event at the end of a channel.
LEMMA AppendFacts ==
  ASSUME NEW s \in Seq(Event), NEW e \in Event
  PROVE  /\ Append(s, e) \in Seq(Event) /\ Len(Append(s, e)) = Len(s) + 1
         /\ \A k \in 1..Len(s) : Append(s, e)[k] = s[k]
         /\ Append(s, e)[Len(s) + 1] = e
OBVIOUS

\* An index into a concatenation that lies in its second part.
LEMMA ShiftIndex ==
  ASSUME NEW a \in Nat, NEW b \in Nat, NEW k \in 1..a + b, k > a
  PROVE  k - a \in 1..b
OBVIOUS

\* Where a walk back stops: at the first slot that is empty or holds the
\* revision, or at the oldest slot if there is no such slot before it.
Stops(rev, i) ==
  \/ IsNil(values[i])
  \/ ~values[i].deleted /\ values[i].revision = rev

LEMMA WalkBackStops ==
  ASSUME NEW rev
  PROVE  /\ WalkBack(rev) \in Slots
         /\ WalkBack(rev) # RingSize - 1 => Stops(rev, WalkBack(rev))
         /\ \A i \in 0..RingSize - 2 : Stops(rev, i) => WalkBack(rev) <= i
<1> DEFINE hits == {i \in 0..RingSize - 2 : Stops(rev, i)}
<1>1. WalkBack(rev) = IF hits = {} THEN RingSize - 1 ELSE Least(hits)
  BY DEF WalkBack, Stops
<1>2. hits \subseteq Nat OBVIOUS
<1>3. CASE hits = {}
  <2>1. WalkBack(rev) = RingSize - 1 BY <1>1, <1>3
  <2>2. QED BY <2>1, <1>3, SizesAssumption DEF Slots
<1>4. CASE hits # {}
  <2> HIDE DEF hits
  <2>1. WalkBack(rev) \in hits /\ \A j \in hits : WalkBack(rev) <= j
    BY <1>1, <1>2, <1>4, LeastProperty
  <2>2. QED BY <2>1, SizesAssumption DEF hits, Slots
<1>5. QED BY <1>3, <1>4

\* Appending to the log changes no earlier event.
LEMMA EventAtAppend ==
  ASSUME NEW l \in Seq({"Put", "Delete"}), NEW k \in {"Put", "Delete"},
         NEW r \in 1..Len(l)
  PROVE  L!EventAt(Append(l, k), r) = L!EventAt(l, r)
BY DEF L!EventAt, L!LiveAt

\* The events of the log are events.
LEMMA EventAtType ==
  ASSUME NEW l \in Seq({"Put", "Delete"}), NEW r \in 1..Len(l)
  PROVE  L!EventAt(l, r) \in Event
BY DEF L!EventAt, L!LiveAt, Event

\* The event made from a slot of the ring is the event of its revision.
LEMMA SlotEventOfLog ==
  ASSUME TypeOK, RingHoldsLog, DeletesFollowPuts,
         NEW i \in 0..RingSize - 2, ~IsNil(values[i])
  PROVE  revision - i \in 1..revision /\ SlotEvent(i) = L!EventAt(log, revision - i)
<1>1. i \in Slots /\ i + 1 \in Slots BY SizesAssumption DEF Slots
<1>2. revision \in Nat /\ revision = Len(log) BY DEF TypeOK, RingHoldsLog
<1>3. i < revision BY <1>1, <1>2 DEF RingHoldsLog, IsNil, NilElement
<1>4. values[i].revision = revision - i /\ (values[i].deleted <=> log[revision - i] = "Delete")
  BY <1>1, <1>3 DEF RingHoldsLog
<1>5. log[revision - i] \in {"Put", "Delete"}
  BY <1>2, <1>3 DEF TypeOK
<1>6. LiveRevision(values[i + 1]) = IF L!LiveAt(log, revision - i - 1) THEN revision - i - 1 ELSE 0
  <2>1. CASE i + 1 < revision
    <3>1. /\ values[i + 1].revision = revision - (i + 1)
          /\ values[i + 1].deleted <=> log[revision - (i + 1)] = "Delete"
      BY <1>1, <2>1 DEF RingHoldsLog
    <3>2. log[revision - (i + 1)] \in {"Put", "Delete"} BY <1>2, <2>1 DEF TypeOK
    <3>3. revision - (i + 1) = revision - i - 1 BY <1>2
    <3>4. revision - i - 1 \in 1..Len(log) BY <1>2, <2>1
    <3>5. QED BY <3>1, <3>2, <3>3, <3>4 DEF LiveRevision, L!LiveAt
  <2>2. CASE ~(i + 1 < revision)
    <3>1. values[i + 1] = NilElement BY <1>1, <2>2 DEF RingHoldsLog
    <3>2. revision - i - 1 = 0 BY <1>2, <1>3, <2>2
    <3>3. QED BY <3>1, <3>2 DEF LiveRevision, NilElement, L!LiveAt
  <2>3. QED BY <2>1, <2>2
<1>7. QED BY <1>2, <1>3, <1>4, <1>5, <1>6 DEF SlotEvent, LiveRevision, L!EventAt

\* What Watch replays: the last n events of the log, in order, for some n
\* that fits in the channel; if there are any, the first is of a value.
LEMMA ReplayOfLog ==
  ASSUME TypeOK, RingHoldsLog, DeletesFollowPuts,
         NEW rev \in Revisions, ~WatchNotFound(rev)
  PROVE  \E n \in 0..revision :
           /\ n <= UpdateCap
           /\ Len(Replay(rev)) = n
           /\ Replay(rev) \in Seq(Event)
           /\ \A k \in 1..n : Replay(rev)[k] = L!EventAt(log, revision + 1 - n + k - 1)
           /\ n > 0 => L!LiveAt(log, revision + 1 - n)
<1> DEFINE from == WatchFrom(rev)
<1>1. from \in Slots
  BY WalkBackStops, SizesAssumption DEF WatchFrom, Slots
<1>2. revision \in Nat /\ revision = Len(log) BY DEF TypeOK, RingHoldsLog
<1>3. CASE Replay(rev) = <<>>
  <2>1. Len(Replay(rev)) = 0 /\ Replay(rev) \in Seq(Event) BY <1>3
  <2>2. QED BY <2>1, <1>2, SizesAssumption
<1>4. CASE Replay(rev) # <<>>
  <2>1. /\ from # RingSize - 1
        /\ ~(rev = 0 /\ (IsNil(values[0]) \/ values[0].deleted))
        /\ Replay(rev) = [k \in 1..from + 1 |-> SlotEvent(from + 1 - k)]
    BY <1>4 DEF Replay
  <2>2. from \in 0..RingSize - 2 BY <1>1, <2>1, SizesAssumption DEF Slots
  <2>3. ~IsNil(values[from]) /\ ~values[from].deleted
    <3>1. rev # Unset BY <2>1 DEF WatchFrom
    <3>2. rev \in Nat BY <3>1, SizesAssumption DEF Revisions
    <3>3. CASE rev = 0 BY <2>1, <3>1, <3>3 DEF WatchFrom
    <3>4. CASE rev > 0
      <4>1. from = WalkBack(rev) BY <3>1, <3>4 DEF WatchFrom
      <4>2. Stops(rev, from) BY <2>1, <4>1, WalkBackStops
      <4>3. ~IsNil(values[from])
        BY <2>2, <3>1, <3>4, <4>1, SizesAssumption DEF WatchNotFound, WalkFails
      <4>4. QED BY <4>2, <4>3 DEF Stops
    <3>5. QED BY <3>2, <3>3, <3>4
  <2>4. from < revision
    BY <2>2, <2>3, <1>1, <1>2 DEF RingHoldsLog, IsNil, NilElement
  <2>5. \A k \in 1..from + 1 : SlotEvent(from + 1 - k) = L!EventAt(log, revision + 1 - (from + 1) + k - 1)
    <3>1. SUFFICES ASSUME NEW k \in 1..from + 1
                   PROVE  SlotEvent(from + 1 - k) = L!EventAt(log, revision + 1 - (from + 1) + k - 1)
      OBVIOUS
    <3>2. from + 1 - k \in 0..RingSize - 2 /\ from + 1 - k \in Slots /\ from + 1 - k < revision
      BY <2>2, <2>4, <1>2, SizesAssumption DEF Slots
    <3>3. ~IsNil(values[from + 1 - k])
      BY <3>2, <1>2 DEF RingHoldsLog, IsNil, NilElement
    <3>4. SlotEvent(from + 1 - k) = L!EventAt(log, revision - (from + 1 - k))
      BY <3>2, <3>3, SlotEventOfLog
    <3>5. revision - (from + 1 - k) = revision + 1 - (from + 1) + k - 1 BY <2>2, <1>2
    <3>6. QED BY <3>4, <3>5
  <2>6. \A k \in 1..from + 1 : SlotEvent(from + 1 - k) \in Event
    <3>1. SUFFICES ASSUME NEW k \in 1..from + 1 PROVE SlotEvent(from + 1 - k) \in Event
      OBVIOUS
    <3>2. revision + 1 - (from + 1) + k - 1 \in 1..Len(log) BY <2>2, <2>4, <1>2
    <3>3. log \in Seq({"Put", "Delete"}) BY DEF TypeOK
    <3>4. QED BY <2>5, <3>2, <3>3, EventAtType
  <2>14. L!LiveAt(log, revision + 1 - (from + 1))
    <3>1. values[from].deleted <=> log[revision - from] = "Delete"
      BY <1>1, <2>4 DEF RingHoldsLog
    <3>2. revision - from \in 1..Len(log) /\ revision + 1 - (from + 1) = revision - from
      BY <2>2, <2>4, <1>2
    <3>3. log[revision - from] \in {"Put", "Delete"} BY <3>2 DEF TypeOK
    <3>4. QED BY <2>3, <3>1, <3>2, <3>3 DEF L!LiveAt
  <2>7. from + 1 \in Nat /\ from + 1 <= revision /\ from + 1 <= UpdateCap
    BY <2>2, <2>4, <1>2, SizesAssumption
  <2> HIDE DEF from
  <2>8. Replay(rev) = [k \in 1..from + 1 |-> SlotEvent(from + 1 - k)] BY <2>1
  <2>9. Replay(rev) \in [1..from + 1 -> Event] BY <2>6, <2>8
  <2>10. Replay(rev) \in Seq(Event) /\ Len(Replay(rev)) = from + 1 BY <2>7, <2>9
  <2>11. \A k \in 1..from + 1 : Replay(rev)[k] = L!EventAt(log, revision + 1 - (from + 1) + k - 1)
    BY <2>5, <2>8
  <2>12. from + 1 \in 0..revision BY <2>7, <1>2
  <2> WITNESS from + 1 \in 0..revision
  <2>13. QED BY <2>7, <2>10, <2>11, <2>14
<1>5. QED BY <1>3, <1>4

-----------------------------------------------------------------------------
(* The inductive invariant: it holds initially, and every action keeps it.  *)

\* A new store has an empty log, no watches and nothing in flight.
LEMMA InitInductive == Init => Inductive
<1> SUFFICES ASSUME Init PROVE Inductive
  OBVIOUS
<1>1. TypeOK
  BY SizesAssumption
  DEF Init, TypeOK, Slots, NilElement, Element, Event, NoEvent, GoroutineStates
<1>2. RingHoldsLog /\ DeletesFollowPuts
  BY SizesAssumption DEF Init, RingHoldsLog, DeletesFollowPuts, NilElement, Slots
<1>3. LockExcludes /\ ListenersRegistered /\ EventIsNewest
  BY DEF Init, LockExcludes, ListenersRegistered, EventIsNewest
<1>4. GapsEndWatches /\ UpdateCFollowsLog /\ BufferFollowsLog /\ WatchesKeepUp
  BY DEF Init, EndPosition, GapsEndWatches, UpdateCFollowsLog, BufferFollowsLog, WatchesKeepUp
<1>5. QED BY <1>1, <1>2, <1>3, <1>4 DEF Inductive

\* Lock only moves a writer to the lock.
LEMMA LockStep ==
  ASSUME Inductive, NEW w \in Writers, Lock(w)
  PROVE  Inductive'
<1> USE DEF Inductive, Lock, store, writer, history
<1>1. TypeOK' BY DEF TypeOK
<1>2. RingHoldsLog' /\ DeletesFollowPuts'
  BY DEF RingHoldsLog, DeletesFollowPuts, L!LiveAt
<1>3. LockExcludes' BY DEF LockExcludes, NoWriter, Readers, TypeOK
<1>4. ListenersRegistered' /\ EventIsNewest'
  BY DEF ListenersRegistered, EventIsNewest, NoWriter, TypeOK, L!EventAt, L!LiveAt
<1>5. GapsEndWatches' BY DEF GapsEndWatches, EndPosition
<1>6. UpdateCFollowsLog' /\ BufferFollowsLog'
  BY DEF UpdateCFollowsLog, BufferFollowsLog, Follows, L!RevisionAt, L!EventAt, L!LiveAt
<1>7. WatchesKeepUp' BY DEF WatchesKeepUp, Accepted, EndPosition
<1>8. QED BY <1>1, <1>2, <1>3, <1>4, <1>5, <1>6, <1>7

\* A write advances the ring and the log together; every registered watch
\* becomes one that has still to be notified.
LEMMA CommitStep ==
  ASSUME Inductive, NEW w \in Writers, HasLock(w),
         NEW kind \in {"Put", "Delete"}, NEW deleted \in BOOLEAN, NEW ev \in Event,
         Commit(w, kind, deleted, ev), deleted <=> kind = "Delete",
         kind = "Delete" => L!LiveAt(log, revision),
         ev = L!EventAt(Append(log, kind), revision + 1),
         UNCHANGED <<buffer, updateC, cancelled, history>>
  PROVE  Inductive'
<1> USE DEF Inductive, Commit, Advance, HasLock, history
<1>a. /\ revision \in Nat /\ revision = Len(log)
      /\ log \in Seq({"Put", "Delete"}) /\ log' \in Seq({"Put", "Delete"})
      /\ Len(log') = revision + 1 /\ revision' = revision + 1
      /\ \A r \in 1..revision : log'[r] = log[r]
      /\ log'[revision + 1] = kind
  BY DEF TypeOK, RingHoldsLog
<1>b. \A r \in 1..revision : L!EventAt(log, r)' = L!EventAt(log, r)
  BY <1>a, EventAtAppend
<1>1. TypeOK'
  <2>1. values' \in [Slots -> Element]
    BY <1>a, SizesAssumption DEF TypeOK, Slots, Element
  <2>2. revision' \in 0..MaxRevision BY <1>a, SizesAssumption
  <2>3. QED BY <2>1, <2>2, <1>a DEF TypeOK
<1>2. RingHoldsLog'
  <2> SUFFICES ASSUME NEW i \in Slots
               PROVE  IF i < revision'
                      THEN /\ values'[i].revision = revision' - i
                           /\ values'[i].deleted <=> log'[revision' - i] = "Delete"
                      ELSE values'[i] = NilElement
    BY <1>a DEF RingHoldsLog
  <2>1. CASE i = 0
    <3>1. values'[0] = [revision |-> revision + 1, deleted |-> deleted] BY <2>1
    <3>2. values'[0].revision = revision + 1 BY <3>1
    <3>3. values'[0].deleted <=> kind = "Delete" BY <3>1
    <3>4. 0 < revision' /\ revision' - 0 = revision + 1 BY <1>a
    <3>5. QED BY <3>2, <3>3, <3>4, <2>1, <1>a
  <2>2. CASE i # 0
    <3>1. i - 1 \in Slots BY <2>2, SizesAssumption DEF Slots
    <3>2. values'[i] = values[i - 1] BY <2>2
    <3>3. i \in Nat BY DEF Slots
    <3>4. CASE i < revision'
      <4>1. i - 1 < revision BY <3>4, <3>3, <1>a
      <4>2. /\ values[i - 1].revision = revision - (i - 1)
            /\ values[i - 1].deleted <=> log[revision - (i - 1)] = "Delete"
        BY <4>1, <3>1 DEF RingHoldsLog
      <4>3. revision - (i - 1) = revision' - i /\ revision' - i \in 1..revision
        BY <2>2, <3>3, <3>4, <1>a
      <4>4. QED BY <4>2, <4>3, <3>2, <3>4, <1>a
    <3>5. CASE ~(i < revision')
      <4>1. ~(i - 1 < revision) BY <3>5, <3>3, <1>a
      <4>2. values[i - 1] = NilElement BY <4>1, <3>1 DEF RingHoldsLog
      <4>3. QED BY <4>2, <3>2, <3>5
    <3>6. QED BY <3>4, <3>5
  <2>3. QED BY <2>1, <2>2
<1>3. DeletesFollowPuts'
  BY <1>a DEF DeletesFollowPuts, L!LiveAt
<1>4. LockExcludes' BY DEF LockExcludes, Readers, TypeOK
<1>5. ListenersRegistered' BY DEF ListenersRegistered, TypeOK
<1>6. EventIsNewest' BY <1>a DEF EventIsNewest
<1>7. GapsEndWatches' BY DEF GapsEndWatches, EndPosition
<1>8. UpdateCFollowsLog' /\ BufferFollowsLog'
  BY <1>a, <1>b DEF UpdateCFollowsLog, BufferFollowsLog, Follows
<1>9. WatchesKeepUp'
  <2>1. pending = {}
    BY DEF ListenersRegistered, LockExcludes, TypeOK
  <2>2. QED BY <2>1, <1>a DEF WatchesKeepUp, Accepted, EndPosition
<1>10. QED BY <1>1, <1>2, <1>3, <1>4, <1>5, <1>6, <1>7, <1>8, <1>9

\* Unlock lets the waiting goroutines in, and no writer is left inside.
LEMMA UnlockStep ==
  ASSUME Inductive, NEW w \in Writers, pc[w] # "idle", pending = {}, Unlock(w),
         UNCHANGED <<store, pending, event, buffer, updateC, cancelled, history>>
  PROVE  Inductive'
<1> USE DEF Inductive, Unlock, Admit, store, history
<1>a. \A v \in Writers : pc'[v] = "idle" BY DEF LockExcludes, TypeOK
<1>1. TypeOK' BY DEF TypeOK, GoroutineStates
<1>2. RingHoldsLog' /\ DeletesFollowPuts'
  BY DEF RingHoldsLog, DeletesFollowPuts, L!LiveAt
<1>3. LockExcludes' BY <1>a DEF LockExcludes
<1>4. ListenersRegistered'
  BY DEF ListenersRegistered, Waiting, TypeOK, GoroutineStates
<1>5. EventIsNewest' BY <1>a DEF EventIsNewest
<1>6. GapsEndWatches' BY DEF GapsEndWatches, EndPosition, Waiting
<1>7. UpdateCFollowsLog' /\ BufferFollowsLog'
  BY DEF UpdateCFollowsLog, BufferFollowsLog, Follows, L!RevisionAt, L!EventAt, L!LiveAt
<1>8. WatchesKeepUp' BY DEF WatchesKeepUp, Accepted, EndPosition
<1>9. QED BY <1>1, <1>2, <1>3, <1>4, <1>5, <1>6, <1>7, <1>8

\* No listener is left to call while a writer waits for the lock.
LEMMA NothingPending ==
  ASSUME Inductive, NEW w \in Writers, pc[w] = "lock"
  PROVE  pending = {}
BY DEF Inductive, ListenersRegistered, LockExcludes, TypeOK

\* Put commits the next revision at the ring's head, or is refused and
\* gives the lock back.
LEMMA PutStep ==
  ASSUME Inductive, NEW w \in Writers, NEW rev \in Revisions, Put(w, rev)
  PROVE  Inductive'
<1>1. CASE PutAllowed(rev) /\ Commit(w, "Put", FALSE, PutEvent)
  <2>a. /\ revision \in Nat /\ revision = Len(log) /\ log \in Seq({"Put", "Delete"})
        /\ 0 \in Slots
    BY SizesAssumption DEF Inductive, TypeOK, RingHoldsLog, Slots
  <2>1. LiveRevision(values[0]) = IF L!LiveAt(log, revision) THEN revision ELSE 0
    <3>1. CASE revision = 0
      BY <3>1, <2>a DEF Inductive, RingHoldsLog, NilElement, LiveRevision, L!LiveAt
    <3>2. CASE revision > 0
      <4>1. values[0].revision = revision /\ (values[0].deleted <=> log[revision] = "Delete")
        BY <3>2, <2>a DEF Inductive, RingHoldsLog
      <4>2. log[revision] \in {"Put", "Delete"} BY <3>2, <2>a
      <4>3. QED BY <3>2, <2>a, <4>1, <4>2 DEF LiveRevision, L!LiveAt
    <3>3. QED BY <3>1, <3>2, <2>a
  <2>2. PutEvent = L!EventAt(Append(log, "Put"), revision + 1)
    BY <2>1, <2>a DEF PutEvent, L!EventAt, L!LiveAt
  <2>3. PutEvent \in Event
    BY <2>1, <2>a DEF PutEvent, Event
  <2>4. QED BY <1>1, <2>2, <2>3, CommitStep DEF Put
<1>2. CASE ~PutAllowed(rev) /\ Refuse(w)
  <2>1. pending = {} BY NothingPending DEF Put, HasLock
  <2>2. QED BY <1>2, <2>1, UnlockStep DEF Put, HasLock, Refuse, store, history
<1>3. QED BY <1>1, <1>2 DEF Put

\* Delete commits a deletion of the live value, or is refused.
LEMMA DeleteStep ==
  ASSUME Inductive, NEW w \in Writers, NEW rev \in Revisions, Delete(w, rev)
  PROVE  Inductive'
<1>1. CASE DeleteAllowed(rev) /\ Commit(w, "Delete", TRUE, DeleteEvent)
  <2>a. /\ revision \in Nat /\ revision = Len(log) /\ log \in Seq({"Put", "Delete"})
        /\ 0 \in Slots /\ revision > 0
    BY <1>1, SizesAssumption DEF Inductive, TypeOK, RingHoldsLog, Slots, DeleteAllowed
  <2>1. values[0].revision = revision /\ (values[0].deleted <=> log[revision] = "Delete")
    BY <2>a DEF Inductive, RingHoldsLog
  <2>2. log[revision] \in {"Put", "Delete"} BY <2>a
  <2>3. L!LiveAt(log, revision)
    BY <1>1, <2>a, <2>1, <2>2 DEF DeleteAllowed, L!LiveAt
  <2>4. DeleteEvent = L!EventAt(Append(log, "Delete"), revision + 1)
    BY <2>1, <2>3, <2>a DEF DeleteEvent, L!EventAt, L!LiveAt
  <2>5. DeleteEvent \in Event BY <2>1, <2>a DEF DeleteEvent, Event
  <2>6. QED BY <1>1, <2>3, <2>4, <2>5, CommitStep DEF Delete
<1>2. CASE ~DeleteAllowed(rev) /\ Refuse(w)
  <2>1. pending = {} BY NothingPending DEF Delete, HasLock
  <2>2. QED BY <1>2, <2>1, UnlockStep DEF Delete, HasLock, Refuse, store, history
<1>3. QED BY <1>1, <1>2 DEF Delete

\* A writer gives the lock back once every listener has been called.
LEMMA ReturnStep ==
  ASSUME Inductive, NEW w \in Writers, Return(w)
  PROVE  Inductive'
BY UnlockStep DEF Return

\* The event a listener accepts is the newest one, the only one it lacked.
LEMMA NotifyStep ==
  ASSUME Inductive, NEW w \in Writers, NEW x \in Watchers, Notify(w, x)
  PROVE  Inductive'
<1> USE DEF Inductive, Notify, store, history
<1>1. TypeOK'
  BY SizesAssumption DEF TypeOK
<1>2. RingHoldsLog' /\ DeletesFollowPuts'
  BY DEF RingHoldsLog, DeletesFollowPuts, L!LiveAt
<1>3. LockExcludes' BY DEF LockExcludes, Readers
<1>4. ListenersRegistered' BY DEF ListenersRegistered
<1>5. EventIsNewest' BY DEF EventIsNewest, L!EventAt, L!LiveAt
<1>a. Len(buffer'[x]) = Len(buffer[x]) + 1 /\ \A y \in Watchers \ {x} : buffer'[y] = buffer[y]
  BY DEF TypeOK
<1>b. \A y \in Watchers :
        position[y] \in Nat /\ gap[y] \in Nat /\ Len(updateC[y]) \in Nat /\ Len(buffer[y]) \in Nat
  BY DEF TypeOK
<1>6. GapsEndWatches'
  <2>1. goroutine[x] # "none" BY DEF ListenersRegistered
  <2>2. QED BY <2>1, <1>a, <1>b, SMTT(30) DEF GapsEndWatches, EndPosition
<1>7. UpdateCFollowsLog'
  BY DEF UpdateCFollowsLog, Follows, L!RevisionAt, L!EventAt, L!LiveAt
<1>8. BufferFollowsLog'
  <2> SUFFICES ASSUME NEW y \in Watchers, NEW k \in 1..Len(buffer'[y])
               PROVE  Follows(y, buffer[y][k], position[y] + Len(updateC[y]) + k - 1)'
    BY DEF BufferFollowsLog
  <2>1. CASE y = x /\ k = Len(buffer[x]) + 1
    <3>1. buffer'[x][k] = event BY <2>1 DEF TypeOK
    <3>2. L!RevisionAt(gap[x], position[x] + Len(updateC[x]) + k - 1) = revision
      BY <2>1 DEF WatchesKeepUp, Accepted, EndPosition, ListenersRegistered, L!RevisionAt, TypeOK
    <3>3. revision > 0 /\ event = L!EventAt(log, revision) BY DEF EventIsNewest
    <3>4. Follows(x, event, position[x] + Len(updateC[x]) + k - 1)
      <4>1. revision \in 1..revision BY <3>3 DEF TypeOK
      <4>2. QED BY <3>2, <3>3, <4>1 DEF Follows
    <3>5. QED BY <2>1, <3>1, <3>4 DEF Follows, L!RevisionAt, L!EventAt, L!LiveAt
  <2>2. CASE ~(y = x /\ k = Len(buffer[x]) + 1)
    <3>1. k \in 1..Len(buffer[y]) /\ buffer'[y][k] = buffer[y][k]
      BY <2>2 DEF TypeOK
    <3>2. QED BY <3>1 DEF BufferFollowsLog, Follows, L!RevisionAt, L!EventAt, L!LiveAt
  <2>3. QED BY <2>1, <2>2
<1>9. WatchesKeepUp'
  <2> SUFFICES ASSUME NEW y \in watches
               PROVE  Accepted(y)' = revision + (IF y \in pending' THEN 0 ELSE 1)
    BY DEF WatchesKeepUp
  <2>1. Accepted(y) = revision + (IF y \in pending THEN 0 ELSE 1) /\ y \in Watchers
    BY DEF WatchesKeepUp, TypeOK
  <2>2. CASE y = x
    <3>1. position' = position /\ updateC' = updateC OBVIOUS
    <3>2. position[x] \in Nat /\ Len(updateC[x]) \in Nat /\ Len(buffer[x]) \in Nat
      BY <1>b
    <3>3. Len(buffer'[x]) = Len(buffer[x]) + 1 BY <1>a
    <3>4. EndPosition(x) \in Nat BY ONLY <3>2 DEF EndPosition
    <3>5. EndPosition(x)' = EndPosition(x) + 1
      BY ONLY <3>1, <3>2, <3>3, SMTT(30) DEF EndPosition
    <3>6. gap'[x] = gap[x] /\ gap[x] \in Nat /\ gap[x] <= EndPosition(x)
      BY <1>b DEF GapsEndWatches
    <3>7. Accepted(x)' = Accepted(x) + 1 BY ONLY <3>4, <3>5, <3>6 DEF Accepted
    <3>8. QED BY <2>1, <2>2, <3>7, <1>b DEF TypeOK
  <2>3. CASE y # x BY <2>1, <2>3 DEF Accepted, EndPosition
  <2>4. QED BY <2>2, <2>3
<1>10. QED BY <1>1, <1>2, <1>3, <1>4, <1>5, <1>6, <1>7, <1>8, <1>9

\* A new watch starts with the replayed part of the log, up to the newest
\* revision.
LEMMA WatchStep ==
  ASSUME Inductive, NEW x \in Watchers, NEW rev \in Revisions, Watch(x, rev)
  PROVE  Inductive'
<1> USE DEF Inductive, store, writer
<1>a. /\ goroutine[x] = "none" /\ NoWriter
      /\ updateC' = [updateC EXCEPT ![x] = Replay(rev)]
      /\ watches' = watches \cup {x}
      /\ goroutine' = [goroutine EXCEPT ![x] = "run"]
      /\ position' = [position EXCEPT ![x] = revision + 1 - Len(Replay(rev))]
      /\ revision' = revision /\ values' = values /\ log' = log /\ pc' = pc
      /\ pending' = pending /\ event' = event /\ buffer' = buffer
      /\ cancelled' = cancelled /\ gap' = gap /\ received' = received
  BY DEF Watch
<1>b. PICK n \in 0..revision :
        /\ n <= UpdateCap
        /\ Len(Replay(rev)) = n
        /\ Replay(rev) \in Seq(Event)
        /\ \A k \in 1..n : Replay(rev)[k] = L!EventAt(log, revision + 1 - n + k - 1)
  BY ReplayOfLog DEF Watch
<1>c. revision \in Nat /\ n \in Nat BY <1>b DEF TypeOK
<1>d. /\ updateC'[x] = Replay(rev) /\ position'[x] = revision + 1 - n
      /\ buffer[x] = <<>> /\ gap[x] = 0
      /\ \A y \in Watchers \ {x} : updateC'[y] = updateC[y] /\ position'[y] = position[y]
  BY <1>a, <1>b DEF TypeOK, GapsEndWatches
<1>1. TypeOK' BY <1>a, <1>b, <1>c DEF TypeOK, GoroutineStates
<1>2. RingHoldsLog' /\ DeletesFollowPuts'
  BY <1>a DEF RingHoldsLog, DeletesFollowPuts, L!LiveAt
<1>3. LockExcludes' BY <1>a DEF LockExcludes, Readers, TypeOK
<1>4. ListenersRegistered' BY <1>a DEF ListenersRegistered, TypeOK
<1>5. EventIsNewest' BY <1>a DEF EventIsNewest, NoWriter
<1>6. GapsEndWatches'
  <2> SUFFICES ASSUME NEW y \in Watchers
               PROVE  /\ goroutine'[y] = "none" => updateC'[y] = <<>> /\ buffer'[y] = <<>>
                      /\ goroutine'[y] \in {"none", "run"} => gap'[y] = 0
                      /\ goroutine'[y] # "none" => position'[y] > 0
                      /\ gap'[y] <= EndPosition(y)'
    BY DEF GapsEndWatches
  <2>1. CASE y = x
    <3>1. goroutine'[x] = "run" BY <1>a DEF TypeOK
    <3>2. Len(buffer'[x]) = 0 /\ Len(updateC'[x]) = n BY <1>a, <1>b, <1>d
    <3>3. position'[x] \in Nat /\ position'[x] > 0 BY <1>b, <1>c, <1>d
    <3>4. EndPosition(x)' \in Nat BY ONLY <3>2, <3>3, <1>c DEF EndPosition
    <3>5. QED BY <2>1, <3>1, <3>3, <3>4, <1>a, <1>d
  <2>2. CASE y # x BY <2>2, <1>a, <1>d DEF GapsEndWatches, EndPosition, TypeOK
  <2>3. QED BY <2>1, <2>2
<1>7. UpdateCFollowsLog'
  <2> SUFFICES ASSUME NEW y \in Watchers, NEW k \in 1..Len(updateC'[y])
               PROVE  Follows(y, updateC[y][k], position[y] + k - 1)'
    BY DEF UpdateCFollowsLog
  <2>1. CASE y = x
    <3>1. k \in 1..n BY <2>1, <1>b, <1>d
    <3>2. position'[x] + k - 1 = revision + 1 - n + k - 1 BY <1>d
    <3>3. updateC'[x][k] = L!EventAt(log, revision + 1 - n + k - 1) BY <3>1, <1>b, <1>d
    <3>4. revision + 1 - n + k - 1 \in 1..revision BY <3>1, <1>b, <1>c
    <3>5. L!RevisionAt(gap'[x], position'[x] + k - 1) = revision + 1 - n + k - 1
      BY <3>2, <1>a, <1>d DEF L!RevisionAt
    <3>6. QED BY <2>1, <3>3, <3>4, <3>5, <1>a DEF Follows, L!RevisionAt, L!EventAt, L!LiveAt
  <2>2. CASE y # x
    <3>1. updateC'[y] = updateC[y] /\ position'[y] = position[y] BY <2>2, <1>d
    <3>2. Follows(y, updateC[y][k], position[y] + k - 1) BY <3>1 DEF UpdateCFollowsLog
    <3>3. QED BY <3>1, <3>2, <1>a DEF Follows, L!RevisionAt, L!EventAt, L!LiveAt
  <2>3. QED BY <2>1, <2>2
<1>8. BufferFollowsLog'
  <2> SUFFICES ASSUME NEW y \in Watchers, NEW k \in 1..Len(buffer'[y])
               PROVE  Follows(y, buffer[y][k], position[y] + Len(updateC[y]) + k - 1)'
    BY DEF BufferFollowsLog
  <2>1. y # x BY <1>a, <1>d
  <2>2. updateC'[y] = updateC[y] /\ position'[y] = position[y] BY <2>1, <1>d
  <2>3. Follows(y, buffer[y][k], position[y] + Len(updateC[y]) + k - 1)
    BY <1>a DEF BufferFollowsLog
  <2>4. QED BY <2>2, <2>3, <1>a DEF Follows, L!RevisionAt, L!EventAt, L!LiveAt
<1>9. WatchesKeepUp'
  <2> SUFFICES ASSUME NEW y \in watches'
               PROVE  Accepted(y)' = revision + (IF y \in pending THEN 0 ELSE 1)
    BY <1>a DEF WatchesKeepUp
  <2>1. CASE y = x
    <3>1. Len(buffer'[x]) = 0 /\ Len(updateC'[x]) = n BY <1>a, <1>b, <1>d
    <3>2. EndPosition(x)' = revision + 1 BY <3>1, <1>c, <1>d DEF EndPosition
    <3>3. Accepted(x)' = revision + 1 BY <3>2, <1>a, <1>d DEF Accepted
    <3>4. x \notin pending BY <1>a DEF ListenersRegistered
    <3>5. QED BY <2>1, <3>3, <3>4, <1>c
  <2>2. CASE y # x
    <3>1. y \in watches /\ y \in Watchers BY <2>2, <1>a DEF TypeOK
    <3>2. QED BY <2>2, <3>1, <1>a, <1>d DEF WatchesKeepUp, Accepted, EndPosition
  <2>3. QED BY <2>1, <2>2
<1>10. QED BY <1>1, <1>2, <1>3, <1>4, <1>5, <1>6, <1>7, <1>8, <1>9

\* Cancelling changes nothing the invariant reads.
LEMMA CancelStep ==
  ASSUME Inductive, NEW x \in Watchers, Cancel(x)
  PROVE  Inductive'
<1> USE DEF Inductive, Cancel, store, writer, history
<1>1. TypeOK' BY DEF TypeOK
<1>2. RingHoldsLog' /\ DeletesFollowPuts'
  BY DEF RingHoldsLog, DeletesFollowPuts, L!LiveAt
<1>3. LockExcludes' /\ ListenersRegistered' /\ EventIsNewest'
  BY DEF LockExcludes, Readers, ListenersRegistered, EventIsNewest, L!EventAt, L!LiveAt
<1>4. GapsEndWatches' BY DEF GapsEndWatches, EndPosition
<1>5. UpdateCFollowsLog' /\ BufferFollowsLog'
  BY DEF UpdateCFollowsLog, BufferFollowsLog, Follows, L!RevisionAt, L!EventAt, L!LiveAt
<1>6. WatchesKeepUp' BY DEF WatchesKeepUp, Accepted, EndPosition
<1>7. QED BY <1>1, <1>2, <1>3, <1>4, <1>5, <1>6

\* A goroutine that only changes where it is keeps the invariant, provided
\* its listener stays registered exactly as long as it may be called.
LEMMA MoveStep ==
  ASSUME Inductive, NEW x \in Watchers, NEW st \in GoroutineStates \ {"none", "run"},
         goroutine[x] # "none",
         goroutine' = [goroutine EXCEPT ![x] = st],
         watches' = IF st \in {"exit", "rlock"} THEN watches ELSE watches \ {x},
         st \in {"exit", "rlock"} => goroutine[x] \in {"run", "exit"},
         st = "drain" => NoWriter,
         st = "closed" => goroutine[x] = "drain",
         UNCHANGED <<store, writer, buffer, updateC, cancelled, history>>
  PROVE  Inductive'
<1> USE DEF Inductive, store, writer, history
<1>1. TypeOK' BY DEF TypeOK
<1>2. RingHoldsLog' /\ DeletesFollowPuts'
  BY DEF RingHoldsLog, DeletesFollowPuts, L!LiveAt
<1>3. LockExcludes' BY DEF LockExcludes, Readers, NoWriter, TypeOK, GoroutineStates
<1>4. ListenersRegistered'
  <2>1. st \in {"drain", "closed"} => x \notin pending
    BY DEF ListenersRegistered, NoWriter
  <2>2. QED BY <2>1 DEF ListenersRegistered, TypeOK, GoroutineStates
<1>5. EventIsNewest' BY DEF EventIsNewest, L!EventAt, L!LiveAt
<1>6. GapsEndWatches' BY DEF GapsEndWatches, EndPosition, TypeOK
<1>7. UpdateCFollowsLog' /\ BufferFollowsLog'
  BY DEF UpdateCFollowsLog, BufferFollowsLog, Follows, L!RevisionAt, L!EventAt, L!LiveAt
<1>8. WatchesKeepUp' BY DEF WatchesKeepUp, Accepted, EndPosition
<1>9. QED BY <1>1, <1>2, <1>3, <1>4, <1>5, <1>6, <1>7, <1>8

\* A watch's goroutine sees its context done and begins to exit.
LEMMA CtxDoneStep ==
  ASSUME Inductive, NEW x \in Watchers, CtxDone(x)
  PROVE  Inductive'
<1>1. "exit" \in GoroutineStates \ {"none", "run"} BY DEF GoroutineStates
<1>2. /\ goroutine[x] = "run" /\ goroutine' = [goroutine EXCEPT ![x] = "exit"]
      /\ watches' = watches
      /\ UNCHANGED <<store, writer, buffer, updateC, cancelled, history>>
  BY DEF CtxDone
<1>3. QED BY <1>1, <1>2, MoveStep

\* A watch's goroutine closes its channel and is gone.
LEMMA CloseStep ==
  ASSUME Inductive, NEW x \in Watchers, Close(x)
  PROVE  Inductive'
<1>1. watches = watches \ {x} BY DEF Inductive, ListenersRegistered, Close
<1>2. /\ "closed" \in GoroutineStates \ {"none", "run"} /\ goroutine[x] = "drain"
      /\ goroutine' = [goroutine EXCEPT ![x] = "closed"] /\ watches' = watches \ {x}
      /\ UNCHANGED <<store, writer, buffer, updateC, cancelled, history>>
  BY <1>1 DEF Close, GoroutineStates
<1>3. QED BY <1>2, MoveStep

\* An exiting goroutine gets the read lock and its listener is gone, or it
\* queues behind the writer.
LEMMA RLockStep ==
  ASSUME Inductive, NEW x \in Watchers, RLock(x)
  PROVE  Inductive'
<1>1. CASE NoWriter
  <2>1. goroutine' = [goroutine EXCEPT ![x] = "drain"]
    BY <1>1 DEF RLock, Admit, Inductive, TypeOK
  <2>2. QED BY <1>1, <2>1, MoveStep
    DEF RLock, Admit, GoroutineStates, store, writer, history
<1>2. CASE ~NoWriter
  BY <1>2, MoveStep DEF RLock, GoroutineStates, store, writer, history
<1>3. QED BY <1>1, <1>2

\* Moving the oldest event of buffer to the end of updateC leaves the stream
\* as it was.
LEMMA MoveEvent ==
  ASSUME Inductive, NEW x \in Watchers,
         goroutine[x] # "none", buffer[x] # <<>>, Len(updateC[x]) < UpdateCap,
         buffer' = [buffer EXCEPT ![x] = Tail(@)],
         updateC' = [updateC EXCEPT ![x] = Append(@, Head(buffer[x]))],
         UNCHANGED <<store, watches, writer, goroutine, cancelled, history>>
  PROVE  Inductive'
<1> USE DEF Inductive, store, writer, history
<1>a. /\ buffer[x] \in Seq(Event) /\ updateC[x] \in Seq(Event)
      /\ Len(buffer[x]) \in Nat /\ Len(updateC[x]) \in Nat /\ Len(buffer[x]) > 0
      /\ buffer'[x] = Tail(buffer[x]) /\ updateC'[x] = Append(updateC[x], Head(buffer[x]))
      /\ \A y \in Watchers \ {x} : buffer'[y] = buffer[y] /\ updateC'[y] = updateC[y]
  BY DEF TypeOK
<1>b. /\ Len(buffer'[x]) = Len(buffer[x]) - 1 /\ Len(updateC'[x]) = Len(updateC[x]) + 1
      /\ \A k \in 1..Len(buffer'[x]) : buffer'[x][k] = buffer[x][k + 1]
      /\ \A k \in 1..Len(updateC[x]) : updateC'[x][k] = updateC[x][k]
      /\ updateC'[x][Len(updateC[x]) + 1] = buffer[x][1]
  <2>1. /\ Head(buffer[x]) = buffer[x][1] /\ Head(buffer[x]) \in Event
        /\ Len(Tail(buffer[x])) = Len(buffer[x]) - 1
        /\ \A k \in 1..Len(Tail(buffer[x])) : Tail(buffer[x])[k] = buffer[x][k + 1]
    BY <1>a, TailFacts
  <2>2. /\ Len(Append(updateC[x], Head(buffer[x]))) = Len(updateC[x]) + 1
        /\ \A k \in 1..Len(updateC[x]) : Append(updateC[x], Head(buffer[x]))[k] = updateC[x][k]
        /\ Append(updateC[x], Head(buffer[x]))[Len(updateC[x]) + 1] = Head(buffer[x])
    BY <1>a, <2>1, AppendFacts
  <2>3. QED BY <1>a, <2>1, <2>2
<1>c. \A y \in Watchers : position[y] \in Nat /\ EndPosition(y)' = EndPosition(y)
  <2> SUFFICES ASSUME NEW y \in Watchers
               PROVE  position[y] \in Nat /\ EndPosition(y)' = EndPosition(y)
    OBVIOUS
  <2>1. position[y] \in Nat BY DEF TypeOK
  <2>2. CASE y = x
    <3>1. Len(buffer'[x]) = Len(buffer[x]) - 1 /\ Len(updateC'[x]) = Len(updateC[x]) + 1
      BY <1>b
    <3>2. Len(buffer[x]) \in Nat /\ Len(updateC[x]) \in Nat /\ position'[x] = position[x]
      BY <1>a
    <3>3. QED BY ONLY <2>1, <2>2, <3>1, <3>2 DEF EndPosition
  <2>3. CASE y # x
    <3>1. buffer'[y] = buffer[y] /\ updateC'[y] = updateC[y] /\ position' = position
      BY <2>3, <1>a
    <3>2. QED BY <2>1, <3>1 DEF EndPosition
  <2>4. QED BY <2>1, <2>2, <2>3
<1>1. TypeOK'
  <2>1. buffer' \in [Watchers -> Seq(Event)] /\ updateC' \in [Watchers -> Seq(Event)]
    BY <1>a DEF TypeOK
  <2>2. \A y \in Watchers : Len(buffer'[y]) <= BufferCap /\ Len(updateC'[y]) <= UpdateCap
    BY <1>a, <1>b, SizesAssumption DEF TypeOK
  <2>3. QED BY <2>1, <2>2 DEF TypeOK
<1>2. RingHoldsLog' /\ DeletesFollowPuts'
  BY DEF RingHoldsLog, DeletesFollowPuts, L!LiveAt
<1>3. LockExcludes' /\ ListenersRegistered' /\ EventIsNewest'
  BY DEF LockExcludes, Readers, ListenersRegistered, EventIsNewest, L!EventAt, L!LiveAt
<1>4. GapsEndWatches' BY <1>a, <1>c DEF GapsEndWatches
<1>5. UpdateCFollowsLog'
  <2> SUFFICES ASSUME NEW y \in Watchers, NEW k \in 1..Len(updateC'[y])
               PROVE  Follows(y, updateC[y][k], position[y] + k - 1)'
    BY DEF UpdateCFollowsLog
  <2>1. Follows(y, updateC'[y][k], position[y] + k - 1)
    <3>1. CASE y = x /\ k = Len(updateC[x]) + 1
      <4>1. Follows(x, buffer[x][1], position[x] + Len(updateC[x]) + 1 - 1)
        BY <1>a DEF BufferFollowsLog
      <4>2. position[x] + Len(updateC[x]) + 1 - 1 = position[x] + k - 1
        BY <3>1, <1>a, <1>c
      <4>3. QED BY <3>1, <4>1, <4>2, <1>b
    <3>2. CASE ~(y = x /\ k = Len(updateC[x]) + 1)
      <4>1. k \in 1..Len(updateC[y]) /\ updateC'[y][k] = updateC[y][k]
        BY <3>2, <1>a, <1>b
      <4>2. QED BY <4>1 DEF UpdateCFollowsLog
    <3>3. QED BY <3>1, <3>2
  <2>2. QED BY <2>1 DEF Follows, L!RevisionAt, L!EventAt, L!LiveAt
<1>6. BufferFollowsLog'
  <2> SUFFICES ASSUME NEW y \in Watchers, NEW k \in 1..Len(buffer'[y])
               PROVE  Follows(y, buffer[y][k], position[y] + Len(updateC[y]) + k - 1)'
    BY DEF BufferFollowsLog
  <2>1. Follows(y, buffer'[y][k], position[y] + Len(updateC'[y]) + k - 1)
    <3>1. CASE y = x
      <4>1. k + 1 \in 1..Len(buffer[x]) /\ buffer'[x][k] = buffer[x][k + 1]
        BY <3>1, <1>a, <1>b
      <4>2. Follows(x, buffer[x][k + 1], position[x] + Len(updateC[x]) + (k + 1) - 1)
        BY <4>1 DEF BufferFollowsLog
      <4>3. position[x] + Len(updateC[x]) + (k + 1) - 1 = position[x] + Len(updateC'[x]) + k - 1
        <5>1. Len(updateC'[x]) = Len(updateC[x]) + 1 BY <1>b
        <5>2. k \in Int /\ position[x] \in Nat /\ Len(updateC[x]) \in Nat BY <1>a, <1>c
        <5>3. QED BY ONLY <5>1, <5>2
      <4>4. QED BY <3>1, <4>1, <4>2, <4>3
    <3>2. CASE y # x BY <3>2, <1>a DEF BufferFollowsLog
    <3>3. QED BY <3>1, <3>2
  <2>2. QED BY <2>1 DEF Follows, L!RevisionAt, L!EventAt, L!LiveAt
<1>7. WatchesKeepUp'
  <2>1. \A y \in Watchers : Accepted(y)' = Accepted(y) BY <1>c DEF Accepted
  <2>2. QED BY <2>1 DEF WatchesKeepUp, TypeOK
<1>8. QED BY <1>1, <1>2, <1>3, <1>4, <1>5, <1>6, <1>7

\* An exiting goroutine passes on an event left in its buffer.
LEMMA DrainStep ==
  ASSUME Inductive, NEW x \in Watchers, Drain(x)
  PROVE  Inductive'
BY MoveEvent DEF Drain

\* Dropping an event makes a gap at its position: the events after it keep
\* their revisions.
LEMMA DropStep ==
  ASSUME Inductive, NEW x \in Watchers,
         goroutine[x] = "run", buffer[x] # <<>>,
         buffer' = [buffer EXCEPT ![x] = Tail(@)],
         goroutine' = [goroutine EXCEPT ![x] = "exit"],
         gap' = [gap EXCEPT ![x] = position[x] + Len(updateC[x])],
         UNCHANGED <<store, watches, writer, updateC, cancelled, position, received>>
  PROVE  Inductive'
<1> USE DEF Inductive, store, writer
<1>a. /\ buffer[x] \in Seq(Event) /\ Len(buffer[x]) \in Nat /\ Len(buffer[x]) > 0
      /\ Len(updateC[x]) \in Nat /\ position[x] \in Nat /\ position[x] > 0 /\ gap[x] = 0
      /\ buffer'[x] = Tail(buffer[x]) /\ gap'[x] = position[x] + Len(updateC[x])
      /\ \A y \in Watchers \ {x} :
           buffer'[y] = buffer[y] /\ gap'[y] = gap[y] /\ goroutine'[y] = goroutine[y]
  BY DEF TypeOK, GapsEndWatches
<1>b. /\ Len(buffer'[x]) = Len(buffer[x]) - 1 /\ goroutine'[x] = "exit"
      /\ \A k \in 1..Len(buffer'[x]) : buffer'[x][k] = buffer[x][k + 1]
  BY <1>a DEF TypeOK
<1>c. EndPosition(x) \in Nat /\ EndPosition(x)' = EndPosition(x) - 1 /\ gap'[x] <= EndPosition(x)'
  BY <1>a, <1>b DEF EndPosition
<1>d. \A y \in Watchers \ {x} : EndPosition(y)' = EndPosition(y)
  BY <1>a DEF EndPosition
<1>1. TypeOK'
  <2>1. buffer' \in [Watchers -> Seq(Event)] BY <1>a DEF TypeOK
  <2>2. \A y \in Watchers : Len(buffer'[y]) <= BufferCap
    BY <1>a, <1>b, SizesAssumption DEF TypeOK
  <2>3. gap' \in [Watchers -> Nat] BY <1>a DEF TypeOK
  <2>4. goroutine' \in [Watchers -> GoroutineStates] BY DEF TypeOK, GoroutineStates
  <2>5. QED BY <2>1, <2>2, <2>3, <2>4 DEF TypeOK
<1>2. RingHoldsLog' /\ DeletesFollowPuts'
  BY DEF RingHoldsLog, DeletesFollowPuts, L!LiveAt
<1>3. LockExcludes' BY DEF LockExcludes, Readers, TypeOK
<1>4. ListenersRegistered' BY DEF ListenersRegistered, TypeOK
<1>5. EventIsNewest' BY DEF EventIsNewest, L!EventAt, L!LiveAt
<1>6. GapsEndWatches' BY <1>a, <1>b, <1>c, <1>d DEF GapsEndWatches
<1>7. UpdateCFollowsLog'
  <2> SUFFICES ASSUME NEW y \in Watchers, NEW k \in 1..Len(updateC[y])
               PROVE  Follows(y, updateC[y][k], position[y] + k - 1)'
    BY DEF UpdateCFollowsLog
  <2>1. Follows(y, updateC[y][k], position[y] + k - 1) BY DEF UpdateCFollowsLog
  <2>2. L!RevisionAt(gap'[y], position[y] + k - 1) = L!RevisionAt(gap[y], position[y] + k - 1)
    BY <1>a DEF L!RevisionAt
  <2>3. QED BY <2>1, <2>2 DEF Follows, L!RevisionAt, L!EventAt, L!LiveAt
<1>8. BufferFollowsLog'
  <2> SUFFICES ASSUME NEW y \in Watchers, NEW k \in 1..Len(buffer'[y])
               PROVE  Follows(y, buffer[y][k], position[y] + Len(updateC[y]) + k - 1)'
    BY DEF BufferFollowsLog
  <2>1. CASE y = x
    <3>1. k + 1 \in 1..Len(buffer[x]) /\ buffer'[x][k] = buffer[x][k + 1]
      BY <2>1, <1>a, <1>b
    <3>2. Follows(x, buffer[x][k + 1], position[x] + Len(updateC[x]) + (k + 1) - 1)
      BY <3>1 DEF BufferFollowsLog
    <3>3. L!RevisionAt(gap'[x], position[x] + Len(updateC[x]) + k - 1)
            = L!RevisionAt(gap[x], position[x] + Len(updateC[x]) + (k + 1) - 1)
      BY <3>1, <1>a DEF L!RevisionAt
    <3>4. QED BY <2>1, <3>1, <3>2, <3>3 DEF Follows, L!RevisionAt, L!EventAt, L!LiveAt
  <2>2. CASE y # x
    <3>1. buffer'[y] = buffer[y] /\ gap'[y] = gap[y] BY <2>2, <1>a
    <3>2. Follows(y, buffer[y][k], position[y] + Len(updateC[y]) + k - 1)
      BY <3>1 DEF BufferFollowsLog
    <3>3. QED BY <3>1, <3>2 DEF Follows, L!RevisionAt, L!EventAt, L!LiveAt
  <2>3. QED BY <2>1, <2>2
<1>9. WatchesKeepUp'
  <2>1. \A y \in Watchers : Accepted(y)' = Accepted(y)
    BY <1>a, <1>c, <1>d DEF Accepted
  <2>2. QED BY <2>1 DEF WatchesKeepUp, TypeOK
<1>10. QED BY <1>1, <1>2, <1>3, <1>4, <1>5, <1>6, <1>7, <1>8, <1>9

\* A running goroutine passes an event on, or drops it and gives up the watch
\* when its caller has left no room.
LEMMA ForwardStep ==
  ASSUME Inductive, NEW x \in Watchers, Forward(x)
  PROVE  Inductive'
<1>1. CASE Len(updateC[x]) < UpdateCap
  <2>1. /\ goroutine[x] = "run" /\ buffer[x] # <<>>
        /\ buffer' = [buffer EXCEPT ![x] = Tail(@)]
        /\ updateC' = [updateC EXCEPT ![x] = Append(@, Head(buffer[x]))]
        /\ UNCHANGED <<store, watches, writer, goroutine, cancelled, history>>
    BY <1>1, SizesAssumption DEF Forward, history
  <2>2. QED BY <1>1, <2>1, MoveEvent
<1>2. CASE Len(updateC[x]) = UpdateCap
  <2>1. /\ goroutine[x] = "run" /\ buffer[x] # <<>>
        /\ buffer' = [buffer EXCEPT ![x] = Tail(@)]
        /\ goroutine' = [goroutine EXCEPT ![x] = "exit"]
        /\ gap' = [gap EXCEPT ![x] = position[x] + Len(updateC[x])]
        /\ UNCHANGED <<store, watches, writer, updateC, cancelled, position, received>>
    BY <1>2, SizesAssumption DEF Forward
  <2>2. QED BY <2>1, DropStep
<1>3. QED BY <1>1, <1>2 DEF Forward

\* Reading an event moves the caller's position over it.
LEMMA ReceiveStep ==
  ASSUME Inductive, NEW x \in Watchers, Receive(x)
  PROVE  Inductive'
<1> USE DEF Inductive, Receive, store, writer
<1>a. /\ updateC[x] \in Seq(Event) /\ Len(updateC[x]) \in Nat /\ Len(updateC[x]) > 0
      /\ Len(buffer[x]) \in Nat /\ position[x] \in Nat
      /\ updateC'[x] = Tail(updateC[x]) /\ position'[x] = position[x] + 1
      /\ \A y \in Watchers \ {x} : updateC'[y] = updateC[y] /\ position'[y] = position[y]
  BY DEF TypeOK
<1>b. /\ Len(updateC'[x]) = Len(updateC[x]) - 1
      /\ \A k \in 1..Len(updateC'[x]) : updateC'[x][k] = updateC[x][k + 1]
  BY <1>a, TailFacts
<1>c. \A y \in Watchers : EndPosition(y)' = EndPosition(y)
  <2>1. EndPosition(x)' = EndPosition(x) BY <1>a, <1>b DEF EndPosition
  <2>2. \A y \in Watchers \ {x} : EndPosition(y)' = EndPosition(y) BY <1>a DEF EndPosition
  <2>3. QED BY <2>1, <2>2
<1>1. TypeOK'
  <2>1. /\ updateC' \in [Watchers -> Seq(Event)] /\ position' \in [Watchers -> Nat]
        /\ received' \in [Watchers -> Event]
    BY <1>a DEF TypeOK
  <2>2. \A y \in Watchers : Len(updateC'[y]) <= UpdateCap
    BY <1>a, <1>b, SizesAssumption DEF TypeOK
  <2>3. QED BY <2>1, <2>2 DEF TypeOK
<1>2. RingHoldsLog' /\ DeletesFollowPuts'
  BY DEF RingHoldsLog, DeletesFollowPuts, L!LiveAt
<1>3. LockExcludes' /\ ListenersRegistered' /\ EventIsNewest'
  BY DEF LockExcludes, Readers, ListenersRegistered, EventIsNewest, L!EventAt, L!LiveAt
<1>4. GapsEndWatches' BY <1>a, <1>b, <1>c DEF GapsEndWatches
<1>5. UpdateCFollowsLog'
  <2> SUFFICES ASSUME NEW y \in Watchers, NEW k \in 1..Len(updateC'[y])
               PROVE  Follows(y, updateC[y][k], position[y] + k - 1)'
    BY DEF UpdateCFollowsLog
  <2>1. Follows(y, updateC'[y][k], position'[y] + k - 1)
    <3>1. CASE y = x
      <4>1. k + 1 \in 1..Len(updateC[x]) /\ updateC'[x][k] = updateC[x][k + 1]
        BY <3>1, <1>a, <1>b
      <4>2. position'[x] + k - 1 = position[x] + (k + 1) - 1 BY <4>1, <1>a
      <4>3. QED BY <3>1, <4>1, <4>2 DEF UpdateCFollowsLog
    <3>2. CASE y # x BY <3>2, <1>a DEF UpdateCFollowsLog
    <3>3. QED BY <3>1, <3>2
  <2>2. QED BY <2>1 DEF Follows, L!RevisionAt, L!EventAt, L!LiveAt
<1>6. BufferFollowsLog'
  <2> SUFFICES ASSUME NEW y \in Watchers, NEW k \in 1..Len(buffer[y])
               PROVE  Follows(y, buffer[y][k], position[y] + Len(updateC[y]) + k - 1)'
    BY DEF BufferFollowsLog
  <2>1. position'[y] + Len(updateC'[y]) + k - 1 = position[y] + Len(updateC[y]) + k - 1
    <3>1. CASE y = x
      <4>1. Len(updateC'[x]) = Len(updateC[x]) - 1 BY <1>b
      <4>2. k \in Int OBVIOUS
      <4>3. QED BY ONLY <3>1, <4>1, <4>2, <1>a
    <3>2. CASE y # x BY <3>2, <1>a
    <3>3. QED BY <3>1, <3>2
  <2>2. Follows(y, buffer[y][k], position'[y] + Len(updateC'[y]) + k - 1)
    BY <2>1 DEF BufferFollowsLog
  <2>3. QED BY <2>2 DEF Follows, L!RevisionAt, L!EventAt, L!LiveAt
<1>7. WatchesKeepUp'
  <2>1. \A y \in Watchers : Accepted(y)' = Accepted(y) BY <1>c DEF Accepted
  <2>2. QED BY <2>1 DEF WatchesKeepUp, TypeOK
<1>8. QED BY <1>1, <1>2, <1>3, <1>4, <1>5, <1>6, <1>7

\* A step that changes nothing keeps the invariant.
LEMMA StutterStep ==
  ASSUME Inductive, UNCHANGED vars
  PROVE  Inductive'
<1> USE DEF Inductive, vars, store, writer, history
<1>1. TypeOK' BY DEF TypeOK
<1>2. RingHoldsLog' /\ DeletesFollowPuts'
  BY DEF RingHoldsLog, DeletesFollowPuts, L!LiveAt
<1>3. LockExcludes' /\ ListenersRegistered' /\ EventIsNewest'
  BY DEF LockExcludes, Readers, ListenersRegistered, EventIsNewest, L!EventAt, L!LiveAt
<1>4. GapsEndWatches' BY DEF GapsEndWatches, EndPosition
<1>5. UpdateCFollowsLog' /\ BufferFollowsLog'
  BY DEF UpdateCFollowsLog, BufferFollowsLog, Follows, L!RevisionAt, L!EventAt, L!LiveAt
<1>6. WatchesKeepUp' BY DEF WatchesKeepUp, Accepted, EndPosition
<1>7. QED BY <1>1, <1>2, <1>3, <1>4, <1>5, <1>6

\* Inductive holds in every state the store can reach.
THEOREM InductiveInvariant == Spec => []Inductive
<1>1. Init => Inductive BY InitInductive
<1>2. Inductive /\ [Next]_vars => Inductive'
  <2> SUFFICES ASSUME Inductive, [Next]_vars PROVE Inductive'
    OBVIOUS
  <2>1. ASSUME NEW w \in Writers, Lock(w) PROVE Inductive' BY <2>1, LockStep
  <2>2. ASSUME NEW w \in Writers, NEW rev \in Revisions, Put(w, rev) PROVE Inductive'
    BY <2>2, PutStep
  <2>3. ASSUME NEW w \in Writers, NEW rev \in Revisions, Delete(w, rev) PROVE Inductive'
    BY <2>3, DeleteStep
  <2>4. ASSUME NEW w \in Writers, NEW x \in Watchers, Notify(w, x) PROVE Inductive'
    BY <2>4, NotifyStep
  <2>5. ASSUME NEW w \in Writers, Return(w) PROVE Inductive' BY <2>5, ReturnStep
  <2>6. ASSUME NEW x \in Watchers, NEW rev \in Revisions, Watch(x, rev) PROVE Inductive'
    BY <2>6, WatchStep
  <2>7. ASSUME NEW x \in Watchers, Cancel(x) PROVE Inductive' BY <2>7, CancelStep
  <2>8. ASSUME NEW x \in Watchers, CtxDone(x) PROVE Inductive' BY <2>8, CtxDoneStep
  <2>9. ASSUME NEW x \in Watchers, Forward(x) PROVE Inductive' BY <2>9, ForwardStep
  <2>10. ASSUME NEW x \in Watchers, RLock(x) PROVE Inductive' BY <2>10, RLockStep
  <2>11. ASSUME NEW x \in Watchers, Drain(x) PROVE Inductive' BY <2>11, DrainStep
  <2>12. ASSUME NEW x \in Watchers, Close(x) PROVE Inductive' BY <2>12, CloseStep
  <2>13. ASSUME NEW x \in Watchers, Receive(x) PROVE Inductive' BY <2>13, ReceiveStep
  <2>14. CASE UNCHANGED vars BY <2>14, StutterStep
  <2>15. QED
    BY <2>1, <2>2, <2>3, <2>4, <2>5, <2>6, <2>7, <2>8, <2>9, <2>10, <2>11, <2>12,
       <2>13, <2>14 DEF Next, WriterStep, GoroutineStep
<1>3. QED BY <1>1, <1>2, PTL DEF Spec

-----------------------------------------------------------------------------
(* The theorems.                                                            *)

\* Types are kept and no channel ever holds more than its capacity: the
\* events Watch replays always fit, so Watch never blocks under the lock.
THEOREM TypeCorrect == Spec => []TypeOK
<1>1. Inductive => TypeOK BY DEF Inductive
<1>2. QED BY <1>1, InductiveInvariant, PTL

\* After any sequence of writes the ring of value_store.go holds the last
\* RingSize of them, in order.
THEOREM RingCorrect == Spec => []RingHoldsLog
<1>1. Inductive => RingHoldsLog BY DEF Inductive
<1>2. QED BY <1>1, InductiveInvariant, PTL

\* The events waiting for a watch's caller are the log's, in order, each with
\* the right Previous, none twice and at most one (the dropped one) missing.
THEOREM StreamsCorrect == Spec => []StreamsFollowLog
<1>1. Inductive => StreamsFollowLog
  <2> SUFFICES ASSUME Inductive, NEW x \in Watchers
               PROVE  \A k \in 1..Len(Unread(x)) :
                        /\ L!RevisionAt(gap[x], position[x] + k - 1) \in 1..revision
                        /\ Unread(x)[k]
                             = L!EventAt(log, L!RevisionAt(gap[x], position[x] + k - 1))
    BY DEF StreamsFollowLog
  <2>1. /\ updateC[x] \in Seq(Event) /\ buffer[x] \in Seq(Event)
        /\ Len(updateC[x]) \in Nat /\ Len(buffer[x]) \in Nat /\ position[x] \in Nat
    BY DEF Inductive, TypeOK
  <2>2. /\ Len(Unread(x)) = Len(updateC[x]) + Len(buffer[x])
        /\ \A k \in 1..Len(updateC[x]) + Len(buffer[x]) :
             Unread(x)[k] = IF k <= Len(updateC[x]) THEN updateC[x][k]
                                                   ELSE buffer[x][k - Len(updateC[x])]
    BY <2>1, ConcatProperties DEF Unread
  <2> SUFFICES ASSUME NEW k \in 1..Len(updateC[x]) + Len(buffer[x])
               PROVE  Follows(x, Unread(x)[k], position[x] + k - 1)
    BY <2>2, Zenon DEF Follows
  <2>3. CASE k <= Len(updateC[x])
    <3>1. Follows(x, updateC[x][k], position[x] + k - 1)
      BY <2>1, <2>3 DEF Inductive, UpdateCFollowsLog
    <3>2. QED BY <2>2, <2>3, <3>1
  <2>4. CASE k > Len(updateC[x])
    <3>0. Len(updateC[x]) \in Nat /\ Len(buffer[x]) \in Nat BY <2>1
    <3>1. k - Len(updateC[x]) \in 1..Len(buffer[x])
      BY <3>0, <2>4, ShiftIndex
    <3>2. Follows(x, buffer[x][k - Len(updateC[x])],
                  position[x] + Len(updateC[x]) + (k - Len(updateC[x])) - 1)
      BY <3>1 DEF Inductive, BufferFollowsLog
    <3>3. position[x] + Len(updateC[x]) + (k - Len(updateC[x])) - 1 = position[x] + k - 1
      BY <2>1
    <3>4. ~(k <= Len(updateC[x])) BY <3>0, <2>4
    <3>5. Unread(x)[k] = buffer[x][k - Len(updateC[x])] BY <2>2, <3>4, Zenon
    <3>6. QED BY <3>2, <3>3, <3>5
  <2>5. QED BY <2>1, <2>3, <2>4
<1>2. QED BY <1>1, InductiveInvariant, PTL

\* When no Put or Delete is in progress, every registered watch has accepted
\* every revision; during one, only its own event can be missing.
THEOREM NothingMissed == Spec => []WatchesKeepUp
<1>1. Inductive => WatchesKeepUp BY DEF Inductive
<1>2. QED BY <1>1, InductiveInvariant, PTL

\* The panic `send on closed channel' cannot happen in Put or Delete.
THEOREM NeverSendsOnClosed == Spec => []NoSendOnClosed
<1>1. Inductive => NoSendOnClosed
  BY DEF Inductive, ListenersRegistered, NoSendOnClosed
<1>2. QED BY <1>1, InductiveInvariant, PTL

\* Writers exclude each other and the draining goroutines.
THEOREM MutualExclusion == Spec => []LockExcludes
<1>1. Inductive => LockExcludes BY DEF Inductive
<1>2. QED BY <1>1, InductiveInvariant, PTL

-----------------------------------------------------------------------------
(* The refinement: how the steps look through LogStatus and LogEnd.         *)

\* A watch that ends keeps every event it had accepted: the revision at its
\* end grows with the events accepted and not with the ones read.
LEMMA LogEndUnchanged ==
  ASSUME goroutine' = goroutine,
         \A x \in Watchers : goroutine[x] \in {"drain", "closed"} => Accepted(x)' = Accepted(x)
  PROVE  LogStatus' = LogStatus /\ LogEnd' = LogEnd
BY DEF LogStatus, LogEnd

\* A goroutine that moves without getting the read lock changes nothing.
LEMMA LogMove ==
  ASSUME Inductive, NEW x \in Watchers, NEW st,
         goroutine' = [goroutine EXCEPT ![x] = st],
         \/ goroutine[x] \in {"run", "exit"} /\ st \in {"exit", "rlock"}
         \/ goroutine[x] = "drain" /\ st = "closed",
         \A y \in Watchers : goroutine[y] \in {"drain", "closed"} => Accepted(y)' = Accepted(y)
  PROVE  LogStatus' = LogStatus /\ LogEnd' = LogEnd
<1>1. \A y \in Watchers : goroutine'[y] = IF y = x THEN st ELSE goroutine[y]
  BY DEF Inductive, TypeOK
<1>2. \A y \in Watchers : (goroutine'[y] = "none") <=> (goroutine[y] = "none") BY <1>1
<1>3. \A y \in Watchers :
        (goroutine'[y] \in {"drain", "closed"}) <=> (goroutine[y] \in {"drain", "closed"})
  BY <1>1
<1>4. QED BY <1>2, <1>3 DEF LogStatus, LogEnd

\* The goroutines an unlock lets in end with the newest revision: nothing is
\* pending, so each of their watches has accepted it.
LEMMA AdmitEnds ==
  ASSUME Inductive, NEW S \in SUBSET {x \in Watchers : goroutine[x] \in {"exit", "rlock"}},
         pending = {}, Admit(S), UNCHANGED <<store, buffer, updateC, history>>
  PROVE  [L!Next]_L!vars
<1> USE DEF store, history
<1>a. /\ revision \in Nat /\ revision = Len(log) /\ log' = log /\ position' = position
      /\ gap' = gap /\ received' = received
      /\ goroutine' = [x \in Watchers |-> IF x \in S THEN "drain" ELSE goroutine[x]]
  BY DEF Inductive, TypeOK, RingHoldsLog, Admit
<1>b. \A x \in Watchers : Accepted(x)' = Accepted(x)
  BY DEF Accepted, EndPosition
<1>c. \A x \in S : Accepted(x) = revision + 1
  BY DEF Inductive, ListenersRegistered, WatchesKeepUp
<1>d. S \in SUBSET {x \in Watchers : LogStatus[x] = "open"}
  BY DEF LogStatus
<1>1. LogStatus' = [x \in Watchers |-> IF x \in S THEN "ended" ELSE LogStatus[x]]
  BY <1>a DEF LogStatus
<1>2. LogEnd' = [x \in Watchers |-> IF x \in S THEN Len(log) ELSE LogEnd[x]]
  <2>1. \A x \in Watchers :
          (IF goroutine'[x] \in {"drain", "closed"} THEN Accepted(x)' - 1 ELSE 0)
            = IF x \in S THEN Len(log) ELSE LogEnd[x]
    BY <1>a, <1>b, <1>c DEF LogEnd
  <2>2. QED BY <2>1 DEF LogEnd
<1>3. CASE S = {}
  <2>1. LogStatus' = LogStatus /\ LogEnd' = LogEnd
    BY <1>1, <1>2, <1>3 DEF LogStatus, LogEnd
  <2>2. QED BY <2>1, <1>a DEF L!vars
<1>4. CASE S # {}
  <2>1. L!End BY <1>a, <1>d, <1>1, <1>2, <1>4 DEF L!End
  <2>2. QED BY <2>1 DEF L!Next
<1>5. QED BY <1>3, <1>4

\* An operation that releases the lock ends the watches waiting for it.
LEMMA UnlockEnds ==
  ASSUME Inductive, NEW w \in Writers, pending = {}, Unlock(w),
         UNCHANGED <<store, buffer, updateC, history>>
  PROVE  [L!Next]_L!vars
<1>1. Waiting \in SUBSET {x \in Watchers : goroutine[x] \in {"exit", "rlock"}}
  BY DEF Waiting
<1>2. QED BY <1>1, AdmitEnds DEF Unlock

\* Put appends to the log, or is refused.
LEMMA PutRefines ==
  ASSUME Inductive, NEW w \in Writers, NEW rev \in Revisions, Put(w, rev)
  PROVE  [L!Next]_L!vars
<1>1. CASE PutAllowed(rev) /\ Commit(w, "Put", FALSE, PutEvent)
  <2>1. \A x \in Watchers : Accepted(x)' = Accepted(x)
    BY DEF Put, history, Accepted, EndPosition
  <2>2. LogStatus' = LogStatus /\ LogEnd' = LogEnd
    BY <1>1, <2>1, LogEndUnchanged DEF Commit
  <2>3. L!Put BY <1>1, <2>2 DEF L!Put, Commit, Put, history
  <2>4. QED BY <2>3 DEF L!Next
<1>2. CASE ~PutAllowed(rev) /\ Refuse(w)
  <2>1. pending = {} BY NothingPending DEF Put, HasLock
  <2>2. QED BY <1>2, <2>1, UnlockEnds DEF Put, Refuse
<1>3. QED BY <1>1, <1>2 DEF Put

\* Delete appends to a log whose newest write is a value, or is refused.
LEMMA DeleteRefines ==
  ASSUME Inductive, NEW w \in Writers, NEW rev \in Revisions, Delete(w, rev)
  PROVE  [L!Next]_L!vars
<1>1. CASE DeleteAllowed(rev) /\ Commit(w, "Delete", TRUE, DeleteEvent)
  <2>a. /\ revision \in Nat /\ revision = Len(log) /\ log \in Seq({"Put", "Delete"})
        /\ 0 \in Slots /\ revision > 0
    BY <1>1, SizesAssumption DEF Inductive, TypeOK, RingHoldsLog, Slots, DeleteAllowed
  <2>b. values[0].deleted <=> log[revision] = "Delete"
    BY <2>a DEF Inductive, RingHoldsLog
  <2>c. log[revision] \in {"Put", "Delete"} BY <2>a
  <2>d. L!LiveAt(log, Len(log)) BY <1>1, <2>a, <2>b, <2>c DEF DeleteAllowed, L!LiveAt
  <2>1. \A x \in Watchers : Accepted(x)' = Accepted(x)
    BY DEF Delete, history, Accepted, EndPosition
  <2>2. LogStatus' = LogStatus /\ LogEnd' = LogEnd
    BY <1>1, <2>1, LogEndUnchanged DEF Commit
  <2>3. L!Delete BY <1>1, <2>2, <2>d DEF L!Delete, Commit, Delete, history
  <2>4. QED BY <2>3 DEF L!Next
<1>2. CASE ~DeleteAllowed(rev) /\ Refuse(w)
  <2>1. pending = {} BY NothingPending DEF Delete, HasLock
  <2>2. QED BY <1>2, <2>1, UnlockEnds DEF Delete, Refuse
<1>3. QED BY <1>1, <1>2 DEF Delete

\* The deferred function of a watch ends it if no writer is inside.
LEMMA RLockRefines ==
  ASSUME Inductive, NEW x \in Watchers, RLock(x)
  PROVE  [L!Next]_L!vars
<1>1. CASE NoWriter
  <2>1. pending = {} BY <1>1 DEF Inductive, ListenersRegistered, NoWriter
  <2>2. {x} \in SUBSET {y \in Watchers : goroutine[y] \in {"exit", "rlock"}} BY DEF RLock
  <2>3. QED BY <1>1, <2>1, <2>2, AdmitEnds DEF RLock
<1>2. CASE ~NoWriter
  <2>1. \A y \in Watchers : Accepted(y)' = Accepted(y)
    BY DEF RLock, history, Accepted, EndPosition
  <2>2. LogStatus' = LogStatus /\ LogEnd' = LogEnd
    BY <1>2, <2>1, LogMove DEF RLock
  <2>3. QED BY <2>2 DEF RLock, store, history, L!vars
<1>3. QED BY <1>1, <1>2

\* A new watch starts at an existing value or after the newest revision.
LEMMA WatchRefines ==
  ASSUME Inductive, NEW x \in Watchers, NEW rev \in Revisions, Watch(x, rev)
  PROVE  [L!Next]_L!vars
<1>a. PICK n \in 0..revision :
        Len(Replay(rev)) = n /\ (n > 0 => L!LiveAt(log, revision + 1 - n))
  BY ReplayOfLog DEF Watch, Inductive
<1>b. revision \in Nat /\ revision = Len(log) BY DEF Inductive, TypeOK, RingHoldsLog
<1>c. /\ goroutine[x] = "none" /\ goroutine' = [goroutine EXCEPT ![x] = "run"]
      /\ position' = [position EXCEPT ![x] = revision + 1 - n]
      /\ updateC' = [updateC EXCEPT ![x] = Replay(rev)]
      /\ UNCHANGED <<log, buffer, gap, received>>
  BY <1>a DEF Watch, store
<1>d. \A y \in Watchers \ {x} :
        goroutine'[y] = goroutine[y] /\ Accepted(y)' = Accepted(y)
  BY <1>c DEF Accepted, EndPosition, Inductive, TypeOK
<1>e. goroutine'[x] = "run" BY <1>c DEF Inductive, TypeOK
<1>1. LogStatus[x] = "none" BY <1>c DEF LogStatus
<1>2. LogStatus' = [LogStatus EXCEPT ![x] = "open"]
  BY <1>d, <1>e DEF LogStatus
<1>3. LogEnd' = LogEnd BY <1>c, <1>d, <1>e DEF LogEnd
<1>4. revision + 1 - n \in 1..Len(log) + 1 BY <1>a, <1>b
<1>5. revision + 1 - n <= Len(log) => L!LiveAt(log, revision + 1 - n) BY <1>a, <1>b
<1>6. L!Watch(x) BY <1>1, <1>2, <1>3, <1>4, <1>5, <1>c DEF L!Watch
<1>7. QED BY <1>6 DEF L!Next

\* Moving an event from buffer to updateC is invisible.
LEMMA MoveRefines ==
  ASSUME Inductive, NEW x \in Watchers, buffer[x] # <<>>,
         buffer' = [buffer EXCEPT ![x] = Tail(@)],
         updateC' = [updateC EXCEPT ![x] = Append(@, Head(buffer[x]))],
         UNCHANGED <<log, goroutine, history>>
  PROVE  UNCHANGED L!vars
<1>a. /\ buffer[x] \in Seq(Event) /\ updateC[x] \in Seq(Event) /\ position[x] \in Nat
      /\ Len(buffer[x]) \in Nat /\ Len(updateC[x]) \in Nat
      /\ buffer'[x] = Tail(buffer[x]) /\ updateC'[x] = Append(updateC[x], Head(buffer[x]))
      /\ \A y \in Watchers \ {x} : buffer'[y] = buffer[y] /\ updateC'[y] = updateC[y]
  BY DEF Inductive, TypeOK
<1>1. Len(buffer'[x]) = Len(buffer[x]) - 1 /\ Len(updateC'[x]) = Len(updateC[x]) + 1
  <2>1. Head(buffer[x]) \in Event /\ Len(Tail(buffer[x])) = Len(buffer[x]) - 1
    BY <1>a, TailFacts
  <2>2. Len(Append(updateC[x], Head(buffer[x]))) = Len(updateC[x]) + 1
    BY <1>a, <2>1, AppendFacts
  <2>3. QED BY <2>1, <2>2, <1>a
<1>2. EndPosition(x)' = EndPosition(x)
  <2>1. position' = position BY DEF history
  <2>2. QED BY <2>1, <1>1, <1>a, SMTT(30) DEF EndPosition
<1>3. \A y \in Watchers : Accepted(y)' = Accepted(y)
  BY <1>2, <1>a, SMTT(30) DEF Accepted, EndPosition, history
<1>4. QED BY <1>3, LogEndUnchanged DEF L!vars, history

\* Passing an event on is invisible; dropping one loses the log's event at
\* the end of updateC.
LEMMA ForwardRefines ==
  ASSUME Inductive, NEW x \in Watchers, Forward(x)
  PROVE  [L!Next]_L!vars
<1>1. CASE Len(updateC[x]) < UpdateCap
  <2>1. /\ buffer[x] # <<>>
        /\ buffer' = [buffer EXCEPT ![x] = Tail(@)]
        /\ updateC' = [updateC EXCEPT ![x] = Append(@, Head(buffer[x]))]
        /\ UNCHANGED <<log, goroutine, history>>
    BY <1>1, SizesAssumption DEF Forward, store, history
  <2>2. QED BY <2>1, MoveRefines
<1>2. CASE Len(updateC[x]) = UpdateCap
  <2>a. /\ goroutine[x] = "run" /\ buffer[x] # <<>>
        /\ goroutine' = [goroutine EXCEPT ![x] = "exit"]
        /\ buffer' = [buffer EXCEPT ![x] = Tail(@)]
        /\ gap' = [gap EXCEPT ![x] = position[x] + Len(updateC[x])]
        /\ UNCHANGED <<log, updateC, position, received>>
    BY <1>2, SizesAssumption DEF Forward, store
  <2>b. /\ gap[x] = 0 /\ revision = Len(log) /\ revision \in Nat
        /\ position[x] \in Nat /\ Len(updateC[x]) \in Nat
        /\ buffer[x] \in Seq(Event) /\ Len(buffer[x]) \in Nat /\ Len(buffer[x]) > 0
    BY <2>a DEF Inductive, TypeOK, GapsEndWatches, RingHoldsLog
  <2>c. Follows(x, buffer[x][1], position[x] + Len(updateC[x]) + 1 - 1)
    BY <2>b DEF Inductive, BufferFollowsLog
  <2>d. position[x] + Len(updateC[x]) \in position[x]..Len(log)
    <3>1. L!RevisionAt(gap[x], position[x] + Len(updateC[x]) + 1 - 1) \in 1..revision
      BY <2>c DEF Follows
    <3>2. position[x] + Len(updateC[x]) + 1 - 1 \in 1..revision
      BY <3>1, <2>b DEF L!RevisionAt
    <3>3. QED BY <3>2, <2>b
  <2>1. \A y \in Watchers : goroutine[y] \in {"drain", "closed"} => Accepted(y)' = Accepted(y)
    BY <2>a DEF Accepted, EndPosition, Inductive, TypeOK
  <2>2. LogStatus' = LogStatus /\ LogEnd' = LogEnd BY <2>a, <2>1, LogMove
  <2>3. LogStatus[x] = "open" BY <2>a DEF LogStatus
  <2>4. L!Lose(x) BY <2>2, <2>3, <2>a, <2>b, <2>d DEF L!Lose
  <2>5. QED BY <2>4 DEF L!Next
<1>3. QED BY <1>1, <1>2 DEF Forward

\* The event a caller reads is the log's at its position, and of an ended
\* watch one of those it had accepted.
LEMMA ReceiveRefines ==
  ASSUME Inductive, NEW x \in Watchers, Receive(x)
  PROVE  [L!Next]_L!vars
<1>a. /\ updateC[x] \in Seq(Event) /\ Len(updateC[x]) \in Nat /\ Len(updateC[x]) > 0
      /\ Len(buffer[x]) \in Nat /\ position[x] \in Nat /\ gap[x] \in Nat
      /\ updateC'[x] = Tail(updateC[x]) /\ position'[x] = position[x] + 1
      /\ \A y \in Watchers \ {x} : updateC'[y] = updateC[y] /\ position'[y] = position[y]
      /\ revision = Len(log)
      /\ goroutine[x] # "none" /\ goroutine[x] \in GoroutineStates
  BY DEF Receive, Inductive, TypeOK, GapsEndWatches, RingHoldsLog
<1>b. Len(updateC'[x]) = Len(updateC[x]) - 1 /\ Head(updateC[x]) = updateC[x][1]
  BY <1>a, TailFacts
<1>c. \A y \in Watchers : Accepted(y)' = Accepted(y)
  <2>1. EndPosition(x)' = EndPosition(x)
    <3>1. buffer' = buffer BY DEF Receive
    <3>2. QED BY ONLY <3>1, <1>a, <1>b, SMTT(30) DEF EndPosition
  <2>2. \A y \in Watchers : EndPosition(y)' = EndPosition(y)
    BY <2>1, <1>a DEF EndPosition, Receive
  <2>3. gap' = gap BY DEF Receive
  <2>4. QED BY ONLY <2>2, <2>3 DEF Accepted
<1>1. LogStatus' = LogStatus /\ LogEnd' = LogEnd
  BY <1>c, LogEndUnchanged DEF Receive
<1> DEFINE r == L!RevisionAt(gap[x], position[x])
<1>2. r \in 1..revision /\ Head(updateC[x]) = L!EventAt(log, r)
  <2>1. Follows(x, updateC[x][1], position[x] + 1 - 1)
    BY <1>a DEF Inductive, UpdateCFollowsLog
  <2>2. position[x] + 1 - 1 = position[x] BY <1>a
  <2>3. QED BY <2>1, <2>2, <1>b DEF Follows
<1>3. r <= Accepted(x) - 1
  <2>1. EndPosition(x) \in Nat /\ position[x] + 1 <= EndPosition(x)
    BY <1>a, SMTT(30) DEF EndPosition
  <2>2. position[x] \in Nat /\ gap[x] \in Nat BY <1>a
  <2>3. QED BY ONLY <2>1, <2>2 DEF Accepted, L!RevisionAt
<1>4. \/ LogStatus[x] = "open" /\ r <= Len(log)
      \/ LogStatus[x] = "ended" /\ r <= LogEnd[x]
  <2>1. CASE goroutine[x] \in {"drain", "closed"}
    BY <2>1, <1>3, <1>a DEF LogStatus, LogEnd
  <2>2. CASE goroutine[x] \notin {"drain", "closed"}
    BY <2>2, <1>2, <1>a DEF LogStatus
  <2>3. QED BY <2>1, <2>2
<1>5. received' = [received EXCEPT ![x] = L!EventAt(log, r)]
  BY <1>2 DEF Receive
<1>6. UNCHANGED <<log, gap>> /\ position' = [position EXCEPT ![x] = @ + 1]
  BY DEF Receive, store
<1> HIDE DEF r
<1>7. L!Deliver(x) BY <1>1, <1>4, <1>5, <1>6 DEF L!Deliver, r
<1>8. QED BY <1>7 DEF L!Next

\* Steps of writers and goroutines that the log does not see.
LEMMA HiddenSteps ==
  ASSUME Inductive,
         \/ \E w \in Writers : Lock(w)
         \/ \E w \in Writers, x \in Watchers : Notify(w, x)
         \/ \E x \in Watchers : Cancel(x) \/ CtxDone(x) \/ Drain(x) \/ Close(x)
         \/ UNCHANGED vars
  PROVE  UNCHANGED L!vars
<1> USE DEF store, writer, history
<1>1. ASSUME UNCHANGED <<log, goroutine, buffer, updateC, history>> PROVE UNCHANGED L!vars
  <2>1. \A y \in Watchers : Accepted(y)' = Accepted(y) BY <1>1 DEF Accepted, EndPosition
  <2>2. QED BY <1>1, <2>1, LogEndUnchanged DEF L!vars
<1>2. ASSUME NEW w \in Writers, Lock(w) PROVE UNCHANGED L!vars BY <1>1, <1>2 DEF Lock
<1>3. ASSUME NEW w \in Writers, NEW x \in Watchers, Notify(w, x) PROVE UNCHANGED L!vars
  <2>1. goroutine[x] \notin {"drain", "closed"}
    BY <1>3 DEF Notify, Inductive, ListenersRegistered
  <2>2. \A y \in Watchers : goroutine[y] \in {"drain", "closed"} => Accepted(y)' = Accepted(y)
    BY <1>3, <2>1 DEF Notify, Accepted, EndPosition, Inductive, TypeOK
  <2>3. QED BY <1>3, <2>2, LogEndUnchanged DEF Notify, L!vars
<1>4. ASSUME NEW x \in Watchers, Cancel(x) PROVE UNCHANGED L!vars BY <1>1, <1>4 DEF Cancel
<1>5. ASSUME NEW x \in Watchers, CtxDone(x) \/ Close(x) PROVE UNCHANGED L!vars
  <2>1. \A y \in Watchers : Accepted(y)' = Accepted(y)
    BY <1>5 DEF CtxDone, Close, Accepted, EndPosition
  <2>2. LogStatus' = LogStatus /\ LogEnd' = LogEnd
    BY <1>5, <2>1, LogMove DEF CtxDone, Close
  <2>3. QED BY <1>5, <2>2 DEF CtxDone, Close, L!vars
<1>6. ASSUME NEW x \in Watchers, Drain(x) PROVE UNCHANGED L!vars
  BY <1>6, MoveRefines DEF Drain
<1>7. CASE UNCHANGED vars BY <1>1, <1>7 DEF vars
<1>8. QED BY <1>2, <1>3, <1>4, <1>5, <1>6, <1>7

\* The store implements the abstract log, for every number of writers and
\* watches and every size of the ring and the channels: whatever order Put,
\* Delete, the listeners, the goroutines and the callers run in, a watch's
\* caller reads the log from where its watch started, loses at most one event,
\* and only on the way to its end, and a watch that ended still delivers what
\* it had accepted.
THEOREM Refinement == Spec => ImplementsWatchLog
<1>1. Init => L!Init
  BY DEF Init, L!Init, LogStatus, LogEnd, NoEvent, L!NoEvent
<1>2. Inductive /\ [Next]_vars => [L!Next]_L!vars
  <2> SUFFICES ASSUME Inductive, [Next]_vars PROVE [L!Next]_L!vars
    OBVIOUS
  <2>1. ASSUME NEW w \in Writers, NEW rev \in Revisions, Put(w, rev) PROVE [L!Next]_L!vars
    BY <2>1, PutRefines
  <2>2. ASSUME NEW w \in Writers, NEW rev \in Revisions, Delete(w, rev) PROVE [L!Next]_L!vars
    BY <2>2, DeleteRefines
  <2>3. ASSUME NEW w \in Writers, Return(w) PROVE [L!Next]_L!vars
    BY <2>3, UnlockEnds DEF Return
  <2>4. ASSUME NEW x \in Watchers, NEW rev \in Revisions, Watch(x, rev) PROVE [L!Next]_L!vars
    BY <2>4, WatchRefines
  <2>5. ASSUME NEW x \in Watchers, Forward(x) PROVE [L!Next]_L!vars BY <2>5, ForwardRefines
  <2>6. ASSUME NEW x \in Watchers, RLock(x) PROVE [L!Next]_L!vars BY <2>6, RLockRefines
  <2>7. ASSUME NEW x \in Watchers, Receive(x) PROVE [L!Next]_L!vars BY <2>7, ReceiveRefines
  <2>8. CASE \/ \E w \in Writers : Lock(w)
             \/ \E w \in Writers, x \in Watchers : Notify(w, x)
             \/ \E x \in Watchers : Cancel(x) \/ CtxDone(x) \/ Drain(x) \/ Close(x)
             \/ UNCHANGED vars
    BY <2>8, HiddenSteps
  <2>9. QED BY <2>1, <2>2, <2>3, <2>4, <2>5, <2>6, <2>7, <2>8
    DEF Next, WriterStep, GoroutineStep
<1>3. QED BY <1>1, <1>2, InductiveInvariant, PTL DEF Spec, L!Spec, ImplementsWatchLog

-----------------------------------------------------------------------------
(* Get, History and Watch read the log through the ring.                    *)

\* What a slot of the ring says of the log.
LEMMA SlotFacts ==
  ASSUME TypeOK, RingHoldsLog, NEW i \in Slots
  PROVE  /\ revision \in Nat /\ revision = Len(log) /\ i \in Nat
         /\ IsNil(values[i]) <=> i >= revision
         /\ i < revision => /\ values[i].revision = revision - i
                            /\ values[i].deleted <=> ~L!LiveAt(log, revision - i)
         /\ i >= revision => ~values[i].deleted
<1>1. revision \in Nat /\ revision = Len(log) /\ i \in Nat
  BY SizesAssumption DEF TypeOK, RingHoldsLog, Slots
<1>2. CASE i < revision
  <2>1. values[i].revision = revision - i /\ (values[i].deleted <=> log[revision - i] = "Delete")
    BY <1>2 DEF RingHoldsLog
  <2>2. revision - i \in 1..Len(log) BY <1>1, <1>2
  <2>3. log[revision - i] \in {"Put", "Delete"} BY <2>2 DEF TypeOK
  <2>4. QED BY <1>1, <1>2, <2>1, <2>2, <2>3 DEF L!LiveAt, IsNil
<1>3. CASE i >= revision
  BY <1>1, <1>3 DEF RingHoldsLog, IsNil, NilElement
<1>4. QED BY <1>1, <1>2, <1>3

\* The slots of the ring that the reads look at.
LEMMA SlotRanges ==
  /\ 0 \in Slots /\ RingSize - 1 \in Slots
  /\ 0..RingSize - 2 \subseteq Slots /\ 1..RingSize - 1 \subseteq Slots
BY SizesAssumption DEF Slots

\* The walk over the older slots finds a revision of the ring that is a value.
LEMMA OlderFinds ==
  ASSUME TypeOK, RingHoldsLog, NEW rev \in 0..revision - 1
  PROVE  Older(rev) = IF rev > revision - RingSize /\ L!LiveAt(log, rev)
                      THEN values[revision - rev] ELSE NilElement
<1> DEFINE hits == {i \in 1..RingSize - 1 :
                      /\ \A j \in 1..i : ~IsNil(values[j])
                      /\ ~values[i].deleted /\ values[i].revision = rev}
<1>a. revision \in Nat /\ revision = Len(log) BY DEF TypeOK, RingHoldsLog
<1>b. rev \in Nat BY <1>a
<1>1. ASSUME NEW i \in hits
      PROVE  i = revision - rev /\ L!LiveAt(log, rev) /\ rev > revision - RingSize
  <2>1. i \in 1..RingSize - 1 /\ i \in Slots BY <1>1, SlotRanges
  <2>2. ~IsNil(values[i]) BY <1>1, <2>1, SizesAssumption
  <2>3. i < revision /\ values[i].revision = revision - i BY <2>1, <2>2, SlotFacts
  <2>4. i = revision - rev BY <1>1, <2>1, <2>3, <1>a, <1>b, SizesAssumption
  <2>5. L!LiveAt(log, revision - i) BY <1>1, <2>1, <2>3, SlotFacts
  <2>6. revision - i = rev BY <2>1, <2>4, <1>a, <1>b, SizesAssumption
  <2>7. QED BY <2>1, <2>4, <2>5, <2>6, <1>a, <1>b, SizesAssumption
<1>2. ASSUME rev > revision - RingSize, L!LiveAt(log, rev) PROVE revision - rev \in hits
  <2>1. rev > 0 BY <1>2, <1>b DEF L!LiveAt
  <2>2. revision - rev \in 1..RingSize - 1 /\ revision - rev < revision
    BY <2>1, <1>2, <1>a, <1>b, SizesAssumption
  <2>3. \A j \in 1..revision - rev : ~IsNil(values[j])
    <3>1. SUFFICES ASSUME NEW j \in 1..revision - rev PROVE ~IsNil(values[j])
      OBVIOUS
    <3>2. j \in Slots /\ j < revision BY <2>1, <2>2, <1>a, <1>b, SizesAssumption DEF Slots
    <3>3. QED BY <3>2, SlotFacts
  <2>4. revision - rev \in Slots BY <2>2, SlotRanges
  <2>5. revision - (revision - rev) = rev BY <1>a, <1>b
  <2>6. ~values[revision - rev].deleted /\ values[revision - rev].revision = rev
    BY <2>2, <2>4, <2>5, <1>2, SlotFacts
  <2>7. QED BY <2>2, <2>3, <2>6
<1>3. hits \subseteq Nat OBVIOUS
<1>4. Older(rev) = IF hits = {} THEN NilElement ELSE values[Least(hits)] BY DEF Older
<1> HIDE DEF hits
<1>5. CASE hits = {} BY <1>2, <1>4, <1>5
<1>6. CASE hits # {}
  <2>1. Least(hits) \in hits BY <1>3, <1>6, LeastProperty
  <2>2. QED BY <2>1, <1>1, <1>4, <1>6
<1>7. QED BY <1>5, <1>6

\* Get.
LEMMA GetServes == ASSUME Inductive PROVE GetServesRing
<1>a. TypeOK /\ RingHoldsLog BY DEF Inductive
<1>b. revision \in Nat /\ revision = Len(log) BY <1>a DEF TypeOK, RingHoldsLog
<1>c. /\ 0 \in Slots
      /\ revision > 0 => /\ values[0].revision = revision
                         /\ values[0].deleted <=> ~L!LiveAt(log, revision)
                         /\ ~IsNil(values[0])
  <2>1. 0 \in Slots BY SlotRanges
  <2>2. revision - 0 = revision BY <1>b
  <2>3. QED BY <1>a, <1>b, <2>1, <2>2, SlotFacts
<1>d. ~L!LiveAt(log, 0) BY DEF L!LiveAt
<1>1. GetResult(Unset) = IF L!LiveAt(log, revision) THEN revision ELSE NotFound
  BY <1>b, <1>c, <1>d DEF GetResult
<1>2. ASSUME NEW rev \in 0..MaxRevision + 1
      PROVE  GetResult(rev) = CASE rev > revision -> OutOfRange
                                [] rev > revision - RingSize /\ L!LiveAt(log, rev) -> rev
                                [] OTHER -> NotFound
  <2>a. rev \in Nat /\ rev # Unset BY <1>2, SizesAssumption, UnsetAssumption
  <2>1. CASE rev > revision
    <3>1. GetResult(rev) = OutOfRange BY <2>a, <2>1 DEF GetResult
    <3>2. ~L!LiveAt(log, rev) BY <2>a, <2>1, <1>b DEF L!LiveAt
    <3>3. QED BY <2>1, <3>1, <3>2
  <2>2. CASE rev = revision
    <3>1. rev > revision - RingSize /\ ~(rev > revision) BY <2>2, <1>b, SizesAssumption
    <3>2. GetResult(rev) = IF L!LiveAt(log, rev) THEN rev ELSE NotFound
      BY <2>a, <2>2, <3>1, <1>b, <1>c, <1>d DEF GetResult
    <3>3. QED BY <3>1, <3>2
  <2>3. CASE rev < revision
    <3>0. ~(rev > revision) /\ rev # revision /\ rev \in 0..revision - 1 /\ revision # 0
      BY <2>3, <2>a, <1>b
    <3>1. GetResult(rev) = IF IsNil(Older(rev)) \/ Older(rev).deleted THEN NotFound
                           ELSE Older(rev).revision
      BY <2>a, <3>0 DEF GetResult
    <3>2. CASE rev > revision - RingSize /\ L!LiveAt(log, rev)
      <4>1. Older(rev) = values[revision - rev] BY <1>a, <3>0, <3>2, OlderFinds
      <4>2. rev > 0 BY <3>2, <2>a, <1>d
      <4>3. revision - rev \in Slots /\ revision - rev < revision
        BY <3>0, <3>2, <4>2, <1>b, SizesAssumption DEF Slots
      <4>4. revision - (revision - rev) = rev BY <2>a, <1>b
      <4>5. /\ ~IsNil(values[revision - rev]) /\ ~values[revision - rev].deleted
            /\ values[revision - rev].revision = rev
        BY <1>a, <3>2, <4>3, <4>4, SlotFacts
      <4>6. GetResult(rev) = rev BY <3>1, <4>1, <4>5
      <4>7. QED BY <3>0, <3>2, <4>6
    <3>3. CASE ~(rev > revision - RingSize /\ L!LiveAt(log, rev))
      <4>1. Older(rev) = NilElement BY <1>a, <3>0, <3>3, OlderFinds
      <4>2. GetResult(rev) = NotFound BY <3>1, <4>1 DEF IsNil, NilElement
      <4>3. QED BY <3>0, <3>3, <4>2
    <3>4. QED BY <3>2, <3>3
  <2>4. QED BY <2>1, <2>2, <2>3, <2>a, <1>b
<1>3. QED BY <1>1, <1>2 DEF GetServesRing

\* A visible revision is in a slot that every walk back reaches.
LEMMA VisibleSlot ==
  ASSUME TypeOK, RingHoldsLog, NEW rev \in Nat, Visible(rev)
  PROVE  /\ rev \in 1..revision /\ revision - rev \in 0..RingSize - 2
         /\ ~IsNil(values[revision - rev]) /\ ~values[revision - rev].deleted
         /\ values[revision - rev].revision = rev
         /\ WalkBack(rev) = revision - rev
<1>a. revision \in Nat /\ revision = Len(log) BY DEF TypeOK, RingHoldsLog
<1>1. rev \in 1..revision BY <1>a DEF Visible, L!LiveAt
<1>2. revision - rev \in 0..RingSize - 2 /\ revision - rev < revision
  BY <1>1, <1>a, SizesAssumption DEF Visible
<1>3. revision - rev \in Slots BY <1>2, SlotRanges
<1>4. revision - (revision - rev) = rev BY <1>a
<1>5. /\ ~IsNil(values[revision - rev]) /\ ~values[revision - rev].deleted
      /\ values[revision - rev].revision = rev
  BY <1>2, <1>3, <1>4, SlotFacts DEF Visible
<1>6. ASSUME NEW i \in 0..RingSize - 2, i < revision - rev PROVE ~Stops(rev, i)
  <2>1. i \in Slots /\ i < revision BY <1>1, <1>6, <1>a, SlotRanges, SizesAssumption
  <2>2. values[i].revision = revision - i /\ ~IsNil(values[i]) BY <2>1, SlotFacts
  <2>3. revision - i # rev BY <1>6, <1>a, SizesAssumption
  <2>4. QED BY <2>2, <2>3 DEF Stops
<1>7. WalkBack(rev) \in Slots /\ WalkBack(rev) <= revision - rev
  BY <1>2, <1>5, WalkBackStops DEF Stops
<1>8. WalkBack(rev) \in 0..RingSize - 2 /\ WalkBack(rev) # RingSize - 1
  BY <1>2, <1>7, SizesAssumption DEF Slots
<1>9. Stops(rev, WalkBack(rev)) BY <1>8, WalkBackStops
<1>10. ~(WalkBack(rev) < revision - rev) BY <1>6, <1>8, <1>9
<1>11. WalkBack(rev) = revision - rev BY <1>7, <1>8, <1>10, <1>a, SizesAssumption
<1>12. QED BY <1>1, <1>2, <1>5, <1>11

\* History.
LEMMA HistoryServes == ASSUME Inductive PROVE HistoryServesLog
<1>a. TypeOK /\ RingHoldsLog BY DEF Inductive
<1>b. revision \in Nat /\ revision = Len(log) BY <1>a DEF TypeOK, RingHoldsLog
<1> SUFFICES ASSUME NEW rev \in Revisions, NEW last,
                    last = IF rev = Unset THEN revision ELSE rev, Visible(last)
             PROVE  /\ ~HistoryNotFound(rev)
                    /\ \E first \in 1..last :
                         /\ HistoryList(rev) = [k \in 1..last - first + 1 |-> first + k - 1]
                         /\ \A r \in first..last : Visible(r)
                         /\ ~Visible(first - 1)
  BY DEF HistoryServesLog
<1>c. last \in Nat BY <1>b, SizesAssumption DEF Revisions
<1> DEFINE from == revision - last
<1>d. /\ last \in 1..revision /\ from \in 0..RingSize - 2
      /\ ~IsNil(values[from]) /\ ~values[from].deleted /\ WalkBack(last) = from
  BY <1>a, <1>c, VisibleSlot
<1>e. HistoryFrom(rev) = from BY <1>b, <1>d DEF HistoryFrom
<1>1. ~HistoryNotFound(rev)
  BY <1>b, <1>d, <1>e DEF HistoryNotFound, WalkFails
<1> DEFINE ends == {i \in from..RingSize - 1 :
                      i = RingSize - 1 \/ IsNil(values[i]) \/ values[i].deleted}
           stop == Least(ends)
<1>2. HistoryList(rev) = [k \in 1..stop - from |-> values[stop - k].revision]
  BY <1>e DEF HistoryList
<1>3. ends \subseteq Nat /\ RingSize - 1 \in ends BY <1>d, SizesAssumption
<1>4. stop \in ends /\ \A i \in ends : stop <= i
  <2> HIDE DEF ends
  <2>1. ends # {} BY <1>3
  <2>2. QED BY <1>3, <2>1, LeastProperty
<1>5. from \in Nat /\ stop \in from..RingSize - 1 /\ from < stop
  <2>1. stop \in from..RingSize - 1 /\ stop # from
    BY <1>4, <1>d, SizesAssumption
  <2> HIDE DEF stop, from
  <2>2. QED BY <2>1, <1>d, SizesAssumption
<1>6. ASSUME NEW i \in from..stop - 1
      PROVE  i \in Slots /\ i < revision /\ values[i].revision = revision - i /\ Visible(revision - i)
  <2>1. i \in from..RingSize - 1 /\ i \in Slots /\ i \in Nat /\ i < stop /\ i # RingSize - 1
    <3> HIDE DEF stop, from
    <3>1. QED BY <1>5, <1>6, SizesAssumption DEF Slots
  <2>2. i \notin ends
    <3> HIDE DEF ends
    <3>1. QED BY <1>3, <1>4, <1>5, <2>1
  <2>3. ~IsNil(values[i]) /\ ~values[i].deleted BY <2>1, <2>2
  <2>4. i < revision /\ values[i].revision = revision - i /\ L!LiveAt(log, revision - i)
    BY <1>a, <2>1, <2>3, <1>b, SlotFacts
  <2>5. revision - i > revision - (RingSize - 1)
    BY <2>1, <1>b, SizesAssumption DEF Slots
  <2>6. QED BY <2>1, <2>4, <2>5 DEF Visible
<1>7. ~Visible(revision - stop)
  <2>1. stop \in Slots BY <1>5, SizesAssumption DEF Slots
  <2>2. CASE stop = RingSize - 1 BY <2>2, <1>b, SizesAssumption DEF Visible
  <2>3. CASE IsNil(values[stop])
    <3>1. stop >= revision BY <1>a, <2>1, <2>3, SlotFacts
    <3>2. QED BY <2>1, <3>1, <1>b, SizesAssumption DEF Visible, L!LiveAt, Slots
  <2>4. CASE values[stop].deleted
    <3>1. ~L!LiveAt(log, revision - stop) BY <1>a, <1>b, <2>1, <2>4, SlotFacts DEF Slots
    <3>2. QED BY <3>1 DEF Visible
  <2>5. QED BY <1>4, <2>2, <2>3, <2>4
<1> HIDE DEF stop, ends
<1> DEFINE first == revision - stop + 1
<1>8. first \in 1..last
  <2>1. stop - 1 \in from..stop - 1 BY <1>5, SizesAssumption
  <2>2. stop - 1 < revision BY <1>6, <2>1
  <2>3. QED BY <2>2, <1>b, <1>c, <1>5, SizesAssumption
<1>9. HistoryList(rev) = [k \in 1..last - first + 1 |-> first + k - 1]
  <2>1. last - first + 1 = stop - from BY <1>b, <1>c, <1>5, SizesAssumption
  <2>2. \A k \in 1..stop - from : values[stop - k].revision = first + k - 1
    <3>1. SUFFICES ASSUME NEW k \in 1..stop - from PROVE values[stop - k].revision = first + k - 1
      OBVIOUS
    <3>2. stop - k \in from..stop - 1 BY <1>5, SizesAssumption
    <3>3. values[stop - k].revision = revision - (stop - k) BY <1>6, <3>2
    <3>4. QED BY <3>3, <1>5, <1>b, SizesAssumption
  <2> HIDE DEF first, from
  <2>3. QED BY <1>2, <2>1, <2>2
<1>10. ASSUME NEW r \in first..last PROVE Visible(r)
  <2>1. revision - r \in from..stop - 1 BY <1>b, <1>c, <1>5, SizesAssumption
  <2>2. revision - (revision - r) = r BY <1>b, <1>c, <1>8
  <2>3. Visible(revision - (revision - r)) BY <1>6, <2>1
  <2>4. QED BY <2>2, <2>3
<1>11. ~Visible(first - 1)
  <2>1. first - 1 = revision - stop BY <1>b, <1>5, SizesAssumption
  <2>2. QED BY <2>1, <1>7
<1>12. QED BY <1>1, <1>8, <1>9, <1>10, <1>11

\* Watch.
LEMMA ReplayServes == ASSUME Inductive PROVE ReplayServesLog
<1>a. TypeOK /\ RingHoldsLog /\ DeletesFollowPuts BY DEF Inductive
<1>b. revision \in Nat /\ revision = Len(log) BY <1>a DEF TypeOK, RingHoldsLog
<1> SUFFICES ASSUME NEW rev \in 0..MaxRevision, NEW from,
                    from = IF rev = 0 THEN revision ELSE rev, Visible(from)
             PROVE  /\ ~WatchNotFound(rev)
                    /\ Replay(rev)
                         = [k \in 1..revision - from + 1 |-> L!EventAt(log, from + k - 1)]
  BY DEF ReplayServesLog
<1>c. rev \in Nat /\ rev # Unset /\ from \in Nat BY <1>b, SizesAssumption, UnsetAssumption
<1> DEFINE slot == revision - from
<1>d. /\ from \in 1..revision /\ slot \in 0..RingSize - 2 /\ slot \in Nat
      /\ ~IsNil(values[slot]) /\ ~values[slot].deleted /\ WalkBack(from) = slot
  BY <1>a, <1>c, VisibleSlot
<1>1. WatchFrom(rev) = slot BY <1>b, <1>c, <1>d DEF WatchFrom
<1>2. ~WatchNotFound(rev) BY <1>c, <1>d DEF WatchNotFound, WalkFails
<1>3. rev = 0 => slot = 0 BY <1>b
<1>4. slot # RingSize - 1 BY <1>d, SizesAssumption
<1>5. Replay(rev) = [k \in 1..slot + 1 |-> SlotEvent(slot + 1 - k)]
  <2> HIDE DEF slot
  <2>1. QED BY <1>1, <1>3, <1>4, <1>d DEF Replay
<1>6. \A k \in 1..slot + 1 : SlotEvent(slot + 1 - k) = L!EventAt(log, from + k - 1)
  <2>1. SUFFICES ASSUME NEW k \in 1..slot + 1
                 PROVE  SlotEvent(slot + 1 - k) = L!EventAt(log, from + k - 1)
    OBVIOUS
  <2>0. slot \in 0..RingSize - 2 /\ slot < revision /\ from = revision - slot
    BY <1>b, <1>c, <1>d
  <2> HIDE DEF slot
  <2>2. /\ slot + 1 - k \in 0..RingSize - 2 /\ slot + 1 - k < revision
        /\ revision - (slot + 1 - k) = from + k - 1
    <3>1. slot \in Int /\ k \in Int /\ 1 <= k /\ k <= slot + 1 BY <2>0
    <3>2. QED BY ONLY <2>0, <3>1, <1>b, SizesAssumption
  <2>3. slot + 1 - k \in Slots BY <2>2, SlotRanges
  <2>4. ~IsNil(values[slot + 1 - k]) BY <1>a, <2>2, <2>3, SlotFacts
  <2>5. SlotEvent(slot + 1 - k) = L!EventAt(log, revision - (slot + 1 - k))
    BY <1>a, <2>2, <2>4, SlotEventOfLog
  <2>6. QED BY <2>2, <2>5
<1>7. Replay(rev) = [k \in 1..revision - from + 1 |-> L!EventAt(log, from + k - 1)]
  BY <1>5, <1>6
<1>8. QED BY <1>2, <1>7

\* Whatever the ring has overwritten, Get serves each revision it still holds
\* and refuses the others, History up to a revision the walk reaches is the
\* unbroken run of values that ends with it, and a Watch from such a revision
\* replays every event since, each with the right Previous.
THEOREM ReadsCorrect == Spec => []ReadsServeLog
<1>1. Inductive => ReadsServeLog
  BY GetServes, HistoryServes, ReplayServes DEF ReadsServeLog
<1>2. QED BY <1>1, InductiveInvariant, PTL
=============================================================================
