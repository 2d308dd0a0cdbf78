----------------------------- MODULE ValueStore -----------------------------
(***************************************************************************)
(* The in-memory value store, storage/inmemory/value_store.go: one value,  *)
(* its last RingSize revisions in a ring, and the watches on it.  Writers  *)
(* (Put, Delete) take the store's write lock, advance the ring and, still  *)
(* holding the lock, wait until every listener has accepted the event.     *)
(* Each watch has a goroutine that moves events from the channel `buffer'  *)
(* the listener writes to, to the channel `updateC' the caller reads from. *)
(*                                                                         *)
(* A value is identified by the revision that wrote it.  values[i] is the  *)
(* element reached from s.values by i calls of Prev(), so values[0] is the *)
(* newest and values[RingSize - 1] is s.values.Next(), the oldest.         *)
(***************************************************************************)
EXTENDS Integers, Sequences, FiniteSets

CONSTANTS
  Writers,      \* goroutines that call Put and Delete
  Watchers,     \* calls of Watch, each made once
  RingSize,     \* ring.New(64)
  BufferCap,    \* make(chan ..., 8)
  UpdateCap,    \* make(chan ..., 64)
  Cancellable,  \* the watches whose callers may cancel their context
  MaxRevision,  \* bound of the model: no write is made past this revision
  Unset         \* an option's Revision that is nil

ASSUME SizesAssumption ==
  /\ RingSize \in Nat /\ RingSize >= 2
  /\ BufferCap \in Nat /\ BufferCap >= 1
  /\ UpdateCap \in Nat /\ UpdateCap >= RingSize
  /\ MaxRevision \in Nat
ASSUME UnsetAssumption == Unset \notin Int

VARIABLES
  revision,   \* s.revision
  values,     \* s.values
  watches,    \* the ids registered in s.watches
  pc,         \* per writer: "idle", "lock" (called Lock), "notify" (holds it)
  pending,    \* the watches the lock holder has still to notify
  event,      \* the event its listener calls carry
  goroutine,  \* per watch, where its goroutine is
  buffer,     \* per watch, the channel its listener writes to
  updateC,    \* per watch, the channel its caller reads from
  cancelled,  \* the watches whose context is done
  log,        \* history: the kind of every write, by revision
  position,   \* history: the next position of a watch's stream to be read
  gap,        \* history: the revision a watch dropped, 0 if none
  received    \* history: the event a watch's caller read last

store   == <<revision, values, log>>
writer  == <<pc, pending, event>>
history == <<position, gap, received>>
vars == <<store, watches, writer, goroutine, buffer, updateC, cancelled, history>>

Slots     == 0..RingSize - 1
Revisions == {Unset} \cup 0..MaxRevision + 1   \* every Revision option

\* A slot that was never written, ring.Ring.Value = nil.
NilElement == [revision |-> 0, deleted |-> FALSE]
Element    == [revision : Nat, deleted : BOOLEAN]
IsNil(e)   == e.revision = 0

Event   == [type : {"None", "Put", "Delete"}, current : Nat, previous : Nat]
NoEvent == [type |-> "None", current |-> 0, previous |-> 0]

GoroutineStates == {"none", "run", "exit", "rlock", "drain", "closed"}

\* The least element of a set of naturals.
Least(S) == CHOOSE i \in S : \A j \in S : i <= j

-----------------------------------------------------------------------------
(* sync.RWMutex: one writer at a time; a writer that called Lock stops new  *)
(* readers and waits for the ones inside; Unlock lets every waiting reader  *)
(* in.  The only readers that stay inside for more than one step are the    *)
(* watch goroutines that drain their buffer.                                *)

NoWriter == \A w \in Writers : pc[w] = "idle"
Readers  == {x \in Watchers : goroutine[x] = "drain"}
Waiting  == {x \in Watchers : goroutine[x] = "rlock"}

\* A goroutine that gets the read lock first removes its listener.
Admit(S) ==
  /\ goroutine' = [x \in Watchers |-> IF x \in S THEN "drain" ELSE goroutine[x]]
  /\ watches' = watches \ S

Unlock(w) ==
  /\ pc' = [pc EXCEPT ![w] = "idle"]
  /\ Admit(Waiting)

-----------------------------------------------------------------------------
(* Put and Delete.                                                          *)

\* What Previous of the next event is: the newest element if it is a value.
LiveRevision(e) == IF e.deleted THEN 0 ELSE e.revision

PutAllowed(rev) ==
  \/ rev = Unset
  \/ rev = 0 /\ (revision = 0 \/ values[0].deleted)
  \/ rev # 0 /\ rev = revision

\* Mutant of DeleteAllowed: a deleted value is deleted again.
DeleteAllowed_again(rev) == revision # 0 /\ (rev = Unset \/ rev = revision)

DeleteAllowed(rev) ==
  /\ revision # 0
  /\ rev = Unset \/ rev = revision
  /\ ~values[0].deleted

\* Mutant of PutEvent: a deleted element is taken for a value.
PutEvent_tombstone ==
  [type |-> "Put", current |-> revision + 1, previous |-> values[0].revision]

PutEvent ==
  [type |-> "Put", current |-> revision + 1, previous |-> LiveRevision(values[0])]

DeleteEvent ==
  [type |-> "Delete", current |-> 0, previous |-> values[0].revision]

\* Mutant of Advance: the newest element is overwritten in place.
Advance_inPlace(deleted) ==
  /\ revision' = revision + 1
  /\ values' = [values EXCEPT ![0] = [revision |-> revision + 1, deleted |-> deleted]]

\* s.values = s.values.Next(), and the element stored there.
Advance(deleted) ==
  /\ revision' = revision + 1
  /\ values' = [i \in Slots |->
                  IF i = 0 THEN [revision |-> revision + 1, deleted |-> deleted]
                           ELSE values[i - 1]]

\* s.lock.Lock() is called.
Lock(w) ==
  /\ NoWriter
  /\ pc' = [pc EXCEPT ![w] = "lock"]
  /\ UNCHANGED <<store, watches, pending, event, goroutine, buffer, updateC,
                 cancelled, history>>

HasLock(w) == pc[w] = "lock" /\ Readers = {}

\* Mutant of Commit: the listeners are not called.
Commit_silent(w, kind, deleted, ev) ==
  /\ revision < MaxRevision
  /\ Advance(deleted)
  /\ log' = Append(log, kind)
  /\ pc' = [pc EXCEPT ![w] = "notify"]
  /\ pending' = {}
  /\ event' = ev
  /\ UNCHANGED <<watches, goroutine>>

\* The listeners are called while the lock is held.
Commit(w, kind, deleted, ev) ==
  /\ revision < MaxRevision
  /\ Advance(deleted)
  /\ log' = Append(log, kind)
  /\ pc' = [pc EXCEPT ![w] = "notify"]
  /\ pending' = watches
  /\ event' = ev
  /\ UNCHANGED <<watches, goroutine>>

Refuse(w) ==
  /\ Unlock(w)
  /\ UNCHANGED <<store, pending, event>>

Put(w, rev) ==
  /\ HasLock(w)
  /\ \/ PutAllowed(rev) /\ Commit(w, "Put", FALSE, PutEvent)
     \/ ~PutAllowed(rev) /\ Refuse(w)
  /\ UNCHANGED <<buffer, updateC, cancelled, history>>

Delete(w, rev) ==
  /\ HasLock(w)
  /\ \/ DeleteAllowed(rev) /\ Commit(w, "Delete", TRUE, DeleteEvent)
     \/ ~DeleteAllowed(rev) /\ Refuse(w)
  /\ UNCHANGED <<buffer, updateC, cancelled, history>>

\* Mutant of Notify: a listener whose buffer is full drops the event.
Notify_dropping(w, x) ==
  /\ pc[w] = "notify" /\ x \in pending
  /\ IF Len(buffer[x]) < BufferCap
     THEN buffer' = [buffer EXCEPT ![x] = Append(@, event)]
     ELSE UNCHANGED buffer
  /\ pending' = pending \ {x}
  /\ UNCHANGED <<store, watches, pc, event, goroutine, updateC, cancelled, history>>

\* One listener call, buffer <- ev, returns.
Notify(w, x) ==
  /\ pc[w] = "notify" /\ x \in pending
  /\ Len(buffer[x]) < BufferCap
  /\ buffer' = [buffer EXCEPT ![x] = Append(@, event)]
  /\ pending' = pending \ {x}
  /\ UNCHANGED <<store, watches, pc, event, goroutine, updateC, cancelled, history>>

\* wg.Wait() is over: the operation returns.
Return(w) ==
  /\ pc[w] = "notify" /\ pending = {}
  /\ Unlock(w)
  /\ UNCHANGED <<store, pending, event, buffer, updateC, cancelled, history>>

-----------------------------------------------------------------------------
(* Get and History: results of a read made while no writer holds the lock.  *)

NotFound   == 0     \* storage.ErrNotFound
OutOfRange == -1    \* codes.OutOfRange

\* Mutant of Older: the walk stops short of the oldest slot.
Older_short(rev) ==
  LET hits == {i \in 1..RingSize - 2 :
                 /\ \A j \in 1..i : ~IsNil(values[j])
                 /\ ~values[i].deleted /\ values[i].revision = rev}
  IN IF hits = {} THEN NilElement ELSE values[Least(hits)]

\* The element of an older revision: the walk over every other slot.
Older(rev) ==
  LET hits == {i \in 1..RingSize - 1 :
                 /\ \A j \in 1..i : ~IsNil(values[j])
                 /\ ~values[i].deleted /\ values[i].revision = rev}
  IN IF hits = {} THEN NilElement ELSE values[Least(hits)]

\* The revision Get returns the value of, or an error.
GetResult(rev) ==
  LET found == IF rev = Unset \/ rev = revision THEN values[0] ELSE Older(rev) IN
  IF rev # Unset /\ rev > revision THEN OutOfRange
  ELSE IF revision = 0 \/ IsNil(found) \/ found.deleted THEN NotFound
  ELSE found.revision

\* Where the walk back from the newest element stops: an empty slot, the
\* revision, or s.values.Next(), which is never looked at.
WalkBack(rev) ==
  LET hits == {i \in 0..RingSize - 2 :
                 \/ IsNil(values[i])
                 \/ ~values[i].deleted /\ values[i].revision = rev}
  IN IF hits = {} THEN RingSize - 1 ELSE Least(hits)

\* The walk met an empty slot.
WalkFails(rev) == WalkBack(rev) < RingSize - 1 /\ IsNil(values[WalkBack(rev)])

HistoryFrom(rev) == IF rev = Unset THEN 0 ELSE WalkBack(rev)

HistoryNotFound(rev) ==
  \/ revision = 0
  \/ rev # Unset /\ WalkFails(rev)
  \/ values[HistoryFrom(rev)].deleted

\* The revisions History returns, oldest first.
HistoryList(rev) ==
  LET from == HistoryFrom(rev)
      stop == Least({i \in from..RingSize - 1 :
                       i = RingSize - 1 \/ IsNil(values[i]) \/ values[i].deleted})
  IN [k \in 1..stop - from |-> values[stop - k].revision]

-----------------------------------------------------------------------------
(* Watch and its goroutine.                                                 *)

\* Where the replay starts; at s.values.Next() nothing is replayed.
WatchFrom(rev) ==
  IF rev = Unset THEN RingSize - 1 ELSE IF rev > 0 THEN WalkBack(rev) ELSE 0

WatchNotFound(rev) == rev # Unset /\ rev > 0 /\ WalkFails(rev)

\* The event replayed for a slot; Previous is the element before it.
SlotEvent(i) ==
  [type     |-> IF values[i].deleted THEN "Delete" ELSE "Put",
   current  |-> LiveRevision(values[i]),
   previous |-> LiveRevision(values[i + 1])]

Replay(rev) ==
  LET from == WatchFrom(rev) IN
  IF \/ from = RingSize - 1
     \/ rev = 0 /\ (IsNil(values[0]) \/ values[0].deleted)
  THEN <<>>
  ELSE [k \in 1..from + 1 |-> SlotEvent(from + 1 - k)]

Watch(x, rev) ==
  /\ goroutine[x] = "none" /\ NoWriter
  /\ ~WatchNotFound(rev)
  /\ updateC' = [updateC EXCEPT ![x] = Replay(rev)]
  /\ watches' = watches \cup {x}
  /\ goroutine' = [goroutine EXCEPT ![x] = "run"]
  /\ position' = [position EXCEPT ![x] = revision + 1 - Len(Replay(rev))]
  /\ UNCHANGED <<store, writer, buffer, cancelled, gap, received>>

\* The caller's context is cancelled.
Cancel(x) ==
  /\ x \in Cancellable \ cancelled
  /\ goroutine[x] \notin {"none", "closed"}
  /\ cancelled' = cancelled \cup {x}
  /\ UNCHANGED <<store, watches, writer, goroutine, buffer, updateC, history>>

\* The goroutine's select took <-ctx.Done().
CtxDone(x) ==
  /\ goroutine[x] = "run" /\ x \in cancelled
  /\ goroutine' = [goroutine EXCEPT ![x] = "exit"]
  /\ UNCHANGED <<store, watches, writer, buffer, updateC, cancelled, history>>

\* It took <-buffer: the event is passed on, or, if the caller is not
\* reading, dropped and the watch given up.
Forward(x) ==
  /\ goroutine[x] = "run" /\ buffer[x] # <<>>
  /\ buffer' = [buffer EXCEPT ![x] = Tail(@)]
  /\ \/ /\ Len(updateC[x]) < UpdateCap
        /\ updateC' = [updateC EXCEPT ![x] = Append(@, Head(buffer[x]))]
        /\ UNCHANGED <<goroutine, gap>>
     \/ /\ Len(updateC[x]) = UpdateCap
        /\ goroutine' = [goroutine EXCEPT ![x] = "exit"]
        /\ gap' = [gap EXCEPT ![x] = position[x] + Len(updateC[x])]
        /\ UNCHANGED updateC
  /\ UNCHANGED <<store, watches, writer, cancelled, position, received>>

\* Mutant of RLock: the deferred function does not take the read lock.
RLock_skipped(x) ==
  /\ goroutine[x] = "exit"
  /\ Admit({x})
  /\ UNCHANGED <<store, writer, buffer, updateC, cancelled, history>>

\* The deferred function calls s.lock.RLock().
RLock(x) ==
  /\ goroutine[x] = "exit"
  /\ IF NoWriter
     THEN Admit({x})
     ELSE goroutine' = [goroutine EXCEPT ![x] = "rlock"] /\ UNCHANGED watches
  /\ UNCHANGED <<store, writer, buffer, updateC, cancelled, history>>

\* Mutant of Drain: events are moved whether or not there is room for them.
Drain_unbounded(x) ==
  /\ goroutine[x] = "drain" /\ buffer[x] # <<>>
  /\ buffer' = [buffer EXCEPT ![x] = Tail(@)]
  /\ updateC' = [updateC EXCEPT ![x] = Append(@, Head(buffer[x]))]
  /\ UNCHANGED <<store, watches, writer, goroutine, cancelled, history>>

\* Draining waits for room in updateC, with the read lock held.
Drain(x) ==
  /\ goroutine[x] = "drain" /\ buffer[x] # <<>>
  /\ Len(updateC[x]) < UpdateCap
  /\ buffer' = [buffer EXCEPT ![x] = Tail(@)]
  /\ updateC' = [updateC EXCEPT ![x] = Append(@, Head(buffer[x]))]
  /\ UNCHANGED <<store, watches, writer, goroutine, cancelled, history>>

\* close(buffer); close(updateC); and the read lock is released.
Close(x) ==
  /\ goroutine[x] = "drain" /\ buffer[x] = <<>>
  /\ goroutine' = [goroutine EXCEPT ![x] = "closed"]
  /\ UNCHANGED <<store, watches, writer, buffer, updateC, cancelled, history>>

\* The watch's caller reads an event.
Receive(x) ==
  /\ updateC[x] # <<>>
  /\ received' = [received EXCEPT ![x] = Head(updateC[x])]
  /\ updateC' = [updateC EXCEPT ![x] = Tail(@)]
  /\ position' = [position EXCEPT ![x] = @ + 1]
  /\ UNCHANGED <<store, watches, writer, goroutine, buffer, cancelled, gap>>

-----------------------------------------------------------------------------
Init ==
  /\ revision = 0
  /\ values = [i \in Slots |-> NilElement]
  /\ watches = {}
  /\ pc = [w \in Writers |-> "idle"]
  /\ pending = {}
  /\ event = NoEvent
  /\ goroutine = [x \in Watchers |-> "none"]
  /\ buffer = [x \in Watchers |-> <<>>]
  /\ updateC = [x \in Watchers |-> <<>>]
  /\ cancelled = {}
  /\ log = <<>>
  /\ position = [x \in Watchers |-> 0]
  /\ gap = [x \in Watchers |-> 0]
  /\ received = [x \in Watchers |-> NoEvent]

WriterStep(w) ==
  \/ \E rev \in Revisions : Put(w, rev) \/ Delete(w, rev)
  \/ \E x \in Watchers : Notify(w, x)
  \/ Return(w)

GoroutineStep(x) == CtxDone(x) \/ Forward(x) \/ RLock(x) \/ Drain(x) \/ Close(x)

Next ==
  \/ \E w \in Writers : Lock(w) \/ WriterStep(w)
  \/ \E x \in Watchers :
       \/ \E rev \in Revisions : Watch(x, rev)
       \/ Cancel(x) \/ GoroutineStep(x) \/ Receive(x)

Spec == Init /\ [][Next]_vars
-----------------------------------------------------------------------------
(* Invariants.                                                              *)

\* Every variable has its type and no channel exceeds its capacity.
TypeOK ==
  /\ revision \in 0..MaxRevision
  /\ values \in [Slots -> Element]
  /\ watches \subseteq Watchers
  /\ pc \in [Writers -> {"idle", "lock", "notify"}]
  /\ pending \subseteq Watchers
  /\ event \in Event
  /\ goroutine \in [Watchers -> GoroutineStates]
  /\ buffer \in [Watchers -> Seq(Event)]
  /\ updateC \in [Watchers -> Seq(Event)]
  /\ \A x \in Watchers : Len(buffer[x]) <= BufferCap /\ Len(updateC[x]) <= UpdateCap
  /\ cancelled \subseteq Watchers
  /\ log \in Seq({"Put", "Delete"})
  /\ position \in [Watchers -> Nat]
  /\ gap \in [Watchers -> Nat]
  /\ received \in [Watchers -> Event]

\* The events a watch has accepted and its caller has not read yet.
Unread(x) == updateC[x] \o buffer[x]

\* The position after the last event the watch has accepted, and its revision.
EndPosition(x) == position[x] + Len(updateC[x]) + Len(buffer[x])
Accepted(x) ==
  IF gap[x] # 0 /\ EndPosition(x) >= gap[x] THEN EndPosition(x) + 1 ELSE EndPosition(x)

\* A watch is open until its listener is removed; it then ends with the last
\* revision it accepted.
LogStatus ==
  [x \in Watchers |-> CASE goroutine[x] = "none" -> "none"
                       [] goroutine[x] \in {"drain", "closed"} -> "ended"
                       [] OTHER -> "open"]
LogEnd ==
  [x \in Watchers |->
     IF goroutine[x] \in {"drain", "closed"} THEN Accepted(x) - 1 ELSE 0]

\* The store as an abstract log read by watches.
L == INSTANCE WatchLog WITH status <- LogStatus, end <- LogEnd

\* The ring holds exactly the last RingSize writes, newest first, whatever
\* was overwritten, and a slot is empty only if it was never needed.
RingHoldsLog ==
  /\ revision = Len(log)
  /\ \A i \in Slots :
       IF i < revision
       THEN /\ values[i].revision = revision - i
            /\ values[i].deleted <=> log[revision - i] = "Delete"
       ELSE values[i] = NilElement

\* What a watch's caller will read next is, event by event, the log from the
\* position it has reached: nothing out of order, twice, with a wrong
\* Previous, or missing (but for the one event an overflow dropped).
StreamsFollowLog ==
  \A x \in Watchers : \A k \in 1..Len(Unread(x)) :
    LET r == L!RevisionAt(gap[x], position[x] + k - 1) IN
    r \in 1..revision /\ Unread(x)[k] = L!EventAt(log, r)

\* A registered watch has accepted every revision of the store, except the
\* newest one while the writer is still waiting for it.
WatchesKeepUp ==
  \A x \in watches : Accepted(x) = revision + (IF x \in pending THEN 0 ELSE 1)

\* A writer never calls a listener whose channel is closed (which would
\* panic), although a watch may end at any time during Put or Delete.
NoSendOnClosed == \A x \in pending : goroutine[x] \in {"run", "exit", "rlock"}

\* The lock excludes: at most one writer is past Lock, and while it calls the
\* listeners no watch goroutine is inside the read lock.
LockExcludes ==
  /\ \A v, w \in Writers : pc[v] # "idle" /\ pc[w] # "idle" => v = w
  /\ (\E w \in Writers : pc[w] = "notify") => Readers = {}

\* Get serves each of the last RingSize revisions that holds a value, says
\* OutOfRange of a future one, and NotFound of every other.
GetServesRing ==
  /\ GetResult(Unset) = IF L!LiveAt(log, revision) THEN revision ELSE NotFound
  /\ \A rev \in 0..MaxRevision + 1 :
       GetResult(rev) =
         CASE rev > revision -> OutOfRange
           [] rev > revision - RingSize /\ L!LiveAt(log, rev) -> rev
           [] OTHER -> NotFound

\* The revisions a walk back can find: one less than the ring holds.
Visible(rev) == rev > revision - (RingSize - 1) /\ L!LiveAt(log, rev)

\* History up to a visible revision is the unbroken run of values that ends
\* with it, back to the write that created the key or to the end of the ring.
HistoryServesLog ==
  \A rev \in Revisions :
    LET last == IF rev = Unset THEN revision ELSE rev IN
    Visible(last) =>
      /\ ~HistoryNotFound(rev)
      /\ \E first \in 1..last :
           /\ HistoryList(rev) = [k \in 1..last - first + 1 |-> first + k - 1]
           /\ \A r \in first..last : Visible(r)
           /\ ~Visible(first - 1)

\* A watch from a visible revision replays every event since; a watch from
\* revision 0 replays the newest value alone, if there is one.
ReplayServesLog ==
  \A rev \in 0..MaxRevision :
    LET from == IF rev = 0 THEN revision ELSE rev IN
    Visible(from) =>
      /\ ~WatchNotFound(rev)
      /\ Replay(rev) = [k \in 1..revision - from + 1 |-> L!EventAt(log, from + k - 1)]

\* Whatever the ring has overwritten, Get, History and Watch serve the log.
ReadsServeLog == GetServesRing /\ HistoryServesLog /\ ReplayServesLog

-----------------------------------------------------------------------------
(* The inductive invariant from which the ones above are proved.            *)

\* Only an existing value is ever deleted.
DeletesFollowPuts ==
  \A r \in 1..Len(log) : log[r] = "Delete" => L!LiveAt(log, r - 1)

\* The registered listeners are those of the goroutines that have not got the
\* read lock, and only a writer that holds the lock has any left to call.
ListenersRegistered ==
  /\ watches = {x \in Watchers : goroutine[x] \in {"run", "exit", "rlock"}}
  /\ pending \subseteq watches
  /\ pending # {} => \E w \in Writers : pc[w] = "notify"

\* The event being sent is the event of the newest revision.
EventIsNewest ==
  (\E w \in Writers : pc[w] = "notify") =>
    revision > 0 /\ event = L!EventAt(log, revision)

\* A watch has a gap only once its goroutine has given up, and everything up
\* to the gap was accepted.
GapsEndWatches ==
  \A x \in Watchers :
    /\ goroutine[x] = "none" => updateC[x] = <<>> /\ buffer[x] = <<>>
    /\ goroutine[x] \in {"none", "run"} => gap[x] = 0
    /\ goroutine[x] # "none" => position[x] > 0
    /\ gap[x] <= EndPosition(x)

Follows(x, ev, p) ==
  LET r == L!RevisionAt(gap[x], p) IN r \in 1..revision /\ ev = L!EventAt(log, r)

\* The two halves of StreamsFollowLog, by channel.
UpdateCFollowsLog ==
  \A x \in Watchers : \A k \in 1..Len(updateC[x]) :
    Follows(x, updateC[x][k], position[x] + k - 1)
BufferFollowsLog ==
  \A x \in Watchers : \A k \in 1..Len(buffer[x]) :
    Follows(x, buffer[x][k], position[x] + Len(updateC[x]) + k - 1)

Inductive ==
  /\ TypeOK /\ RingHoldsLog /\ DeletesFollowPuts /\ LockExcludes
  /\ ListenersRegistered /\ EventIsNewest /\ GapsEndWatches
  /\ UpdateCFollowsLog /\ BufferFollowsLog /\ WatchesKeepUp

-----------------------------------------------------------------------------
(* The store implements the abstract log.                                   *)

\* Every step of writers, goroutines and callers is a step of the abstract
\* log or invisible to it: in particular each event a caller reads is the
\* event of the log at its position, a watch loses at most one event, and
\* it does so only on its way to its end.
ImplementsWatchLog == L!Spec

-----------------------------------------------------------------------------
(* Liveness: goroutines run, and the callers of Watch read their channel.   *)

Fairness ==
  /\ \A w \in Writers : WF_vars(WriterStep(w))
  /\ \A x \in Watchers :
       /\ WF_vars(CtxDone(x)) /\ WF_vars(Forward(x)) /\ WF_vars(RLock(x))
       /\ WF_vars(Drain(x)) /\ WF_vars(Close(x)) /\ WF_vars(Receive(x))

FairSpec == Spec /\ Fairness

\* A Put or Delete that wrote its value returns.
WritersReturn == \A w \in Writers : pc[w] = "notify" ~> pc[w] = "idle"

\* Every write made while a watch is open is read by the watch's caller.
WritesReachCallers ==
  \A x \in Watchers : \A r \in 1..MaxRevision :
    (goroutine[x] = "run" /\ revision = r) ~> position[x] > r

\* While callers read and do not cancel, every write completes: it returns, and
\* is read by the callers of the watches open at the time.
WritesComplete == WritersReturn /\ WritesReachCallers

\* After its context is cancelled, a watch's channel is closed.
CancelCloses == \A x \in Watchers : x \in cancelled ~> goroutine[x] = "closed"

=============================================================================
