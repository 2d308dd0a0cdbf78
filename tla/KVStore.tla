------------------------------ MODULE KVStore -------------------------------
(***************************************************************************)
(* The in-memory key-value store, storage/inmemory/kv_store.go: a map from *)
(* keys to value stores.  A watch on a key or prefix opens a watch on each *)
(* matching value store, also on those created later, and one goroutine    *)
(* per value store forwards its events to the watch's channel.             *)
(*                                                                         *)
(* A value store and the streams of its watches are the log that module    *)
(* WatchLog promises: log[k][r] is the write that made revision r of key   *)
(* k.  The methods of the store hold its mutex throughout.  A value store  *)
(* gives up a watch that has more than 64 events waiting, and forgets its  *)
(* oldest revisions: MaxWrites is below that.                              *)
(*                                                                         *)
(* A watch is made through an adapter of storage/kvutil/kvutil.go (a store *)
(* for one key or one prefix, or one that decodes messages), whose         *)
(* goroutine passes events on, and read by a caller that reads until its   *)
(* channel is closed or by the context of storage/context.go.              *)
(***************************************************************************)
EXTENDS Integers, Sequences, FiniteSets

CONSTANTS
  Keys,
  Watches,         \* calls of Watch, each made once
  Selections,      \* the sets of keys that watches match
  WatchRevisions,  \* the Revision options of the watches
  Readers,         \* who may read a watch: "caller", "context"
  Cancellable,     \* the watches whose callers may cancel their context
  ChannelCap,      \* make(chan ..., 128)
  MaxWrites,       \* bound of the model: writes, to all keys together
  Unset            \* an option's Revision that is nil

ASSUME InputsAssumption ==
  /\ Selections \subseteq SUBSET Keys
  /\ Unset \notin Int /\ WatchRevisions \subseteq Nat \cup {Unset}
  /\ Readers \subseteq {"caller", "context"}
  /\ ChannelCap \in Nat \ {0} /\ MaxWrites \in Nat

VARIABLES
  keys,       \* the keys in m.keys
  log,        \* per key, the writes of its value store
  watch,      \* per watch: its state, the keys it matches, its revision
              \*   and its reader
  cancelled,  \* the watches whose context is done
  next,       \* per watch and key, the revision its goroutine takes next,
              \*   0 if it does not watch the key's value store
  hand,       \* the revision that goroutine has in hand, 0 if none
  returned,   \* per watch, the keys whose goroutine has returned
  channel,    \* per watch, the events in `aggregated'
  adapter,    \* per watch, its adapter: the event it holds, its channel
              \*   `out', and whether that is closed
  ended,      \* per watch, why the watch context is done, "open" if it is not
  since,      \* history: per watch and key, the first revision of the watch
  due         \* history: per watch and key, the revision its reader is to
              \*   read next

stores     == <<keys, log>>
goroutines == <<next, hand, returned>>
reader     == <<ended, since, due>>
vars == <<stores, watch, cancelled, goroutines, channel, adapter, reader>>

LiveAt(k, r) == r \in 1..Len(log[k]) /\ log[k][r] = "Put"
Live(k) == LiveAt(k, Len(log[k]))

\* Get: the latest revision of a key, 0 if it is not found.
Get(k) == IF k \in keys /\ Live(k) THEN Len(log[k]) ELSE 0

\* The keys ListKeys returns for a selection: those whose value can be got.
ListKeys(selection) == {k \in selection \cap keys : Get(k) # 0}

\* The goroutines that a watch waits for.
Running(w) == {k \in Keys : next[w][k] # 0} \ returned[w]

-----------------------------------------------------------------------------
(* Watch.                                                                   *)

\* A value store refuses to be watched from a revision it does not have.
Refuses(k, rev) == rev # Unset /\ rev > 0 /\ ~LiveAt(k, rev)

\* The first revision of a watch on a value store.
FirstRevision(k, rev) ==
  CASE rev # Unset /\ rev > 0 -> rev
    [] rev = 0 /\ Live(k) -> Len(log[k])
    [] OTHER -> Len(log[k]) + 1

\* Mutant of Matching: only the keys that hold a value are matched.
Matching_live(selection) == ListKeys(selection)

Matching(selection) == selection \cap keys

\* Every matching value store is watched; it fails if they all refuse.
Watch(w, selection, rev, by) ==
  LET matching == Matching(selection)
      watched  == {k \in matching : ~Refuses(k, rev)}
  IN
  /\ watch[w].state = "none"
  /\ matching = {} \/ watched # {}
  /\ watch' = [watch EXCEPT ![w] = 
       [state |-> "active", keys |-> selection, rev |-> rev, by |-> by]]
  /\ next' = [next EXCEPT ![w] =
       [k \in Keys |-> IF k \in watched THEN FirstRevision(k, rev) ELSE 0]]
  /\ due' = [due EXCEPT ![w] =
       [k \in Keys |-> IF k \in watched THEN FirstRevision(k, rev) ELSE Len(log[k]) + 1]]
  /\ since' = [since EXCEPT ![w] = due'[w]]
  /\ UNCHANGED <<stores, cancelled, hand, returned, channel, adapter, ended>>

\* A goroutine reads an event of its value store's watch.
Take(w, k) ==
  /\ k \in Running(w)
  /\ hand[w][k] = 0 /\ next[w][k] <= Len(log[k])
  /\ hand' = [hand EXCEPT ![w][k] = next[w][k]]
  /\ next' = [next EXCEPT ![w][k] = @ + 1]
  /\ UNCHANGED <<stores, watch, cancelled, returned, channel, adapter, reader>>

HasRoom(w) == Len(channel[w]) < ChannelCap

\* Mutant of Forward: the goroutine does not loop.
Forward_once(w, k) ==
  /\ hand[w][k] # 0 /\ HasRoom(w)
  /\ channel' = [channel EXCEPT ![w] = Append(@, [key |-> k, rev |-> hand[w][k]])]
  /\ hand' = [hand EXCEPT ![w][k] = 0]
  /\ returned' = [returned EXCEPT ![w] = @ \cup {k}]
  /\ UNCHANGED <<stores, watch, cancelled, next, adapter, reader>>

\* It sets the event's key and writes it to the channel, once there is room.
Forward(w, k) ==
  /\ hand[w][k] # 0 /\ HasRoom(w)
  /\ channel' = [channel EXCEPT ![w] = Append(@, [key |-> k, rev |-> hand[w][k]])]
  /\ hand' = [hand EXCEPT ![w][k] = 0]
  /\ UNCHANGED <<stores, watch, cancelled, next, returned, adapter, reader>>

\* It returns when the watch's own context is done.
Return(w, k) ==
  /\ k \in Running(w)
  /\ hand[w][k] = 0 /\ watch[w].state = "removed"
  /\ returned' = [returned EXCEPT ![w] = @ \cup {k}]
  /\ UNCHANGED <<stores, watch, cancelled, next, hand, channel, adapter, reader>>

\* The caller's context is done.
Cancel(w) ==
  /\ w \in Cancellable \ cancelled /\ watch[w].state = "active"
  /\ cancelled' = cancelled \cup {w}
  /\ UNCHANGED <<stores, watch, goroutines, channel, adapter, reader>>

\* context.AfterFunc: the watch is removed and its own context cancelled.
Remove(w) ==
  /\ w \in cancelled /\ watch[w].state = "active"
  /\ watch' = [watch EXCEPT ![w].state = "removed"]
  /\ UNCHANGED <<stores, cancelled, goroutines, channel, adapter, reader>>

\* Mutant of AllReturned: the channel is closed without waiting.
AllReturned_skipped(w) == TRUE

AllReturned(w) == Running(w) = {}

\* wg.Wait() is over: close(aggregated).
Close(w) ==
  /\ watch[w].state = "removed" /\ AllReturned(w)
  /\ watch' = [watch EXCEPT ![w].state = "closed"]
  /\ UNCHANGED <<stores, cancelled, goroutines, channel, adapter, reader>>

-----------------------------------------------------------------------------
(* The adapter's goroutine and the reader of the watch.                     *)

\* It reads an event and sets its key or decodes its values.
Relay(w) ==
  /\ adapter[w].hand = <<>> /\ channel[w] # <<>>
  /\ adapter' = [adapter EXCEPT ![w].hand = <<Head(channel[w])>>]
  /\ channel' = [channel EXCEPT ![w] = Tail(@)]
  /\ UNCHANGED <<stores, watch, cancelled, goroutines, reader>>

\* It writes the event to `out', once there is room: make(chan ..., 1).
Deliver(w) ==
  /\ adapter[w].hand # <<>> /\ adapter[w].out = <<>>
  /\ adapter' = [adapter EXCEPT ![w].hand = <<>>, ![w].out = adapter[w].hand]
  /\ UNCHANGED <<stores, watch, cancelled, goroutines, channel, reader>>

\* The channel it reads is closed and empty: it closes `out'.
CloseOut(w) ==
  /\ watch[w].state = "closed" /\ channel[w] = <<>>
  /\ adapter[w].hand = <<>> /\ ~adapter[w].closed
  /\ adapter' = [adapter EXCEPT ![w].closed = TRUE]
  /\ UNCHANGED <<stores, watch, cancelled, goroutines, channel, reader>>

\* Mutant of IsDeletion: the store is asked instead of the event.
IsDeletion_gone(e) == ~Live(e.key)

\* Mutant of IsDeletion: a key that was created again was not deleted.
IsDeletion_final(e) == log[e.key][e.rev] = "Delete" /\ ~Live(e.key)

IsDeletion(e) == log[e.key][e.rev] = "Delete"

\* The reader reads an event, after which a watch context may be done.
Receive(w) ==
  LET e == Head(adapter[w].out) IN
  /\ ended[w] = "open" /\ adapter[w].out # <<>>
  /\ due' = [due EXCEPT ![w][e.key] = e.rev + 1]
  /\ adapter' = [adapter EXCEPT ![w].out = <<>>]
  /\ ended' = IF watch[w].by = "context" /\ IsDeletion(e)
              THEN [ended EXCEPT ![w] = "objectDeleted"] ELSE ended
  /\ UNCHANGED <<stores, watch, cancelled, goroutines, channel, since>>

\* A watch context whose base is done, or whose channel is closed, is done.
EndContext(w, why) ==
  /\ watch[w].by = "context" /\ ended[w] = "open"
  /\ \/ why = "baseDone" /\ w \in cancelled
     \/ why = "channelClosed" /\ adapter[w].closed /\ adapter[w].out = <<>>
  /\ ended' = [ended EXCEPT ![w] = why]
  /\ UNCHANGED <<stores, watch, cancelled, goroutines, channel, adapter, since, due>>

-----------------------------------------------------------------------------
(* Put and Delete.                                                          *)

\* addWatch for a key that is being created.
Attach(k, W) ==
  next' = [w \in Watches |-> IF w \in W THEN [next[w] EXCEPT ![k] = 1] ELSE next[w]]

\* The bound of the model.
MayWrite == Cardinality(UNION {{k} \X (1..Len(log[k])) : k \in Keys}) < MaxWrites

\* Writing the value store, which may refuse the write for its revision.
PutValue(k) ==
  \/ MayWrite /\ log' = [log EXCEPT ![k] = Append(@, "Put")]
  \/ UNCHANGED log

\* A new key is inserted, and the watches that match it attached in any
\* order, before its value is written; if one of them cannot be, because it
\* has a starting revision, Put fails there.
PutNew(k) ==
  LET matching == {w \in Watches : watch[w].state = "active" /\ k \in watch[w].keys}
      refused  == {w \in matching : Refuses(k, watch[w].rev)}
  IN
  /\ k \notin keys
  /\ keys' = keys \cup {k}
  /\ IF refused = {}
     THEN Attach(k, matching) /\ PutValue(k)
     ELSE /\ \E W \in SUBSET (matching \ refused) : Attach(k, W)
          /\ UNCHANGED log
  /\ UNCHANGED <<watch, cancelled, hand, returned, channel, adapter, reader>>

Put(k) ==
  /\ k \in keys /\ PutValue(k)
  /\ UNCHANGED <<keys, watch, cancelled, goroutines, channel, adapter, reader>>

Delete(k) ==
  /\ k \in keys /\ Live(k)
  /\ MayWrite
  /\ log' = [log EXCEPT ![k] = Append(@, "Delete")]
  /\ UNCHANGED <<keys, watch, cancelled, goroutines, channel, adapter, reader>>

-----------------------------------------------------------------------------
Init ==
  /\ keys = {}
  /\ log = [k \in Keys |-> <<>>]
  /\ watch = [w \in Watches |-> [state |-> "none", keys |-> {}, rev |-> Unset, by |-> "caller"]]
  /\ cancelled = {}
  /\ next = [w \in Watches |-> [k \in Keys |-> 0]]
  /\ hand = [w \in Watches |-> [k \in Keys |-> 0]]
  /\ returned = [w \in Watches |-> {}]
  /\ channel = [w \in Watches |-> <<>>]
  /\ adapter = [w \in Watches |-> [hand |-> <<>>, out |-> <<>>, closed |-> FALSE]]
  /\ ended = [w \in Watches |-> "open"]
  /\ since = [w \in Watches |-> [k \in Keys |-> 1]]
  /\ due = [w \in Watches |-> [k \in Keys |-> 1]]

\* What goroutines do, and the readers of the watches.
SystemStep(w) ==
  \/ \E k \in Keys : Take(w, k) \/ Forward(w, k) \/ Return(w, k)
  \/ Remove(w) \/ Close(w)
  \/ Relay(w) \/ Deliver(w) \/ CloseOut(w)
  \/ Receive(w) \/ \E why \in {"baseDone", "channelClosed"} : EndContext(w, why)

Next ==
  \/ \E k \in Keys : PutNew(k) \/ Put(k) \/ Delete(k)
  \/ \E w \in Watches :
       \/ \E s \in Selections, rev \in WatchRevisions, by \in Readers : Watch(w, s, rev, by)
       \/ Cancel(w) \/ SystemStep(w)

Spec == Init /\ [][Next]_vars

FairSpec == Spec /\ \A w \in Watches : WF_vars(SystemStep(w))

-----------------------------------------------------------------------------
(* Properties.                                                              *)

Events == [key : Keys, rev : Nat \ {0}]

\* Every variable has its type and no channel exceeds its capacity.
TypeOK ==
  /\ keys \subseteq Keys
  /\ log \in [Keys -> Seq({"Put", "Delete"})]
  /\ watch \in [Watches -> [state : {"none", "active", "removed", "closed"},
                            keys : SUBSET Keys, rev : WatchRevisions \cup {Unset},
                            by : Readers \cup {"caller"}]]
  /\ cancelled \subseteq Watches
  /\ next \in [Watches -> [Keys -> Nat]]
  /\ hand \in [Watches -> [Keys -> Nat]]
  /\ returned \in [Watches -> SUBSET Keys]
  /\ channel \in [Watches -> Seq(Events)]
  /\ \A w \in Watches : Len(channel[w]) <= ChannelCap
  /\ adapter \in [Watches -> [hand : Seq(Events), out : Seq(Events), closed : BOOLEAN]]
  /\ \A w \in Watches : Len(adapter[w].hand) <= 1 /\ Len(adapter[w].out) <= 1
  /\ ended \in [Watches -> {"open", "baseDone", "channelClosed", "objectDeleted"}]
  /\ since \in [Watches -> [Keys -> Nat \ {0}]]
  /\ due \in [Watches -> [Keys -> Nat \ {0}]]

\* The events on their way to a watch's reader, the next one first.
Pipe(w) == adapter[w].out \o adapter[w].hand \o channel[w]

\* The events of key k in p, and the revision h in a goroutine's hand, are the
\* revisions from d up to the one before n, each once and in order.
Ordered(p, k, d, h, n) ==
  LET upto == IF h # 0 THEN h ELSE n IN
  /\ \A i \in 1..Len(p) : p[i].key = k => p[i].rev \in d..upto - 1
  /\ \A i, j \in 1..Len(p) :
       i < j /\ p[i].key = k /\ p[j].key = k => p[i].rev < p[j].rev
  /\ \A r \in d..upto - 1 : \E i \in 1..Len(p) : p[i] = [key |-> k, rev |-> r]
  /\ n # 0 => d <= upto
  /\ h # 0 => n = h + 1

\* Events are replicated to all active watches: from the revision a watch's
\* reader is due to read of a key it selected, every revision is on its way
\* to it, in order and once, also for keys that were created after the watch
\* was opened.  (Unless a watch has a starting revision: it makes the Put of a
\* new key fail, and the watches not attached by then never see the key.)
NothingMissed ==
  \A w \in Watches : watch[w].state = "active" => \A k \in watch[w].keys :
    /\ Ordered(Pipe(w), k, due[w][k], hand[w][k], next[w][k])
    /\ log[k] # <<>> /\ (\A v \in Watches : watch[v].rev \in {Unset, 0}) =>
         next[w][k] # 0

\* A channel is closed only when nothing will be written to it any more: the
\* store's when its goroutines have returned, the adapter's after that, when it
\* has passed on every event.
ClosedLast ==
  \A w \in Watches :
    /\ watch[w].state = "closed" =>
         Running(w) = {} /\ \A k \in Keys : hand[w][k] = 0
    /\ adapter[w].closed =>
         watch[w].state = "closed" /\ channel[w] = <<>> /\ adapter[w].hand = <<>>

\* After its context is cancelled, the channel of a watch is closed, if its
\* caller reads it until then.
CancelledClose ==
  \A w \in Watches :
    w \in cancelled /\ watch[w].by = "caller" ~> adapter[w].closed

\* The value stores that a watch watches.
Watched(w) == {k \in watch[w].keys : next[w][k] # 0}

\* The revision of a key that a watch's reader takes for the latest one.
Known(w, k) == IF LiveAt(k, due[w][k] - 1) THEN due[w][k] - 1 ELSE 0

\* In the end what the caller of an active watch has read of the value stores
\* it watches is what Get and ListKeys return.
EventsArrive ==
  \A w \in Watches : <>[](watch[w].state = "active" /\ watch[w].by = "caller" =>
    /\ \A k \in Watched(w) : Known(w, k) = Get(k)
    /\ ListKeys(Watched(w)) = {k \in Watched(w) : Known(w, k) # 0})

\* A watch context is done for the reason its Err gives: an object it watches
\* was deleted after the watch began and nothing it read of that object came
\* later, or the context it is based on was cancelled.
EndsForCause ==
  \A w \in Watches :
    /\ ended[w] = "objectDeleted" =>
         \E k \in Watched(w) : due[w][k] > since[w][k] /\ Known(w, k) = 0
    /\ ended[w] \in {"baseDone", "channelClosed"} => w \in cancelled

\* "closes its Done channel when the object is deleted": a watch context that
\* stays open belongs to a watch that is still active, and no object it watches
\* was deleted since the watch began, be it created again or not.
DeletionEnds ==
  \A w \in Watches : <>[](watch[w].by = "context" /\ ended[w] = "open" =>
    /\ watch[w].state = "active"
    /\ \A k \in Watched(w) : \A r \in since[w][k]..Len(log[k]) : LiveAt(k, r))

\* Watches end when they should: by cancellation, and watch contexts by deletion.
WatchesEnd == CancelledClose /\ DeletionEnds
-----------------------------------------------------------------------------
(* The inductive invariant from which the proofs start.                     *)

\* A Watch that was not called yet.
NotBegun(w) ==
  /\ watch[w] = [state |-> "none", keys |-> {}, rev |-> Unset, by |-> "caller"]
  /\ Pipe(w) = <<>> /\ ended[w] = "open"
  /\ \A k \in Keys : next[w][k] = 0 /\ hand[w][k] = 0

\* The stream of every key, whatever became of its watch, and what makes a
\* goroutine of a key: the key exists and the watch selected it.
StreamOf(w, k) ==
  /\ Ordered(Pipe(w), k, due[w][k], hand[w][k], next[w][k])
  /\ next[w][k] # 0 =>
       k \in keys /\ k \in watch[w].keys /\ next[w][k] <= Len(log[k]) + 1
  /\ hand[w][k] # 0 => k \notin returned[w]
  /\ k \notin keys => due[w][k] = 1
  /\ since[w][k] <= due[w][k]

\* A watch misses a key only if some watch has a starting revision.
Attached(w) ==
  watch[w].state = "active" /\ (\A v \in Watches : watch[v].rev \in {Unset, 0}) =>
    \A k \in watch[w].keys \cap keys : next[w][k] # 0

\* Why a watch context is done: it read a deletion, or was cancelled.
Caused(w) ==
  /\ ended[w] = "objectDeleted" =>
       \E k \in Watched(w) :
         /\ due[w][k] > since[w][k] /\ due[w][k] - 1 \in 1..Len(log[k])
         /\ log[k][due[w][k] - 1] = "Delete"
  /\ ended[w] \in {"baseDone", "channelClosed"} => w \in cancelled
  /\ watch[w].state \in {"removed", "closed"} => w \in cancelled

Inductive ==
  /\ TypeOK
  /\ \A k \in Keys : log[k] # <<>> => k \in keys
  /\ \A w \in Watches : watch[w].state = "none" => NotBegun(w)
  /\ \A w \in Watches, k \in Keys : StreamOf(w, k)
  /\ \A w \in Watches : Attached(w)
  /\ ClosedLast
  /\ \A w \in Watches : Caused(w)
=============================================================================
