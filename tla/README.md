# Verification of protoconfig

TLA+ specifications of protoconfig's core: the versioned stores and their etcd
and Kubernetes drivers, the config tracker and server, the rollback command, the
operations on messages, and the reactive values built on the stores' watches. TLC
checks them on small instances; TLAPS proves the safety properties of all modules
but one, and that the value store implements its contract, for every size.

## The system

protoconfig keeps a protobuf message as a *versioned* configuration. An
application has an **active** and a **default** store; a **tracker** implements
get, set, reset and dry runs on them, a **server** exposes it over gRPC, and a
**reactive controller** watches the active store and pushes each change to
the parts of the program that depend on a field.

| Part | State | Operations | Interacts through |
|---|---|---|---|
| value store (`storage/inmemory/value_store.go`) | a revision counter, a ring of 64 revisions, the listeners | Put, Get, Delete, Watch, History | a read-write lock; per watch a goroutine, a `buffer` channel of 8 and an `updateC` channel of 64 |
| key-value store (`storage/inmemory/kv_store.go`) | a radix tree of value stores, the active watches | the same per key, ListKeys, prefix watches | one goroutine per watched key, one `aggregated` channel of 128 per watch |
| etcd driver (`storage/drivers/etcd`) | none of its own | the same, as etcd requests and transactions | etcd; a goroutine and a channel of 64 per watch |
| custom-resource driver (`storage/drivers/crds`) | history in an annotation of the object | the same for one value | the Kubernetes API |
| tracker (`server/config.go`) | the two stores, a mutex | Apply, Reset, SetDefault, ResetDefault, Get…, DryRun…, History | the stores, shared with other replicas |
| server (`server/server.go`) | none | Get, Set, Reset, SetDefault, DryRun, History, Watch | the tracker; protects masked fields |
| rollback command (`server/rollback`) | one run's configs | get, dry run, confirm or edit, reset | a gRPC client |
| merge and field masks (`util/merge`, `util/fieldmask`) | none | MergeWithReplace, ExclusiveKeep/Discard, ByPresence/Absence, Diff | pure functions |
| reactive controller, values, bindings (`reactive`) | a trie of reactive values, their watch channels and functions, per-binding queues | Start, Update, Watch, WatchFunc, Bind | the active store's watch; mutexes, channels, goroutines |
| adapters and watch context (`storage/kvutil`, `storage/context.go`) | a goroutine and a channel per watch | wrapping of stores; a context that ends when a key is deleted | the wrapped store's channels |
| dry-run client and builder (`server/dryrun`) | the last answer | each request as a dry run | a gRPC client |

What is hard about it, and hence what the properties are about (the hazards that
properties watch are in `PROJECT.json` with their lines, the others under
[Disagreements found](#disagreements-found)):

* Writers notify watches while they hold the store's lock, through bounded
  channels emptied by goroutines that sometimes need the lock themselves.
* A ring that wraps, walked backwards with a special case for its last slot.
* Reads and writes of a shared store in several steps, protected only by the
  revision given to Put; secrets and masked fields that must survive any
  sequence of requests.
* Start, Watch and History read a revision in one call and use it in another.
* The custom-resource driver keeps the value and its history in one object, which
  each Put reads in one request and replaces in another.
* Recursive functions on messages, whose masks are matched by the text of a path
  and whose empty, absent and cleared fields differ.
* One change of a config becomes several updates, and bindings must make
  one callback of them, with goroutines racing for two kinds of mutex.

For each part, what makes it correct:

* a store's watches deliver its log, in order, from the revision asked for;
  Get and History serve what the ring holds; writers return; a cancelled
  watch's channel is closed;
* the tracker stores no placeholder in place of a secret, loses no update,
  and answers dry runs with what the request then does; the server changes
  no masked field;
* the custom-resource driver's annotation is the log of the last puts, whoever
  made them, and its watch reports the object's writes;
* a mask keeps or discards exactly the paths it names, and a merge and a
  difference are what they are path by path;
* a rollback stores what the user confirmed, and it is the old revision;
* callers of the reactive package end up with the store's value, are told of
  every change, and their callbacks see one config, once.

## Modules

| Module | Models | Uses |
|---|---|---|
| `WatchLog` | what `storage/stores.go` promises of a watch: a log of writes and readers that follow it | |
| `ValueStore` | `value_store.go` | refines `WatchLog` |
| `Configs` | flat messages, masks, merging, redaction; what the stores answer; the effects of each request; the dry-run client and History | |
| `ConfigTracker` | `config.go` behind `server.go`, several replicas | extends `Configs` |
| `Rollback` | `rollback.go` among other clients | extends `Configs` |
| `Reactive` | `controller.go`, `value.go`, `bind.go`, `fieldmask/diff.go` | the store as `WatchLog` promises it |
| `KVStore` | `inmemory/kv_store.go`, a `kvutil` adapter and `storage/context.go` on top of it | the value stores as `WatchLog` promises them |
| `Etcd` | `drivers/etcd/kv_store.go` | etcd, external |
| `Crd` | `drivers/crds/value_store.go` | the Kubernetes API server, external |
| `Messages` | `util/merge/merge.go`, `util/fieldmask/masks.go` and `diff.go`, on nested messages | |
| `ValueStore_proofs` | theorems on `ValueStore`: its invariants, its refinement of `WatchLog` and its reads | |
| `Configs_proofs` | lemmas on messages, merging, redaction and what a store answers | |
| `ConfigTracker_proofs`, `Rollback_proofs` | theorems | extend `Configs_proofs` |
| `KVStore_proofs`, `Reactive_proofs`, `Etcd_proofs`, `Crd_proofs` | theorems | |
| `MC*` | values for the constants, for TLC | |

An operator whose name ends in `_something` right before a definition is a
*mutant*: the definition with a plausible bug, used to see that a property can
fail. They are not part of the specifications.

### WatchLog and ValueStore

`WatchLog` has a log of writes ("Put" or "Delete", the index is the revision)
and readers: a reader starts at a position, reads the events of the log one by
one, may lose one event, and ends. `ValueStore` keeps the code's variables:
`revision`, `values` (the ring, newest first), `watches`, and per watch
`buffer`, `updateC` and the state of its goroutine. A value is identified by
the revision that wrote it; timestamps and cloning are left out.

* `Put`, `Delete`: lock, the revision check, the ring's advance (`Commit`); then
  one `Notify` per listener, in any order, each waiting for room; then `Return`.
  The lock is Go's `RWMutex`: a waiting writer keeps new readers out.
* `Watch`: the choice of the start (nil, 0, a revision), the backward walk, the
  replay into `updateC`, the registration; `Forward`, `CtxDone`, `RLock`, `Drain`
  and `Close` are the goroutine with its deferred function. When the
  caller has left `updateC` full, the event in hand is dropped and the watch
  ends.
* `Get` and `History` are functions of the ring, checked in every state.

### Configs, ConfigTracker and Rollback

A message is a flat function from fields to values, plus the revision field.
Fields are plain, secret or masked. A store is its log of messages with a
`Retention`; that the in-memory store serves such a log is what `ValueStore`
shows. Redaction is that of the generated config of the tests
(`test/ext/ext_cli.pb.go:715-743`), whose secret counts as missing when it is the
empty string (`Blank`), set or not. `Configs` holds the pure part: `Merge`, `Keep`, `ByPresence`, `Redact`,
`Unredact`, the fall-back to the default, the dry runs, and when a request is
refused.

`ConfigTracker` executes `Apply`, `Reset`, `SetDefault` and `ResetDefault` step by
step: the tracker's mutex excludes other calls of the same process only, so
each read or write of a store is a step and other replicas' steps come between.
"Set" and "Reset" are the server's requests, with masked fields cleared from the
request and kept by the mask; "SetDefault" clears them too but replaces the default
instead of merging. The dry-run client's requests (`DryRunRequest`,
`BuildRequest`) are followed through the tracker's dry runs (`TrackerDryRun`), and
History through the stores' (`ServerHistory`); both only read, and are checked
in every state.

`Rollback` is one run of the command: get the current config, get the target,
dry run, prompts for missing secrets, edit, confirm or decline, perform;
other clients' requests come between any two of them. A request is atomic
there, since one server's mutex makes it so.

### Reactive

The active store is a log of configs. The controller reads the revision
(`StartGet`), opens the watch (`StartWatch`), handles an event at a time
(`HandleWatchEvent`), visits the nodes of the trie from the root down
(`WalkMayVisit`), and calls `Update` on those that the difference between the two
configs touches. `Update` holds the value's mutex while it sends to channels and
calls functions; `onUpdate` takes the binding's queue mutex and starts a goroutine
that waits for the controller's group channel and then resolves the queue
once, reading missing values under their mutexes. `Watch`, `Cancel` and `Remove`
are a watch on a value. Functions given to `WatchFunc` by users and the
cancellation of Bind's context are not modelled.

### KVStore

A method holds the store's mutex throughout and is one step. `Watch` opens
a watch on each matching value store; `PutNew` attaches the active watches to
the store of a new key before it is written; `Take`, `Forward` and `Return` are
the goroutine per key; `Cancel`, `Remove` and `Close` the end of a watch. Every
watch is seen through an adapter of `kvutil`, whose goroutine takes an event from
one channel (`Relay`), puts it into the next (`Deliver`) and closes that
(`CloseOut`). Its reader is a caller, who reads until the channel is closed, or
a watch context, which reads until a deletion (`EndContext`) and then no more. A
value store here never gives up a watch, because the instance writes fewer
than 64 revisions; that its writes return is taken from `ValueStore_reads`.

### Etcd

etcd is one sequence of writes whose index is the revision. The driver's nested
transaction is one step. `Watch` is two requests (`WatchGet`, `WatchOpen`) and a
goroutine that passes on whole responses, the events of each in the order of
their revisions, so that the set of those left (`batch`) says which is next; `History` is a request for its
bounds and a watch that is read until the last of them. etcd is not
compacted and requests do not fail; leases, which Put's transaction keeps, and the
previous values of events are left out.

### Crd

`object` is the Kubernetes object: its version, value and the history annotation.
Every request is a step, so that other clients' requests come between the read
(`PutGet`, `DeleteGet`) and the write (`PutCreate`, `PutUpdate`, `DeleteObject`) of a
call. `appendSpecToHistory` and `encodeHistory` keep the newest entries within a
number and a size. A watch reads the object's version (`WatchGet`), opens the API
server's watch (`WatchOpen`), turns the first object into events of its history
(`Initial`), and each later event into one (`Take`, `Send`). The API server is
external: it counts versions per object, refuses a write of another version, and
may end a watch (`EndStream`). Which writes a watch owes its caller (`FirstDue`) is
taken from the code's own two requests, so what it loses between them, against
`stores.go:72`, is not told by a property. Nobody else writes the object, and times and
compression are left out.

### Messages

A message is a function from its populated fields, a path a sequence of names
and a mask a set of paths. A nested message can be populated and empty, which
lists and maps cannot. Masks are looked up by the text of a path, for which
`NameBegins` lists the names that begin others. A nil mask (`NilMask`) leaves a message
alone, an empty one does not. Oneofs, which no config of the repository has, and
unknown fields are left out. A behaviour is a sequence of calls
of Merge, ExclusiveKeep and ExclusiveDiscard on one message. What each recursive
function returns is compared with what is read path by path (`At`) before and
after the call, and `Diff` with the call's own before and after.

## Runs

| Run | Shows |
|---|---|
| `ValueStore_safety` | two writers, two watches, overflow and cancellation: watches follow the log, nothing is sent on a closed channel, and the store implements `WatchLog` |
| `ValueStore_reads` | a ring that wraps: what Get, History and the replay of Watch serve for every revision; while callers read and none cancels, writers return and writes arrive |
| `ValueStore_cancel` | **violation**: cancelling a watch can deadlock the store |
| `ConfigTracker_replicas` | two replicas: no placeholder stored, no lost update, masked fields kept by Set and Reset; what a client got can be sent back, and Set of it changes nothing; what the dry-run client accepts succeeds and stores what it showed; History lists what Get serves |
| `Rollback_concurrent` | what was confirmed is stored and restores the target |
| `Reactive_watch` | watches converge and see every change, callbacks are fresh and run once for each config written that changes a bound path |
| `Reactive_late` | **violation**: binding a pair while the controller runs can deadlock |
| `KVStore_watches` | nothing missed, also of keys created later; channels closed last, and closed; a watch context ends for a deletion or a cancellation, and for nothing else |
| `Etcd_client` | Watch at revision 0 rebuilds the state, History is exact, both across concurrent writes |
| `Crd_clients` | two clients and a watch: the annotation is the log of the last puts, Get and History serve it, the watch reports every write in order, closes when cancelled and otherwise catches up |
| `Crd_recreate` | **violation**: a put with a revision recreates an object deleted since |
| `Messages_edits` | masks keep and discard what they name, ByPresence and ByAbsence part a message, merging goes path by path, the difference is exact and can be applied |

### Bounds

Sizes are reduced so that the limits are reached: a ring of 2 or 3 (written up
to 4 times, so that it wraps), channels of 1 to 3, two writers, two
watches. Two of each are enough for every pair of steps that can interfere: a
writer with a writer, a writer with a watch's goroutine, a watch with
another. `MaxRevision`, `MaxActive`, `MaxDefault`, `MaxWrites` and `MaxVersion` bound the number of writes;
they are guards of the model and have no counterpart in the code. In the
config modules a field of each kind, two values, the empty one and the placeholder are
enough to tell apart kept, replaced, cleared, empty and redacted; two replicas are enough
for a write between another's read and write. The default is written twice
(`MaxDefault`), so that it is set and then replaced or deleted, the active config three
times (`MaxActive`), so that it is also set again; `Retention` is two, so that the oldest
revision is evicted. In `Reactive` the
trie has a message with a field next to a scalar, the smallest one in which
two nodes of one branch and two of different branches change together. In
`Etcd` one key is a prefix of the other, since a watch at revision 0 asks for a
prefix even if one key is watched. In `Crd` the annotation holds two entries or a
size of three, and values differ in size, so that either limit cuts it off. In
`Messages` the schema has a nested message, a list, a map, a
duration and two fields of which one's name begins the other's; masks have up to
two paths (`MaskSize`), lists two elements (`MaxList`), messages three populated
fields (`MaxFields`).

Type invariants are part of the runs of `ValueStore` and `ConfigTracker`. Those of
`Rollback`, `Reactive`, `KVStore`, `Etcd` and `Crd` are proved. The inductive invariants, `Inductive` in
each module, and `FreshOK` of `Reactive` and `ConfigOK` of `Rollback`, were checked by TLC on
the instances of the runs before they were proved.

Deadlock is not checked: callers may stop making requests, so every system
here may come to rest. What must not stop is stated as liveness.

### Fairness

Weak fairness of each step a goroutine has ready: Go's scheduler runs runnable
goroutines, mutexes are starvation-free, and a blocked channel operation
proceeds when the other side does. Callers are assumed to read their channels
(`Receive`), which `storage/stores.go:79-82` asks of them. No fairness is assumed of
requests, cancellations, or users. A watch context is no such caller: it stops
reading after a deletion, and the part of `WatchesEnd` about cancellation does not
hold for it. In `Reactive`, `Etcd` and `Crd` the number of
system steps between two requests is finite, so fairness of their union
is fairness of each.

### Disagreements found

Kept as runs, with the code's or documentation's words in `findings`:

1. After a watch is cancelled its goroutine waits for the read lock and no longer
   empties `buffer`; a writer that holds the lock waits for room in it
   (`ValueStore_cancel`, `value_store.go:276`).
2. `doResolve` and `Update` take the binding's and the value's mutex in opposite
   orders (`Reactive_late`, `bind.go:80`).
3. `Put` of the custom-resource driver creates the object if there is none, whatever
   revision it was given, against `options.go:35` (`Crd_recreate`,
   `crds/value_store.go:162`).

Met while modelling, and described here only:

* A watch from the oldest revision that Get serves, or from an evicted one, is
  accepted and replays nothing, and History of a missing revision is an empty
  list once the ring is full. `ReadsServeLog` states what
  holds.
* A rollback to an evicted revision gets the default config instead of an error
  and resets to it (`rollback.go:107`): with a `Retention` smaller than the number of writes TLC
  finds `RestoresTarget` violated.
* `SetDefault` at revision 0 takes secrets from a default that another replica may
  delete before the Put (`config.go:93-99`).
* `SetDefault` clears masked fields from the request and does not merge, so a client
  that sends back the default it got drops a masked field that the default has
  (`server.go:95`, `config.go:99-103`; `core.proto:54-56` says that masked fields cannot
  be modified by Set and Reset). `RoundTrip` says just this of `SetDefault`; `MaskedKept` is about
  the active config.
* A Reset whose mask holds the revision field, as the rollback command's does,
  stores it inside the config (`config.go:210`, against the comment at 366). Every
  read overwrites it.
* The rollback command prints "successfully rolled back" after "rollback failed"
  (`rollback.go:293-296`).
* A deletion reaches the reactive values with the revision of the config it
  deletes. Its queue was resolved already, so a binding's callback does not run
  for it (`controller.go:143`, `bind.go:57`), although `bind.go:24` guarantees a callback
  for every change. `CalledOncePerPut` is stated for the configs that are written.
* A queue is published in the binding's cache before its slice is made
  (`bind.go:57`): a second caller can lock it first and index a nil slice. The
  model has the panic as `crashed`; like the deadlock it takes a pair bound while
  the controller runs, and it ends the callbacks in the same way.
* The goroutines of two revisions may resolve a binding in either order, so that
  the last callback need not be the newest (`bind.go:70`). After 63 or more writes
  between its two calls, Start gets a watch that replays nothing (`controller.go:104`).
* A prefix watch with a revision skips the value stores that do not have it
  (`kv_store.go:170`).
* Put of a new key fails if a matching watch has a starting revision; the key
  exists afterwards, empty, and watches not attached by then never follow it
  (`kv_store.go:251`). `NothingMissed` is stated for stores without such a watch.
* etcd: Watch at revision 0 that finds no key watches from the present, and misses
  a key created between its two requests (`etcd/kv_store.go:133`, against
  `stores.go:72`). `RebuildsState` leaves this case out. A cancelled History may
  return a part of the history without an error (297).
* Custom resources (`crds/value_store.go`): a conflict of the API server
  is an error that `IsConflict` does not recognise (669), and with a concurrent
  writer it is also the answer to a Put without a revision (176); a write between
  the two requests of Watch is reported, but a deletion is not, nor what came
  before the last put (256); when the API server ends its watch the channel is
  closed although the context is not done (344, against `stores.go:58-60`), of which
  `WatchesSettle` says nothing, and its error events panic (348); History up to a revision that is not kept returns
  everything (477).
* Masks: a nested message that is populated and empty is in no mask of ByPresence
  and is dropped by ExclusiveKeep, against `masks.go:98-112`; a duration of zero is
  such a message, and a rollback loses it. A path also keeps a field whose name
  is the beginning of its own (130). `MasksOfMessage` and `MasksSplit` leave these cases out.
* Durations are merged field by field: one second onto 5.5 seconds is 1.5 seconds
  (`merge.go:112`). Without options a zero duration does not replace another one.
* A dry-run Reset does not complete the mask or clear the patch of masked fields as
  the server does, and checks the revision (`dryrun.go:216`, `server.go:62-80`).
  `DryRunPredicts` states what holds.
* After a watch context has ended nobody reads its channel, and the adapter's
  goroutine stays blocked (`kvutil.go:81`). WithPrefix trims keys in a form that the
  in-memory store does not return (`kvutil.go:77`).
* A typed watch with a context that is already done may decode the zero value of
  a closed channel, and panic (`typed.go:49`).

## Theorems

Checked by TLAPS, from the assumptions on constants named in the modules: sizes are
positive, a caller's channel has room for a whole ring, placeholders are not values,
plain fields are neither secret nor masked, a request's keys are among those it is
a prefix of, no object is the model value for none. The number of processes, watches, keys, fields, values and writes is
arbitrary everywhere.

Every module follows one plan. The invariant that a run checks is seldom inductive;
`Inductive`, in the component's module, adds what makes it so. A lemma restates it
process by process (`CallOK`, `WatchesOK`, ...), a frame lemma says that a process keeps its
part if nothing of it changed, and there is a lemma per action.

**ValueStore**: `TypeOK`, `RingHoldsLog`, `StreamsFollowLog`, `WatchesKeepUp`,
`NoSendOnClosed`, and `LockExcludes`, which no run repeats.
`StreamsFollowLog` alone is not inductive: it says what is in the channels, and
whether the next event fits behind them depends on what the writer is about to
send and on how far the listener has got. `Inductive` adds: the event in hand is
the newest write (`EventIsNewest`), listeners are registered exactly while their
goroutine runs (`ListenersRegistered`), a registered watch has accepted all writes
but at most the newest (`WatchesKeepUp`), a gap is only ever the position at which
a watch gave up (`GapsEndWatches`), a deletion follows a put, and the two
channels follow the log at consecutive positions.

On top of it `ReadsCorrect`: what Get, History and the replay of Watch find by walking
the ring is what the log says (`ReadsServeLog`). The walk is a least index, so that
its result is given by the properties of a least element and needs no
induction. And `Refinement`: every step is a step of `WatchLog` or leaves what it
can see unchanged (`ImplementsWatchLog`), with a lemma per action: a commit appends to
the abstract log, a Watch starts a reader, a Receive reads, the drop of an event
loses one, and closing ends a reader.

**ConfigTracker**: `TypeOK`, `NoPlaceholderStored`, and the action properties `NoLostUpdate` and
`MaskedKept`. What is stored is computed from values read steps earlier, so
`Inductive` adds: a call's revision and config were read together and are in the
log (`ReadsAreRevisions`), they hold no placeholder (`ReadsAreUnredacted`), and a
client's request does not reach a masked field (`RequestsAreMasked`). From it follow
`RoundTrip` (what was redacted is restored, because nothing stored has a placeholder;
`Set` merges onto what it clears, `SetDefault` does not),
`HistoryIsGettable` and `DryRunPredicts`, which are about the results of requests in
any reachable state.

**Rollback**: `ShownIsStored` and `RestoresTarget`. Between the dry run and the Reset other
clients write; `ShownOK` says that what is shown is what the dry run makes of the
stores as they are, as long as nobody did, `StoredOK` and `ConfigOK` relate the config
to what is stored and to the target. Each theorem has a hypothesis, and is false
without it. `ShownIsStored` needs `MaskedFields = {}`: the dry run does not complete the
mask, and Reset does. `RestoresTarget` needs `KeepsAll`, stores that have evicted
nothing: a rollback to an evicted revision takes the default config
for it. Both are described under [Disagreements found](#disagreements-found).

**KVStore**: `NothingMissed`, `ClosedLast`, `EndsForCause`. The events of a key on their way,
through a goroutine, two channels and an adapter, are one sequence (`Pipe`), among
those of other keys, and `Ordered` says that it holds the revisions the reader is due,
once and in order. Each move is a lemma on `Ordered`. `Inductive` keeps it
for every watch, active or not, since readers go on after cancellation; it adds that
watches not yet opened are empty (`NotBegun`), that active watches are attached to
every existing key they select (`Attached`), and why a watch context ended (`Caused`).

**Reactive**: `NoSendOnClosed`, `WatchesAreCurrent`, `CallbacksAreFresh`. `WatchesAreCurrent` is
about the last value sent and the present one. It is inductive only with what the
controller has handled: a value that was set is that of the last event which
reached its path (`ValueOK`), where an event reaches the paths in the order of the
walk (`LastEvent`), so that the difference of two consecutive configs decides whether
a watch has to be told. `CallbacksAreFresh` needs `FreshOK`: a queue holds values of its
revision or later ones, and a closed group means that all paths have reached it.
It has the hypothesis `LateBindsOne`, at most one path bound once there are configs:
a binding of two made while the first event is handled calls back before the
controller has visited both, with a value that was never set (TLC finds it on the
instance of `Reactive_late`).

**Etcd**: `RebuildsState` and `HistoryIsRun`. The revision a
key has at a point of the log is the greatest of a set; `Dated` states what follows
from that and the proofs use nothing else. A caller's knowledge of a key need not be
right for the revision from which it reads on: it suffices that the key is written
again later (`Suffices`). That is what a Watch at revision 0 establishes in its first
request (`FoundOK`), what no write in between destroys, and what every event read
preserves (`KnownOK`). For History `HistoryOK` says that it has, so far, every revision
since the creation it found, and that there is no deletion among those to come.

**Crd**: `HistoryIsLog`, `ReadsServeLog` and `WatchIsRun`. A
Put writes an annotation made of the object it read some requests earlier, and the
API server refuses the write only if the version is another one. `CallOK` says why that is
enough: what was read, if it still has the object's version, is the object. The log's
indices are the versions (`LogOK`) and the object is at the last put's
(`ObjectOK`), so that the annotation written continues the log's. It is cut off after the
last entry from which on it is too long; the proof needs that the size depends on the
values alone and grows with every entry. The size, a sum over a sequence, is
a recursive function, and so is the loop that makes events of an annotation.
What they compute is shown without an induction theorem: there is no least index at
which they would differ from what is claimed (`MinFacts`). For a watch, `Position` is where in the log the first event
lies that its goroutine has not read, and `StreamFrom` that the API server's events
begin there. As long as the goroutine has not seen the first object, `InitialOK`
says which one it will be, a version that may be newer than the one Watch read, and
that its annotation holds the events which the watch owes for it; `SeenOK` that those
made so far are the log's. Here the two sources of events are joined, and
the invariant shows that none is left out or sent twice at the seam.

Only model-checked:

* liveness (`WritesComplete`, `CalledOncePerPut`, `WatchersConverge`, `WatchesEnd`,
  `EventsArrive`, `CallsEnd`, `WatchesSettle`), which TLAPS 1.4.5 cannot prove (nor `ENABLED`);
* everything of `Messages` (`MasksSplit`, `MasksOfMessage`, `MergedByPath`, `DiffCorrect`), whose
  functions are RECURSIVE operators on nested messages: with them the prover loses its
  SMT backend, and what they return needs induction over the nesting of data. No
  module with theorems uses it.

## Plan

Done, in this order: value store and its contract; tracker, server and
rollback; reactive; key-value store; etcd driver; custom-resource driver;
dry-run client and History; adapters and watch context; merging and masks on
nested messages.

With theorems on every module but `Messages`, in the same order.

Next:

1. `Etcd`: compaction, and with it the previous values of events; leases.
2. Typed reactive values and WaitOne, as callers that stop reading.
3. `Messages` with its functions defined on messages of a given depth, for theorems.

Not modelled and not planned: generated code, gRPC and command-line plumbing (the
dry-run shim's dispatch and the commands among it), rendering of diffs and
prompts, random messages and test utilities; `util/future`, which only tests use;
the lockers and the renaming of keys in `kvutil`; validation rules, whose result no
modelled operation depends on; `WatchReactive`, a thin wrapper over Watch.
