------------------------------ MODULE Reactive ------------------------------
(***************************************************************************)
(* The reactive package: a controller follows the active store's watch and *)
(* copies each config, path by path, into reactive values (controller.go,  *)
(* value.go); callers watch a value through a channel, or Bind several of  *)
(* them to one callback that is meant to run once per change (bind.go).    *)
(*                                                                         *)
(* The active store is the log of writes it promises its watchers to be    *)
(* (module WatchLog): log[r] is the config written at revision r, Deleted  *)
(* for a deletion.  A config gives each path a number, 0 if the field is   *)
(* not set; the value of a path is the part of the config below it.        *)
(***************************************************************************)
EXTENDS Integers, Sequences, FiniteSets

CONSTANTS
  Paths,        \* the nodes of the path trie
  Root,         \* its root
  Below,        \* Below[p]: the nodes strictly under p
  Configs,      \* the configs that are written
  Watches,      \* calls of Watch on a reactive value, each made once
  Watched,      \* the paths they are made on
  Cancellable,  \* the watches whose callers may cancel their context
  Bindings,     \* the sequences of paths Bind is called with
  Late,         \* those of them for which there may be configs already
  ChannelCap,   \* make(chan protoreflect.Value, 4)
  RingSize,     \* revisions kept by the active store
  MaxRevision,  \* bound of the model: the number of writes
  None          \* no path

ASSUME TrieAssumption ==
  /\ Root \in Paths /\ None \notin Paths
  /\ Below \in [Paths -> SUBSET Paths]
  /\ Below[Root] = Paths \ {Root}
  /\ \A p, q \in Paths : q \in Below[p] => Below[q] \subseteq Below[p] \ {q}
ASSUME InputsAssumption ==
  /\ Configs \subseteq [Paths -> Nat]
  /\ Bindings \subseteq Seq(Paths) /\ Late \subseteq Bindings
  /\ \A b \in Bindings : \A i, j \in 1..Len(b) : b[i] = b[j] => i = j
  /\ Watched \subseteq Paths
ASSUME BoundsAssumption ==
  ChannelCap \in Nat \ {0} /\ RingSize \in Nat \ {0} /\ MaxRevision \in Nat

VARIABLES
  log,         \* the writes of the active store
  pc,          \* the controller: "new", "got", "run"
  startRev,    \* the revision Start read
  next,        \* the revision of the next watch event
  handling,    \* the revision of the event being handled, 0 if none
  todo,        \* the nodes WalkValues has still to visit
  update,      \* the Update in progress: its path and whom it has to notify
  rv,          \* per path, its reactiveValue
  watch,       \* per watch: its path, state and channel
  sent,        \* history: the value a watch was sent last
  seen,        \* history: the value a watch's caller read last
  bind,        \* Bind: its paths, which one is next, and whether it is locked
  onUpdate,    \* per caller of onUpdate, where it is
  queues,      \* per revision, the binder's queuedUpdate
  goroutines,  \* the goroutines onUpdate started
  called,      \* history: how often Bind's callback ran, by revision
  lastCall,    \* history: what it was given last
  crashed      \* a goroutine has panicked

controller == <<pc, startRev, next, handling, todo>>
watchers   == <<watch, sent, seen>>
binder     == <<bind, queues, goroutines, called, lastCall, crashed>>
vars == <<log, controller, update, rv, watchers, binder, onUpdate>>

-----------------------------------------------------------------------------
(* Configs, their values by path, and the events of the store's watch.      *)

Deleted == <<>>
Invalid == <<>>     \* protoreflect.Value{}
Empty   == [p \in Paths |-> 0]

Subtree(p) == {p} \cup Below[p]

PathValue(c, p) == IF c = Deleted THEN Invalid ELSE [q \in Subtree(p) |-> c[q]]

\* Mutant of Diff: a message does not change when a field in it does.
Diff_fields(old, new) == {p \in Paths \ {Root} : old[p] # new[p]}

\* The paths whose presence or value changed, and those of the messages they
\* are in.
Diff(old, new) ==
  {p \in Paths \ {Root} : \E q \in Subtree(p) : old[q] # new[q]}

Live(r) == r \in 1..Len(log) /\ log[r] # Deleted
OrEmpty(r) == IF Live(r) THEN log[r] ELSE Empty

\* A deletion's event carries the revision of the config it deleted.
EventRevision(r) == IF log[r] = Deleted THEN r - 1 ELSE r

ShouldNotify(r, p) == p = Root \/ p \in Diff(OrEmpty(r - 1), OrEmpty(r))

-----------------------------------------------------------------------------
(* Mutexes.  A reactive value's is held over several steps by an Update     *)
(* with listeners to notify and by Bind's registration; a queue's, by the   *)
(* goroutine that resolves it.                                              *)

Index == 1..Len(bind.paths)
NextBound == bind.paths[bind.next]
BindDone == bind.next > Len(bind.paths)

MuFree(p) ==
  /\ update.path # p
  /\ ~(bind.locked /\ NextBound = p)

ValuesMuFree(r) == queues[r].state # "resolving"

NoUpdate == [path |-> None, send |-> {}, call |-> {}]
NoCall   == [at |-> "none", i |-> 0, rev |-> 0, group |-> 0, fresh |-> FALSE]
NoQueue  == [state |-> "none", values |-> <<>>, position |-> 0]

-----------------------------------------------------------------------------
(* The active store.                                                        *)

Put(c) ==
  /\ Len(log) < MaxRevision
  /\ log' = Append(log, c)
  /\ UNCHANGED <<controller, update, rv, watchers, binder, onUpdate>>

Delete ==
  /\ Len(log) < MaxRevision
  /\ Live(Len(log))
  /\ log' = Append(log, Deleted)
  /\ UNCHANGED <<controller, update, rv, watchers, binder, onUpdate>>

-----------------------------------------------------------------------------
(* The controller.                                                          *)

\* Start reads the current revision, 0 if there is no config.
StartGet ==
  /\ pc = "new"
  /\ startRev' = IF Live(Len(log)) THEN Len(log) ELSE 0
  /\ pc' = "got"
  /\ UNCHANGED <<log, next, handling, todo, update, rv, watchers, binder, onUpdate>>

\* Mutant of FirstEvent: the watch starts after the revision that was read.
FirstEvent_after(rev) == IF rev > 0 THEN rev + 1 ELSE Len(log) + 1

\* The first event of a watch from a revision.
FirstEvent(rev) ==
  CASE rev > 0 /\ rev > Len(log) - (RingSize - 1) -> rev
    [] rev = 0 /\ Live(Len(log)) -> Len(log)
    [] OTHER -> Len(log) + 1

\* Then it opens a watch from that revision.
StartWatch ==
  /\ pc = "got"
  /\ next' = FirstEvent(startRev)
  /\ pc' = "run"
  /\ UNCHANGED <<log, startRev, handling, todo, update, rv, watchers, binder, onUpdate>>

\* The controller's goroutine takes an event from the watch.
HandleWatchEvent ==
  /\ pc = "run" /\ handling = 0
  /\ next <= Len(log)
  /\ handling' = next
  /\ next' = next + 1
  /\ todo' = Paths
  /\ UNCHANGED <<log, pc, startRev, update, rv, watchers, binder, onUpdate>>

\* WalkValues visits the trie depth first, children in any order, and a node
\* after the nodes below it.
WalkMayVisit(p) ==
  /\ p \in todo
  /\ todo \cap Below[p] = {}
  /\ \A q \in todo : ~(Below[q] \subseteq todo) => p \in Subtree(q)

\* The listeners of a path: open watches, and the functions Bind registered.
WatchChannels(p) == {w \in Watches : watch[w].path = p /\ watch[w].state \in {"open", "done"}}
WatchFuncs(p)    == {i \in 1..bind.next - 1 : bind.paths[i] = p}

\* A value's first update is always announced.
Notifies(p) == rv[p].pendingInit \/ ShouldNotify(handling, p)

\* reactiveValue.Update sets the value; with listeners to notify it keeps the
\* mutex until it has notified them.
Update(p) ==
  LET channels == IF Notifies(p) THEN WatchChannels(p) ELSE {}
      funcs    == IF Notifies(p) THEN WatchFuncs(p) ELSE {}
  IN
  /\ handling # 0 /\ update = NoUpdate
  /\ WalkMayVisit(p) /\ MuFree(p)
  /\ rv' = [rv EXCEPT ![p] = [rev         |-> EventRevision(handling),
                              pendingInit |-> FALSE,
                              value       |-> PathValue(log[handling], p)]]
  /\ todo' = todo \ {p}
  /\ update' = IF channels \cup funcs = {} THEN NoUpdate
               ELSE [path |-> p, send |-> channels, call |-> funcs]
  /\ UNCHANGED <<log, pc, startRev, next, handling, watchers, binder, onUpdate>>

\* The update with one listener less; the last one releases the mutex.
Notified(send, call) ==
  IF send \cup call = {} THEN NoUpdate ELSE [update EXCEPT !.send = send, !.call = call]

HasRoom(w) == Len(watch[w].ch) < ChannelCap

\* w <- v, once the channel has room.
SendChannel(w) ==
  /\ w \in update.send
  /\ HasRoom(w)
  /\ watch' = [watch EXCEPT ![w].ch = Append(@, rv[update.path].value)]
  /\ sent' = [sent EXCEPT ![w] = rv[update.path].value]
  /\ update' = Notified(update.send \ {w}, update.call)
  /\ UNCHANGED <<log, controller, rv, seen, binder, onUpdate>>

\* The handler returns: close(group).
CloseGroup ==
  /\ handling # 0 /\ todo = {} /\ update = NoUpdate
  /\ handling' = 0
  /\ UNCHANGED <<log, pc, startRev, next, todo, update, rv, watchers, binder, onUpdate>>

-----------------------------------------------------------------------------
(* binder.onUpdate, called by the controller's Update and by Bind.          *)

\* queues.PeekOrAdd.  The queues are a cache of ten, by revision; only those
\* of the two newest revisions are ever looked up.
PeekOrAdd(t, i, rev, group) ==
  /\ onUpdate' = [onUpdate EXCEPT ![t] =
       [at |-> "lock", i |-> i, rev |-> rev, group |-> group,
        fresh |-> queues[rev].state = "none"]]
  /\ queues' = [queues EXCEPT ![rev].state = IF @ = "none" THEN "open" ELSE @]
  /\ UNCHANGED <<goroutines, called, lastCall, crashed>>

\* With valuesMu: the slice is made if the queue is new, the value stored,
\* and a goroutine started.  Indexing the slice before it is made panics.
StoreValue(t, v) ==
  LET c == onUpdate[t]
      old == IF c.fresh THEN [i \in Index |-> Invalid] ELSE queues[c.rev].values
  IN
  /\ c.at = "lock"
  /\ ValuesMuFree(c.rev)
  /\ onUpdate' = [onUpdate EXCEPT ![t] = NoCall]
  /\ IF old = <<>>
     THEN crashed' = TRUE /\ UNCHANGED <<queues, goroutines>>
     ELSE /\ queues' = [queues EXCEPT ![c.rev].values = [old EXCEPT ![c.i] = v]]
          /\ goroutines' = goroutines \cup {[rev |-> c.rev, group |-> c.group]}
          /\ UNCHANGED crashed
  /\ UNCHANGED <<called, lastCall>>

\* Update calls a function Bind registered, after the channels.
CallFunc(i) ==
  /\ update.send = {} /\ i \in update.call
  /\ onUpdate["controller"].at = "none"
  /\ PeekOrAdd("controller", i, rv[update.path].rev, handling)
  /\ UNCHANGED <<log, controller, update, rv, watchers, bind>>

FuncReturns ==
  /\ StoreValue("controller", rv[update.path].value)
  /\ update' = Notified({}, update.call \ {onUpdate["controller"].i})
  /\ UNCHANGED <<log, controller, rv, watchers, bind>>

-----------------------------------------------------------------------------
(* Bind registers a function with each value in turn.                       *)

\* watchFuncInternal, on a value that has not been set: no call.
BindPending ==
  /\ ~BindDone /\ ~bind.locked
  /\ MuFree(NextBound)
  /\ rv[NextBound].pendingInit
  /\ bind' = [bind EXCEPT !.next = @ + 1]
  /\ UNCHANGED <<log, controller, update, rv, watchers, onUpdate, queues,
                 goroutines, called, lastCall, crashed>>

\* On one that has: the function is called with the mutex held and no group.
BindCalls ==
  /\ ~BindDone /\ ~bind.locked
  /\ MuFree(NextBound)
  /\ ~rv[NextBound].pendingInit
  /\ bind' = [bind EXCEPT !.locked = TRUE]
  /\ PeekOrAdd("bind", bind.next, rv[NextBound].rev, 0)
  /\ UNCHANGED <<log, controller, update, rv, watchers>>

BindRegisters ==
  /\ bind.locked
  /\ StoreValue("bind", rv[NextBound].value)
  /\ bind' = [bind EXCEPT !.locked = FALSE, !.next = @ + 1]
  /\ UNCHANGED <<log, controller, update, rv, watchers>>

-----------------------------------------------------------------------------
(* The goroutines: wait for the group, then resolve the queue once.         *)

\* Mutant of GroupClosed: the goroutine does not wait.
GroupClosed_early(g) == TRUE

GroupClosed(g) == g.group = 0 \/ g.group # handling

\* Mutant of ResolveOnce: every goroutine resolves.
ResolveOnce_every(g) == queues[g.rev].state \in {"open", "done"}

\* The first goroutine past its group runs doResolve; the others return.
ResolveOnce(g) == queues[g.rev].state = "open"

\* doResolve takes valuesMu.
Resolve(g) ==
  /\ g \in goroutines /\ GroupClosed(g)
  /\ IF ResolveOnce(g)
     THEN queues' = [queues EXCEPT ![g.rev].state = "resolving", ![g.rev].position = 1]
     ELSE queues[g.rev].state = "done" /\ UNCHANGED queues
  /\ goroutines' = goroutines \ {g}
  /\ UNCHANGED <<log, controller, update, rv, watchers, onUpdate, bind, called, lastCall, crashed>>

\* A value the revision did not set is read from its reactive value.
FillValue(r) ==
  LET q == queues[r] IN
  /\ q.state = "resolving" /\ q.position \in Index
  /\ IF q.values[q.position] # Invalid
     THEN queues' = [queues EXCEPT ![r].position = @ + 1]
     ELSE /\ MuFree(bind.paths[q.position])
          /\ queues' = [queues EXCEPT
                          ![r].values[q.position] = rv[bind.paths[q.position]].value,
                          ![r].position = @ + 1]
  /\ UNCHANGED <<log, controller, update, rv, watchers, onUpdate, bind, goroutines, called, lastCall, crashed>>

\* The callback runs, with valuesMu held.
Callback(r) ==
  LET q == queues[r] IN
  /\ q.state = "resolving" /\ q.position \notin Index
  /\ called' = [called EXCEPT ![r] = @ + 1]
  /\ lastCall' = [rev |-> r, values |-> q.values]
  /\ queues' = [queues EXCEPT ![r].state = "done"]
  /\ UNCHANGED <<log, controller, update, rv, watchers, onUpdate, bind, goroutines, crashed>>

-----------------------------------------------------------------------------
(* The callers of Watch.                                                    *)

\* The new channel holds the current value, if there is one.
Watch(w, p) ==
  /\ watch[w].state = "none" /\ MuFree(p)
  /\ watch' = [watch EXCEPT ![w] =
       [path |-> p, state |-> "open",
        ch |-> IF rv[p].pendingInit THEN <<>> ELSE <<rv[p].value>>]]
  /\ sent' = [sent EXCEPT ![w] = rv[p].value]
  /\ UNCHANGED <<log, controller, update, rv, seen, binder, onUpdate>>

Receive(w) ==
  /\ watch[w].ch # <<>>
  /\ seen' = [seen EXCEPT ![w] = Head(watch[w].ch)]
  /\ watch' = [watch EXCEPT ![w].ch = Tail(@)]
  /\ UNCHANGED <<log, controller, update, rv, sent, binder, onUpdate>>

\* The caller's context is done.
Cancel(w) ==
  /\ w \in Cancellable /\ watch[w].state = "open"
  /\ watch' = [watch EXCEPT ![w].state = "done"]
  /\ UNCHANGED <<log, controller, update, rv, sent, seen, binder, onUpdate>>

\* Mutant of Remove: the channel is closed without the mutex.
Remove_unlocked(w) ==
  /\ watch[w].state = "done"
  /\ watch' = [watch EXCEPT ![w].state = "closed"]
  /\ UNCHANGED <<log, controller, update, rv, sent, seen, binder, onUpdate>>

\* context.AfterFunc: with the mutex, the channel is removed and closed.
Remove(w) ==
  /\ watch[w].state = "done" /\ MuFree(watch[w].path)
  /\ watch' = [watch EXCEPT ![w].state = "closed"]
  /\ UNCHANGED <<log, controller, update, rv, sent, seen, binder, onUpdate>>

-----------------------------------------------------------------------------
Revisions == 1..MaxRevision
Threads   == {"controller", "bind"}

Init ==
  /\ log = <<>>
  /\ pc = "new" /\ startRev = 0 /\ next = 1 /\ handling = 0 /\ todo = {}
  /\ update = NoUpdate
  /\ rv = [p \in Paths |-> [rev |-> 0, pendingInit |-> TRUE, value |-> Invalid]]
  /\ watch = [w \in Watches |-> [path |-> None, state |-> "none", ch |-> <<>>]]
  /\ sent = [w \in Watches |-> Invalid]
  /\ seen = [w \in Watches |-> Invalid]
  /\ \E b \in Bindings : bind = [paths |-> b, next |-> 1, locked |-> FALSE]
  /\ onUpdate = [t \in Threads |-> NoCall]
  /\ queues = [r \in Revisions |-> NoQueue]
  /\ goroutines = {}
  /\ called = [r \in Revisions |-> 0]
  /\ lastCall = [rev |-> 0, values |-> <<>>]
  /\ crashed = FALSE

\* A binding that is not Late is made while there is no config.
StoreStep == (bind.paths \in Late \/ BindDone) /\ (Delete \/ \E c \in Configs : Put(c))

ControllerStep ==
  \/ StartGet \/ StartWatch \/ HandleWatchEvent \/ CloseGroup
  \/ \E p \in Paths : Update(p)
  \/ \E w \in Watches : SendChannel(w)
  \/ \E i \in Index : CallFunc(i)
  \/ FuncReturns

BindStep == BindPending \/ BindCalls \/ BindRegisters

ResolveStep(r) ==
  \/ \E g \in goroutines : g.rev = r /\ Resolve(g)
  \/ FillValue(r) \/ Callback(r)

\* What goroutines do of themselves, and callers that read their channel.
SystemStep ==
  /\ ~crashed     \* a panic ends the program
  /\ \/ ControllerStep \/ BindStep
     \/ \E r \in Revisions : ResolveStep(r)
     \/ \E w \in Watches : Receive(w) \/ Remove(w)

\* What others may do.
EnvironmentStep ==
  /\ ~crashed
  /\ StoreStep \/ \E w \in Watches : Cancel(w) \/ \E p \in Watched : Watch(w, p)

Next == SystemStep \/ EnvironmentStep

Spec == Init /\ [][Next]_vars

\* As long as some goroutine can go on, one does.  The model's behaviours are
\* finite, so that this is all the fairness there is to assume.
Fairness == WF_vars(SystemStep)

FairSpec == Spec /\ Fairness

-----------------------------------------------------------------------------
(* Properties.                                                              *)

Values == {Invalid} \cup {PathValue(c, p) : c \in Configs, p \in Paths}

\* Every variable has its type and no channel exceeds its capacity.
TypeOK ==
  /\ log \in Seq(Configs \cup {Deleted}) /\ Len(log) <= MaxRevision
  /\ pc \in {"new", "got", "run"}
  /\ startRev \in 0..MaxRevision
  /\ next \in 1..MaxRevision + 1
  /\ handling \in 0..MaxRevision
  /\ todo \subseteq Paths
  /\ update \in [path : Paths \cup {None}, send : SUBSET Watches, call : SUBSET Index]
  /\ rv \in [Paths -> [rev : 0..MaxRevision, pendingInit : BOOLEAN, value : Values]]
  /\ watch \in [Watches -> [path : Paths \cup {None},
                            state : {"none", "open", "done", "closed"},
                            ch : Seq(Values)]]
  /\ \A w \in Watches : Len(watch[w].ch) <= ChannelCap
  /\ sent \in [Watches -> Values] /\ seen \in [Watches -> Values]
  /\ bind \in [paths : Bindings, next : 1..Len(bind.paths) + 1, locked : BOOLEAN]
  /\ crashed \in BOOLEAN
  /\ onUpdate \in [Threads -> [at : {"none", "lock"}, i : Index \cup {0},
                               rev : 0..MaxRevision, group : 0..MaxRevision,
                               fresh : BOOLEAN]]
  /\ queues \in [Revisions -> [state : {"none", "open", "resolving", "done"},
                               values : Seq(Values), position : 0..Len(bind.paths) + 1]]
  /\ goroutines \subseteq [rev : Revisions, group : 0..MaxRevision]
  /\ called \in [Revisions -> Nat]
  /\ lastCall \in [rev : 0..MaxRevision, values : Seq(Values)]

\* A deleted config's values are invalid; to a caller they are those of an
\* empty config.
SameValue(v, u, p) ==
  LET orEmpty(x) == IF x = Invalid THEN PathValue(Empty, p) ELSE x
  IN orEmpty(v) = orEmpty(u)

\* No change of a watched path is missed: what a watch was sent last is the
\* value of its path, except while Update is notifying it.  The diff of the
\* configs must name every path whose value differs, nested or not, whatever
\* deletions and first values came before.
WatchesAreCurrent ==
  \A w \in Watches :
    watch[w].state \in {"open", "done"} /\ w \notin update.send =>
      SameValue(sent[w], rv[watch[w].path].value, watch[w].path)

\* Update never sends on a channel that was closed.
NoSendOnClosed == \A w \in update.send : watch[w].state # "closed"

\* Bind's callback for a revision is given, for every bound path, the value of
\* that revision or of a later one the controller has received: never a value
\* the revision replaced.
CallbacksAreFresh ==
  lastCall.rev # 0 =>
    \A i \in Index : \E r \in lastCall.rev..next - 1 :
      lastCall.values[i] = PathValue(log[r], bind.paths[i])

\* Revision r wrote a config with a new value at a bound path.
PutChangesBound(r) ==
  /\ Live(r)
  /\ \E i \in Index :
       PathValue(OrEmpty(r - 1), bind.paths[i]) # PathValue(log[r], bind.paths[i])

CalledBefore(r) == \E s \in 1..r - 1 : called[s] # 0

\* bind.go:24, "guaranteed to be invoked exactly once for a single change to
\* the active config": in the end the callback has run, unless there is no
\* config; after its first run, once for every config written that changes a
\* bound path; and never twice for a revision.  Writes the controller did not
\* see, because they came before Start, are before the first run.  Deletions
\* are left out, against the text: a deletion's event has the revision of the
\* config it deletes, so that onUpdate finds the queue of that revision
\* resolved and does not call.
CalledOncePerPut ==
  <>[](/\ \A r \in Revisions : called[r] <= 1
       /\ \A r \in Revisions : CalledBefore(r) /\ PutChangesBound(r) => called[r] = 1
       /\ Live(Len(log)) => \E r \in Revisions : called[r] = 1)

\* When the writes are over, every open watch's caller has read the value the
\* store has, also if the writes ran ahead of Start or of the caller.
WatchersConverge ==
  \A w \in Watches :
    <>[](watch[w].state = "open" /\ log # <<>> =>
           SameValue(seen[w], PathValue(log[Len(log)], watch[w].path), watch[w].path))

-----------------------------------------------------------------------------
(* The inductive invariants from which the proofs start.                    *)

\* Only a config that exists is deleted.
LogOK == \A r \in 1..Len(log) : log[r] = Deleted => r > 1 /\ log[r - 1] # Deleted

\* The controller handles the events in order, each after the one before; the
\* path of an update in progress has been visited.
ControllerOK ==
  /\ next <= Len(log) + 1 /\ startRev <= Len(log)
  /\ pc # "run" => handling = 0 /\ \A p \in Paths : rv[p].pendingInit
  /\ IF handling = 0 THEN todo = {} /\ update = NoUpdate
     ELSE next = handling + 1 /\ \A p \in Paths \ todo : ~rv[p].pendingInit

\* The last event that reached the value of a path.
LastEvent(p) == IF handling # 0 /\ p \in todo THEN next - 2 ELSE next - 1

\* A reactive value that was set has the value and revision of that event.
ValueOK(p) ==
  ~rv[p].pendingInit =>
    /\ LastEvent(p) \in 1..Len(log)
    /\ rv[p].value = PathValue(log[LastEvent(p)], p)
    /\ rv[p].rev = EventRevision(LastEvent(p))

\* An update in progress, with its call of onUpdate, and its listeners.
UpdateOK ==
  LET c == onUpdate["controller"] IN
  /\ update # NoUpdate =>
       /\ update.path \in Paths \ todo
       /\ \A i \in update.call : bind.paths[i] = update.path
  /\ update.path = None => update = NoUpdate
  /\ \A w \in update.send :
       watch[w].path = update.path /\ watch[w].state \in {"open", "done"}
  /\ IF c.at = "none" THEN c = NoCall
     ELSE /\ update # NoUpdate /\ update.send = {} /\ c.i \in update.call
          /\ c.rev = rv[update.path].rev /\ c.group = handling
  /\ \A w \in Watches : watch[w].state # "none" => watch[w].path \in Paths

\* Bind holds the mutex of a value while it calls onUpdate for it.
BindOK ==
  LET c == onUpdate["bind"] IN
  /\ IF bind.locked
     THEN /\ ~BindDone /\ update.path # NextBound /\ ~rv[NextBound].pendingInit
          /\ c.at = "lock" /\ c.i = bind.next /\ c.rev = rv[NextBound].rev /\ c.group = 0
     ELSE c = NoCall
  /\ bind.paths \in Late \/ BindDone \/ log = <<>>

\* The slice of values is made when the first of them is stored, and before a
\* goroutine is started.
QueuesOK ==
  /\ \A r \in Revisions : Len(queues[r].values) \in {0, Len(bind.paths)}
  /\ \A r \in Revisions : queues[r].state = "resolving" =>
       Len(queues[r].values) = Len(bind.paths) /\ queues[r].position # 0
  /\ \A g \in goroutines : Len(queues[g.rev].values) = Len(bind.paths)

Inductive ==
  /\ TypeOK
  /\ LogOK
  /\ ControllerOK
  /\ \A p \in Paths : ValueOK(p)
  /\ UpdateOK
  /\ BindOK
  /\ QueuesOK
  /\ WatchesAreCurrent

\* The value of bound path i at revision r or at one received later.
FreshFrom(r, i, v) == \E s \in r..next - 1 : v = PathValue(log[s], bind.paths[i])

\* The bound values have been set by revision r or a later one.
Reached(r) ==
  \A i \in Index : ~rv[bind.paths[i]].pendingInit /\ LastEvent(bind.paths[i]) >= r

\* What a queue has of its revision, and when its goroutines may resolve it.
FreshOK ==
  /\ pc # "run" => /\ \A r \in Revisions : queues[r] = NoQueue
                   /\ goroutines = {} /\ lastCall.rev = 0
  /\ \A r \in Revisions : \A i \in 1..Len(queues[r].values) :
       queues[r].values[i] # Invalid \/ (queues[r].state = "resolving" /\ i < queues[r].position)
         => FreshFrom(r, i, queues[r].values[i])
  /\ \A r \in Revisions : queues[r].state = "resolving" => Reached(r)
  /\ \A g \in goroutines :
       /\ g.rev <= g.group \/ g.group = 0
       /\ GroupClosed(g) => Reached(g.rev)
  /\ CallbacksAreFresh

\* At most one path is bound once there are configs.
LateBindsOne == \A b \in Late : Len(b) <= 1
=============================================================================
