-------------------------- MODULE Reactive_proofs ---------------------------
(***************************************************************************)
(* For any tree of paths, configs, watches and bindings: an update never   *)
(* sends on a closed channel, no change of a watched path is missed, and a *)
(* binding's callback is never given a value its revision replaced.        *)
(***************************************************************************)
EXTENDS Reactive, TLAPS, SequenceTheorems

-----------------------------------------------------------------------------
(* Values.                                                                  *)

\* An empty function is told from one that is not.
LEMMA NotEmptyFunction ==
  ASSUME NEW S, S # {}, NEW T, NEW f \in [S -> T]
  PROVE  f # <<>>
<1>1. DOMAIN f = S OBVIOUS
<1>2. DOMAIN <<>> = {} OBVIOUS
<1>3. QED BY <1>1, <1>2

\* Configs are not deletions, and valid values are not invalid.
LEMMA ConfigValue ==
  ASSUME NEW c, c \in Configs \/ c = Empty, NEW p \in Paths
  PROVE  /\ c # Deleted
         /\ PathValue(c, p) = [q \in Subtree(p) |-> c[q]]
         /\ PathValue(c, p) # Invalid
<1>1. c \in [Paths -> Nat] BY InputsAssumption DEF Empty
<1>2. c # Deleted BY <1>1, TrieAssumption, NotEmptyFunction DEF Deleted
<1>3. PathValue(c, p) = [q \in Subtree(p) |-> c[q]] BY <1>2 DEF PathValue
<1>4. Subtree(p) \subseteq Paths /\ Subtree(p) # {} BY TrieAssumption DEF Subtree
<1> DEFINE v == [q \in Subtree(p) |-> c[q]]
<1>5. v \in [Subtree(p) -> Nat] BY <1>1, <1>4
<1> HIDE DEF v
<1>6. v # Invalid BY <1>4, <1>5, NotEmptyFunction DEF Invalid
<1>7. QED BY <1>2, <1>3, <1>6 DEF v

LEMMA PathValueType ==
  ASSUME NEW c \in Configs \cup {Deleted}, NEW p \in Paths
  PROVE  PathValue(c, p) \in Values
BY DEF PathValue, Values

\* To a caller the value of a path at a revision is that of a config.
LEMMA ValueOrEmpty ==
  ASSUME log \in Seq(Configs \cup {Deleted}), NEW r \in 1..Len(log), NEW p \in Paths
  PROVE  LET v == PathValue(log[r], p)
         IN (IF v = Invalid THEN PathValue(Empty, p) ELSE v) = [q \in Subtree(p) |-> OrEmpty(r)[q]]
<1>1. log[r] \in Configs \cup {Deleted} OBVIOUS
<1>2. CASE log[r] = Deleted
  <2>1. PathValue(log[r], p) = Invalid BY <1>2 DEF PathValue
  <2>2. OrEmpty(r) = Empty BY <1>2 DEF OrEmpty, Live
  <2>3. PathValue(Empty, p) = [q \in Subtree(p) |-> Empty[q]] BY ConfigValue
  <2>4. QED BY <2>1, <2>2, <2>3
<1>3. CASE log[r] # Deleted
  <2>1. log[r] \in Configs BY <1>1, <1>3
  <2>2. OrEmpty(r) = log[r] BY <1>3 DEF OrEmpty, Live
  <2>3. PathValue(log[r], p) = [q \in Subtree(p) |-> log[r][q]] /\ PathValue(log[r], p) # Invalid
    BY <2>1, ConfigValue
  <2>4. QED BY <2>2, <2>3
<1>4. QED BY <1>2, <1>3

\* A path that an event does not announce keeps its value: the diff names
\* every path whose value differs.
LEMMA UnannouncedSame ==
  ASSUME log \in Seq(Configs \cup {Deleted}), NEW r \in 1..Len(log), r - 1 \in 1..Len(log),
         NEW p \in Paths, ~ShouldNotify(r, p)
  PROVE  SameValue(PathValue(log[r - 1], p), PathValue(log[r], p), p)
<1>1. \A q \in Subtree(p) : OrEmpty(r - 1)[q] = OrEmpty(r)[q] BY DEF ShouldNotify, Diff
<1>2. [q \in Subtree(p) |-> OrEmpty(r - 1)[q]] = [q \in Subtree(p) |-> OrEmpty(r)[q]] BY <1>1
<1> DEFINE u == PathValue(log[r - 1], p)
           v == PathValue(log[r], p)
<1>3. (IF u = Invalid THEN PathValue(Empty, p) ELSE u) = [q \in Subtree(p) |-> OrEmpty(r - 1)[q]]
  BY ValueOrEmpty
<1>4. (IF v = Invalid THEN PathValue(Empty, p) ELSE v) = [q \in Subtree(p) |-> OrEmpty(r)[q]]
  BY ValueOrEmpty
<1> HIDE DEF u, v
<1>5. SameValue(u, v, p) BY <1>2, <1>3, <1>4 DEF SameValue
<1>6. QED BY <1>5 DEF u, v

LEMMA SameValueTransitive ==
  ASSUME NEW u, NEW v, NEW x, NEW p, SameValue(u, v, p), SameValue(v, x, p)
  PROVE  SameValue(u, x, p)
BY DEF SameValue
-----------------------------------------------------------------------------
(* The parts of the type invariant.                                         *)

TypeController ==
  /\ log \in Seq(Configs \cup {Deleted}) /\ Len(log) <= MaxRevision
  /\ pc \in {"new", "got", "run"}
  /\ startRev \in 0..MaxRevision
  /\ next \in 1..MaxRevision + 1
  /\ handling \in 0..MaxRevision
  /\ todo \subseteq Paths
  /\ rv \in [Paths -> [rev : 0..MaxRevision, pendingInit : BOOLEAN, value : Values]]

TypeWatches ==
  /\ update \in [path : Paths \cup {None}, send : SUBSET Watches, call : SUBSET Index]
  /\ watch \in [Watches -> [path : Paths \cup {None},
                            state : {"none", "open", "done", "closed"},
                            ch : Seq(Values)]]
  /\ \A w \in Watches : Len(watch[w].ch) <= ChannelCap
  /\ sent \in [Watches -> Values] /\ seen \in [Watches -> Values]

TypeBind == bind \in [paths : Bindings, next : 1..Len(bind.paths) + 1, locked : BOOLEAN]

Calls == [at : {"none", "lock"}, i : Index \cup {0}, rev : 0..MaxRevision,
          group : 0..MaxRevision, fresh : BOOLEAN]
Queues == [state : {"none", "open", "resolving", "done"},
           values : Seq(Values), position : 0..Len(bind.paths) + 1]

TypeQueues ==
  /\ crashed \in BOOLEAN
  /\ onUpdate \in [Threads -> Calls]
  /\ queues \in [Revisions -> Queues]
  /\ goroutines \subseteq [rev : Revisions, group : 0..MaxRevision]
  /\ called \in [Revisions -> Nat]
  /\ lastCall \in [rev : 0..MaxRevision, values : Seq(Values)]

ValuesOK == \A p \in Paths : ValueOK(p)

LEMMA InductiveParts ==
  Inductive <=> /\ TypeController /\ TypeWatches /\ TypeBind /\ TypeQueues
                /\ LogOK /\ ControllerOK /\ ValuesOK
                /\ UpdateOK /\ BindOK /\ QueuesOK /\ WatchesAreCurrent
<1>1. TypeOK <=> TypeController /\ TypeWatches /\ TypeBind /\ TypeQueues
  BY DEF TypeOK, TypeController, TypeWatches, TypeBind, TypeQueues, Calls, Queues
<1>2. QED BY <1>1 DEF Inductive, ValuesOK

\* The revision of a value that was set is one of the log.
LEMMA ValueRevision ==
  ASSUME TypeController, LogOK, NEW p \in Paths, ValueOK(p), ~rv[p].pendingInit
  PROVE  /\ rv[p].rev \in Revisions /\ rv[p].rev <= LastEvent(p)
         /\ LastEvent(p) \in 1..Len(log) /\ rv[p].value = PathValue(log[LastEvent(p)], p)
<1>1. LastEvent(p) \in 1..Len(log) /\ rv[p].value = PathValue(log[LastEvent(p)], p)
      /\ rv[p].rev = EventRevision(LastEvent(p))
  BY DEF ValueOK
<1>2. Len(log) \in Nat /\ Len(log) <= MaxRevision /\ MaxRevision \in Nat
  BY BoundsAssumption DEF TypeController
<1>3. log[LastEvent(p)] = Deleted => LastEvent(p) > 1 BY <1>1 DEF LogOK
<1>4. QED BY <1>1, <1>2, <1>3 DEF EventRevision, Revisions

LEMMA InitInductive == Init => Inductive
<1> SUFFICES ASSUME Init PROVE Inductive
  OBVIOUS
<1>0. MaxRevision \in Nat /\ ChannelCap \in Nat BY BoundsAssumption
<1>1. TypeController BY <1>0 DEF Init, TypeController, Values
<1>2. TypeWatches BY <1>0 DEF Init, TypeWatches, Values, NoUpdate
<1>3. TypeBind
  <2>1. PICK b \in Bindings : bind = [paths |-> b, next |-> 1, locked |-> FALSE] BY DEF Init
  <2>2. Len(b) \in Nat BY InputsAssumption
  <2>3. QED BY <2>1, <2>2 DEF TypeBind
<1>4. TypeQueues
  <2>1. Len(bind.paths) \in Nat BY <1>3, InputsAssumption DEF TypeBind
  <2>2. NoCall \in Calls BY <1>0 DEF NoCall, Calls
  <2>3. NoQueue \in Queues BY <2>1 DEF NoQueue, Queues
  <2>4. onUpdate \in [Threads -> Calls] BY <2>2 DEF Init
  <2>5. queues \in [Revisions -> Queues] BY <2>3 DEF Init
  <2>6. lastCall \in [rev : 0..MaxRevision, values : Seq(Values)] BY <1>0 DEF Init
  <2>7. called \in [Revisions -> Nat] /\ goroutines = {} /\ crashed = FALSE BY DEF Init
  <2>8. QED BY <2>4, <2>5, <2>6, <2>7 DEF TypeQueues
<1>5. LogOK /\ ControllerOK /\ ValuesOK BY DEF Init, LogOK, ControllerOK, ValuesOK, ValueOK
<1>6. UpdateOK /\ BindOK
  <2>1. onUpdate["controller"] = NoCall /\ onUpdate["bind"] = NoCall BY DEF Init, Threads
  <2>2. UpdateOK BY <2>1 DEF Init, UpdateOK, NoUpdate, NoCall
  <2>3. BindOK BY <2>1 DEF Init, BindOK
  <2>4. QED BY <2>2, <2>3
<1>7. QueuesOK BY DEF Init, QueuesOK, NoQueue
<1>8. WatchesAreCurrent BY DEF Init, WatchesAreCurrent
<1>9. QED BY <1>1, <1>2, <1>3, <1>4, <1>5, <1>6, <1>7, <1>8, InductiveParts

-----------------------------------------------------------------------------
(* Steps that leave parts of the invariant alone.                           *)

LEMMA BinderFrame ==
  ASSUME UNCHANGED <<bind, onUpdate, queues, goroutines, called, lastCall, crashed>>,
         TypeBind, TypeQueues, QueuesOK
  PROVE  TypeBind' /\ TypeQueues' /\ QueuesOK'
<1>1. TypeBind' BY DEF TypeBind
<1>2. TypeQueues' BY DEF TypeQueues, Calls, Queues, Index
<1>3. QueuesOK' BY DEF QueuesOK
<1>4. QED BY <1>1, <1>2, <1>3

LEMMA WatchesFrame ==
  ASSUME UNCHANGED <<update, watch, sent, seen, bind>>, TypeWatches
  PROVE  TypeWatches'
BY DEF TypeWatches, Index

LEMMA ControllerFrame ==
  ASSUME UNCHANGED <<log, pc, startRev, next, handling, todo, rv>>, TypeController, LogOK, ValuesOK
  PROVE  TypeController' /\ LogOK' /\ ValuesOK'
<1>1. TypeController' /\ LogOK' BY DEF TypeController, LogOK
<1>2. \A p \in Paths : LastEvent(p)' = LastEvent(p) BY DEF LastEvent
<1>3. \A p \in Paths : EventRevision(LastEvent(p))' = EventRevision(LastEvent(p))
  BY <1>2 DEF EventRevision
<1>4. ValuesOK' BY <1>2, <1>3 DEF ValuesOK, ValueOK
<1>5. QED BY <1>1, <1>4

-----------------------------------------------------------------------------
(* The steps of the store and of the controller.                            *)

\* A write.
LEMMA LogStep ==
  ASSUME Inductive, StoreStep
  PROVE  Inductive'
<1>a. /\ TypeController /\ TypeWatches /\ TypeBind /\ TypeQueues /\ LogOK /\ ControllerOK /\ ValuesOK
      /\ UpdateOK /\ BindOK /\ QueuesOK /\ WatchesAreCurrent
  BY InductiveParts
<1>b. /\ UNCHANGED <<pc, startRev, next, handling, todo, update, rv, watch, sent, seen, bind, queues,
                     goroutines, called, lastCall, crashed, onUpdate>>
      /\ bind.paths \in Late \/ BindDone
  BY DEF StoreStep, Put, Delete, controller, watchers, binder
<1>c. PICK x \in Configs \cup {Deleted} :
        log' = Append(log, x) /\ Len(log) < MaxRevision /\ (x = Deleted => Live(Len(log)))
  <2>1. CASE Delete
    <3>1. Deleted \in Configs \cup {Deleted} OBVIOUS
    <3>2. QED BY <2>1, <3>1 DEF Delete
  <2>2. ASSUME NEW c \in Configs, Put(c)
        PROVE \E x \in Configs \cup {Deleted} :
                log' = Append(log, x) /\ Len(log) < MaxRevision /\ (x = Deleted => Live(Len(log)))
    <3>1. c # Deleted /\ c \in Configs \cup {Deleted} BY ConfigValue, TrieAssumption
    <3>2. QED BY <2>2, <3>1 DEF Put
  <2>3. QED BY <2>1, <2>2 DEF StoreStep
<1>d. /\ Len(log) \in Nat /\ log' \in Seq(Configs \cup {Deleted}) /\ Len(log') = Len(log) + 1
      /\ log'[Len(log) + 1] = x /\ \A r \in 1..Len(log) : log'[r] = log[r]
  BY <1>a, <1>c, AppendProperties DEF TypeController
<1>1. TypeController' BY <1>a, <1>b, <1>c, <1>d, BoundsAssumption DEF TypeController
<1>2. TypeWatches' BY <1>a, <1>b, WatchesFrame
<1>3. TypeBind' /\ TypeQueues' /\ QueuesOK' BY <1>a, <1>b, BinderFrame
<1>4. LogOK'
  <2> SUFFICES ASSUME NEW r \in 1..Len(log'), log'[r] = Deleted PROVE r > 1 /\ log'[r - 1] # Deleted
    BY DEF LogOK
  <2>1. CASE r = Len(log) + 1
    <3>1. Len(log) \in 1..Len(log) /\ log[Len(log)] # Deleted BY <2>1, <1>c, <1>d DEF Live
    <3>2. QED BY <2>1, <3>1, <1>d
  <2>2. CASE r # Len(log) + 1
    <3>1. r \in 1..Len(log) /\ log[r] = Deleted BY <2>2, <1>d
    <3>2. r > 1 /\ log[r - 1] # Deleted BY <3>1, <1>a DEF LogOK
    <3>3. r - 1 \in 1..Len(log) BY <3>1, <3>2, <1>d
    <3>4. QED BY <3>2, <3>3, <1>d
  <2>3. QED BY <2>1, <2>2
<1>5. ControllerOK' BY <1>a, <1>b, <1>d DEF ControllerOK, TypeController
<1>6. ValuesOK'
  <2> SUFFICES ASSUME NEW p \in Paths, ~rv[p].pendingInit PROVE ValueOK(p)'
    BY <1>b DEF ValuesOK, ValueOK
  <2>1. /\ LastEvent(p) \in 1..Len(log) /\ rv[p].value = PathValue(log[LastEvent(p)], p)
        /\ rv[p].rev = EventRevision(LastEvent(p))
    BY <1>a DEF ValuesOK, ValueOK
  <2>2. LastEvent(p)' = LastEvent(p) BY <1>b DEF LastEvent
  <2>3. LastEvent(p) \in 1..Len(log') /\ log'[LastEvent(p)] = log[LastEvent(p)] BY <2>1, <1>d
  <2>4. QED BY <2>1, <2>2, <2>3, <1>b DEF ValueOK, EventRevision
<1>7. UpdateOK' BY <1>a, <1>b DEF UpdateOK
<1>8. BindOK' BY <1>a, <1>b DEF BindOK, BindDone, NextBound
<1>9. WatchesAreCurrent' BY <1>a, <1>b DEF WatchesAreCurrent
<1>10. QED BY <1>1, <1>2, <1>3, <1>4, <1>5, <1>6, <1>7, <1>8, <1>9, InductiveParts, PTL

\* Start reads the revision and opens the watch.
LEMMA StartSteps ==
  ASSUME Inductive, StartGet \/ StartWatch
  PROVE  Inductive'
<1>a. /\ TypeController /\ TypeWatches /\ TypeBind /\ TypeQueues /\ LogOK /\ ControllerOK /\ ValuesOK
      /\ UpdateOK /\ BindOK /\ QueuesOK /\ WatchesAreCurrent
  BY InductiveParts
<1>b. /\ UNCHANGED <<log, handling, todo, update, rv, watch, sent, seen, bind, queues,
                     goroutines, called, lastCall, crashed, onUpdate>>
      /\ pc # "run"
  BY DEF StartGet, StartWatch, watchers, binder
<1>c. Len(log) \in Nat /\ Len(log) <= MaxRevision /\ MaxRevision \in Nat /\ RingSize \in Nat
      /\ startRev \in Nat /\ startRev <= Len(log) /\ next \in Nat
  BY <1>a, BoundsAssumption DEF TypeController, ControllerOK
<1>d. /\ pc' \in {"got", "run"} /\ startRev' \in 0..Len(log) /\ next' \in 1..Len(log) + 1
  <2>1. CASE StartGet BY <2>1, <1>a, <1>c DEF StartGet, TypeController, ControllerOK
  <2>2. CASE StartWatch
    <3>1. FirstEvent(startRev) \in 1..Len(log) + 1
      <4>1. CASE startRev > 0 /\ startRev > Len(log) - (RingSize - 1) BY <4>1, <1>c DEF FirstEvent
      <4>2. CASE ~(startRev > 0 /\ startRev > Len(log) - (RingSize - 1)) /\ startRev = 0 /\ Live(Len(log))
        BY <4>2, <1>c DEF FirstEvent, Live
      <4>3. CASE ~(startRev > 0 /\ startRev > Len(log) - (RingSize - 1)) /\ ~(startRev = 0 /\ Live(Len(log)))
        BY <4>3, <1>c DEF FirstEvent
      <4>4. QED BY <4>1, <4>2, <4>3
    <3>2. QED BY <2>2, <3>1, <1>c DEF StartWatch
  <2>3. QED BY <2>1, <2>2
<1>e. handling = 0 /\ todo = {} /\ update = NoUpdate /\ \A p \in Paths : rv[p].pendingInit
  BY <1>a, <1>b DEF ControllerOK
<1>1. TypeController' BY <1>a, <1>b, <1>c, <1>d DEF TypeController
<1>2. TypeWatches' BY <1>a, <1>b, WatchesFrame
<1>3. TypeBind' /\ TypeQueues' /\ QueuesOK' BY <1>a, <1>b, BinderFrame
<1>4. LogOK' BY <1>a, <1>b DEF LogOK
<1>5. ControllerOK' BY <1>a, <1>b, <1>c, <1>d, <1>e DEF ControllerOK
<1>6. ValuesOK' BY <1>b, <1>e DEF ValuesOK, ValueOK
<1>7. UpdateOK' BY <1>a, <1>b DEF UpdateOK
<1>8. BindOK' BY <1>a, <1>b DEF BindOK, BindDone, NextBound
<1>9. WatchesAreCurrent' BY <1>a, <1>b DEF WatchesAreCurrent
<1>10. QED BY <1>1, <1>2, <1>3, <1>4, <1>5, <1>6, <1>7, <1>8, <1>9, InductiveParts, PTL

\* An event's handling begins and ends.
LEMMA HandleStep ==
  ASSUME Inductive, HandleWatchEvent \/ CloseGroup
  PROVE  Inductive'
<1>a. /\ TypeController /\ TypeWatches /\ TypeBind /\ TypeQueues /\ LogOK /\ ControllerOK /\ ValuesOK
      /\ UpdateOK /\ BindOK /\ QueuesOK /\ WatchesAreCurrent
  BY InductiveParts
<1>b. /\ UNCHANGED <<log, pc, startRev, update, rv, watch, sent, seen, bind, queues,
                     goroutines, called, lastCall, crashed, onUpdate>>
      /\ update = NoUpdate
  BY <1>a DEF HandleWatchEvent, CloseGroup, watchers, binder, ControllerOK
<1>c. Len(log) \in Nat /\ Len(log) <= MaxRevision /\ MaxRevision \in Nat /\ next \in Nat /\ next >= 1
      /\ handling \in Nat
  BY <1>a, BoundsAssumption DEF TypeController
<1>d. /\ TypeController' /\ ControllerOK' /\ \A p \in Paths : LastEvent(p)' = LastEvent(p)
  <2>1. CASE HandleWatchEvent
    <3>1. /\ pc = "run" /\ handling = 0 /\ next <= Len(log) /\ handling' = next
          /\ next' = next + 1 /\ todo' = Paths
      BY <2>1 DEF HandleWatchEvent
    <3>2. TypeController' BY <3>1, <1>a, <1>b, <1>c DEF TypeController
    <3>3. ControllerOK' BY <3>1, <1>a, <1>b, <1>c DEF ControllerOK
    <3>4. \A p \in Paths : LastEvent(p)' = LastEvent(p) BY <3>1, <1>c DEF LastEvent
    <3>5. QED BY <3>2, <3>3, <3>4
  <2>2. CASE CloseGroup
    <3>1. handling # 0 /\ todo = {} /\ handling' = 0 /\ todo' = {} /\ next' = next
      BY <2>2 DEF CloseGroup
    <3>2. TypeController' BY <3>1, <1>a, <1>b, <1>c DEF TypeController
    <3>3. ControllerOK' BY <3>1, <1>a, <1>b, <1>c DEF ControllerOK
    <3>4. \A p \in Paths : LastEvent(p)' = LastEvent(p) BY <3>1, <1>c DEF LastEvent
    <3>5. QED BY <3>2, <3>3, <3>4
  <2>3. QED BY <2>1, <2>2
<1>1. LogOK' BY <1>a, <1>b DEF LogOK
<1>2. TypeWatches' BY <1>a, <1>b, WatchesFrame
<1>3. TypeBind' /\ TypeQueues' /\ QueuesOK' BY <1>a, <1>b, BinderFrame
<1>6. ValuesOK' BY <1>a, <1>b, <1>d DEF ValuesOK, ValueOK, EventRevision
<1>7. UpdateOK' BY <1>a, <1>b DEF UpdateOK
<1>8. BindOK' BY <1>a, <1>b DEF BindOK, BindDone, NextBound
<1>9. WatchesAreCurrent' BY <1>a, <1>b DEF WatchesAreCurrent
<1>10. QED BY <1>1, <1>2, <1>3, <1>d, <1>6, <1>7, <1>8, <1>9, InductiveParts, PTL

\* A reactive value takes the value of the event.  The watches that are not
\* told have a value that is the same to their callers.
LEMMA UpdateStep ==
  ASSUME Inductive, NEW p \in Paths, Update(p)
  PROVE  Inductive'
<1>a. /\ TypeController /\ TypeWatches /\ TypeBind /\ TypeQueues /\ LogOK /\ ControllerOK /\ ValuesOK
      /\ UpdateOK /\ BindOK /\ QueuesOK /\ WatchesAreCurrent
  BY InductiveParts
<1> DEFINE channels == IF Notifies(p) THEN WatchChannels(p) ELSE {}
           funcs    == IF Notifies(p) THEN WatchFuncs(p) ELSE {}
           new      == [rev |-> EventRevision(handling), pendingInit |-> FALSE,
                        value |-> PathValue(log[handling], p)]
<1>b. /\ handling # 0 /\ update = NoUpdate /\ p \in todo /\ MuFree(p)
      /\ rv' = [rv EXCEPT ![p] = new] /\ todo' = todo \ {p}
      /\ update' = IF channels \cup funcs = {} THEN NoUpdate
                   ELSE [path |-> p, send |-> channels, call |-> funcs]
      /\ UNCHANGED <<log, pc, startRev, next, handling, watch, sent, seen, bind, queues,
                     goroutines, called, lastCall, crashed, onUpdate>>
  BY DEF Update, WalkMayVisit, watchers, binder
<1>c. /\ Len(log) \in Nat /\ Len(log) <= MaxRevision /\ MaxRevision \in Nat
      /\ next = handling + 1 /\ handling \in 1..Len(log) /\ next \in Nat
  BY <1>a, <1>b, BoundsAssumption DEF TypeController, ControllerOK
<1>d. /\ new.rev \in 0..MaxRevision /\ new.value \in Values /\ new.pendingInit = FALSE
      /\ new.rev = EventRevision(handling) /\ new.value = PathValue(log[handling], p)
  <2>1. log[handling] \in Configs \cup {Deleted} BY <1>a, <1>c DEF TypeController
  <2>2. QED BY <2>1, <1>c, PathValueType DEF EventRevision
<1>e. /\ channels \subseteq Watches /\ funcs \subseteq Index
      /\ \A i \in funcs : bind.paths[i] = p
      /\ \A w \in channels : watch[w].path = p /\ watch[w].state \in {"open", "done"}
  <2>1. bind.next \in 1..Len(bind.paths) + 1 /\ Len(bind.paths) \in Nat
    BY <1>a, InputsAssumption DEF TypeBind
  <2>2. QED BY <2>1 DEF WatchChannels, WatchFuncs, Index
<1> HIDE DEF new, channels, funcs
<1>f. rv'[p] = new /\ \A q \in Paths \ {p} : rv'[q] = rv[q] BY <1>a, <1>b DEF TypeController
<1>g. update'.path \in {None, p} /\ update'.send \subseteq channels /\ update'.call \subseteq funcs
      /\ (update'.path = None => update' = NoUpdate) /\ p # None
      /\ (update' # NoUpdate => update'.path = p)
  BY <1>b, TrieAssumption DEF NoUpdate
<1>1. TypeController'
  <2>1. new \in [rev : 0..MaxRevision, pendingInit : BOOLEAN, value : Values]
    BY <1>d DEF new
  <2>2. QED BY <2>1, <1>a, <1>b DEF TypeController
<1>2. TypeWatches'
  <2>1. update' \in [path : Paths \cup {None}, send : SUBSET Watches, call : SUBSET Index]
    BY <1>b, <1>e DEF NoUpdate
  <2>2. QED BY <2>1, <1>a, <1>b DEF TypeWatches, Index
<1>3. TypeBind' /\ TypeQueues' /\ QueuesOK' BY <1>a, <1>b, BinderFrame
<1>4. LogOK' BY <1>a, <1>b DEF LogOK
<1>5. ControllerOK'
  <2>1. \A q \in Paths \ todo' : ~rv'[q].pendingInit
    <3> SUFFICES ASSUME NEW q \in Paths, q \notin todo' PROVE ~rv'[q].pendingInit
      OBVIOUS
    <3>1. CASE q = p BY <3>1, <1>d, <1>f
    <3>2. CASE q # p BY <3>2, <1>a, <1>b, <1>f DEF ControllerOK
    <3>3. QED BY <3>1, <3>2
  <2>2. QED BY <2>1, <1>a, <1>b DEF ControllerOK
<1>6. ValuesOK'
  <2> SUFFICES ASSUME NEW q \in Paths PROVE ValueOK(q)'
    BY DEF ValuesOK
  <2>1. CASE q = p
    <3>1. LastEvent(q)' = handling BY <2>1, <1>b, <1>c DEF LastEvent
    <3>2. QED BY <2>1, <3>1, <1>b, <1>c, <1>d, <1>f DEF ValueOK, EventRevision
  <2>2. CASE q # p
    <3>1. LastEvent(q)' = LastEvent(q) BY <2>2, <1>b DEF LastEvent
    <3>2. ValueOK(q) BY <1>a DEF ValuesOK
    <3>3. QED BY <2>2, <3>1, <3>2, <1>b, <1>f DEF ValueOK, EventRevision
  <2>3. QED BY <2>1, <2>2
<1>7. UpdateOK'
  <2>1. onUpdate["controller"].at = "none" /\ onUpdate["controller"] = NoCall
    <3>1. onUpdate["controller"].at = "none" BY <1>a, <1>b DEF UpdateOK
    <3>2. QED BY <3>1, <1>a DEF UpdateOK
  <2>2. \A w \in update'.send : watch[w].path = update'.path /\ watch[w].state \in {"open", "done"}
    BY <1>b, <1>e, <1>g DEF NoUpdate
  <2>3. update' # NoUpdate => update'.path \in Paths \ todo' /\ \A i \in update'.call : bind.paths[i] = update'.path
    BY <1>b, <1>e, <1>g
  <2>4. \A w \in Watches : watch[w].state # "none" => watch[w].path \in Paths BY <1>a DEF UpdateOK
  <2>5. QED BY <2>1, <2>2, <2>3, <2>4, <1>b, <1>g DEF UpdateOK
<1>8. BindOK'
  <2>1. CASE bind.locked
    <3>1. NextBound \in Paths
      <4>1. ~BindDone /\ bind.next \in 1..Len(bind.paths) + 1 /\ bind.paths \in Seq(Paths)
        BY <2>1, <1>a, InputsAssumption DEF BindOK, TypeBind
      <4>2. bind.next \in 1..Len(bind.paths) BY <4>1 DEF BindDone
      <4>3. QED BY <4>1, <4>2 DEF NextBound
    <3>2. NextBound # p BY <2>1, <1>b DEF MuFree
    <3>3. rv'[NextBound] = rv[NextBound] /\ update'.path # NextBound
      BY <3>1, <3>2, <1>f, <1>g, TrieAssumption
    <3>4. QED BY <2>1, <3>3, <1>a, <1>b DEF BindOK, BindDone, NextBound
  <2>2. CASE ~bind.locked BY <2>2, <1>a, <1>b DEF BindOK, BindDone
  <2>3. QED BY <2>1, <2>2
<1>9. WatchesAreCurrent'
  <2> SUFFICES ASSUME NEW w \in Watches, watch[w].state \in {"open", "done"}, w \notin update'.send
               PROVE  SameValue(sent[w], rv'[watch[w].path].value, watch[w].path)
    BY <1>b DEF WatchesAreCurrent, SameValue, PathValue, Empty
  <2>1. SameValue(sent[w], rv[watch[w].path].value, watch[w].path)
    BY <1>a, <1>b DEF WatchesAreCurrent, NoUpdate
  <2>2. watch[w].path \in Paths BY <1>a DEF UpdateOK
  <2>3. CASE watch[w].path # p BY <2>1, <2>2, <2>3, <1>f
  <2>4. CASE watch[w].path = p
    <3>1. w \in WatchChannels(p) BY <2>4 DEF WatchChannels
    <3>2. ~Notifies(p)
      <4> SUFFICES ASSUME Notifies(p) PROVE FALSE
        OBVIOUS
      <4>1. w \in channels BY <3>1 DEF channels
      <4>2. update' = [path |-> p, send |-> channels, call |-> funcs] BY <4>1, <1>b
      <4>3. QED BY <4>1, <4>2
    <3>3. ~rv[p].pendingInit /\ ~ShouldNotify(handling, p) BY <3>2 DEF Notifies
    <3>4. LastEvent(p) = handling - 1 BY <1>b, <1>c DEF LastEvent
    <3>5. handling - 1 \in 1..Len(log) /\ rv[p].value = PathValue(log[handling - 1], p)
      BY <3>3, <3>4, <1>a DEF ValuesOK, ValueOK
    <3>6. SameValue(rv[p].value, new.value, p)
      BY <3>3, <3>5, <1>a, <1>c, <1>d, UnannouncedSame DEF TypeController
    <3>7. QED BY <2>1, <2>4, <3>6, <1>f, SameValueTransitive
  <2>5. QED BY <2>3, <2>4
<1>10. QED BY <1>1, <1>2, <1>3, <1>4, <1>5, <1>6, <1>7, <1>8, <1>9, InductiveParts, PTL

\* What an update becomes with one listener less.
LEMMA NotifiedFacts ==
  ASSUME TypeWatches, NEW S \in SUBSET update.send, NEW C \in SUBSET update.call, update # NoUpdate
  PROVE  /\ Notified(S, C) \in [path : Paths \cup {None}, send : SUBSET Watches, call : SUBSET Index]
         /\ Notified(S, C).send = S /\ Notified(S, C).call = C
         /\ Notified(S, C).path \in {None, update.path}
         /\ Notified(S, C).path = None => Notified(S, C) = NoUpdate \/ update.path = None
         /\ Notified(S, C) # NoUpdate => Notified(S, C).path = update.path
<1>1. update \in [path : Paths \cup {None}, send : SUBSET Watches, call : SUBSET Index]
  BY DEF TypeWatches
<1>2. CASE S \cup C = {} BY <1>1, <1>2 DEF Notified, NoUpdate
<1>3. CASE S \cup C # {} BY <1>1, <1>3 DEF Notified
<1>4. QED BY <1>2, <1>3

\* A watch is sent the value.
LEMMA SendStep ==
  ASSUME Inductive, NEW w \in Watches, SendChannel(w)
  PROVE  Inductive'
<1>a. /\ TypeController /\ TypeWatches /\ TypeBind /\ TypeQueues /\ LogOK /\ ControllerOK /\ ValuesOK
      /\ UpdateOK /\ BindOK /\ QueuesOK /\ WatchesAreCurrent
  BY InductiveParts
<1> DEFINE v == rv[update.path].value
<1>b. /\ w \in update.send /\ Len(watch[w].ch) < ChannelCap
      /\ watch' = [watch EXCEPT ![w].ch = Append(watch[w].ch, v)]
      /\ sent' = [sent EXCEPT ![w] = v]
      /\ update' = Notified(update.send \ {w}, update.call)
      /\ UNCHANGED <<log, pc, startRev, next, handling, todo, rv, seen, bind, queues,
                     goroutines, called, lastCall, crashed, onUpdate>>
  BY DEF SendChannel, HasRoom, controller, binder
<1>c. update # NoUpdate /\ update.path \in Paths /\ update.path # None
  <2>1. update # NoUpdate BY <1>b DEF NoUpdate
  <2>2. QED BY <2>1, <1>a, TrieAssumption DEF UpdateOK
<1>d. /\ update' \in [path : Paths \cup {None}, send : SUBSET Watches, call : SUBSET Index]
      /\ update'.send = update.send \ {w} /\ update'.call = update.call
      /\ update'.path \in {None, update.path}
      /\ update'.path = None => update' = NoUpdate
      /\ update' # NoUpdate => update'.path = update.path
  <2>1. update.send \ {w} \in SUBSET update.send /\ update.call \in SUBSET update.call OBVIOUS
  <2> DEFINE S == update.send \ {w}
             C == update.call
  <2>2. S \in SUBSET update.send /\ C \in SUBSET update.call /\ update' = Notified(S, C) BY <2>1, <1>b
  <2>3. S = update.send \ {w} /\ C = update.call OBVIOUS
  <2> HIDE DEF S, C
  <2>4. /\ Notified(S, C) \in [path : Paths \cup {None}, send : SUBSET Watches, call : SUBSET Index]
        /\ Notified(S, C).send = S /\ Notified(S, C).call = C
        /\ Notified(S, C).path \in {None, update.path}
        /\ Notified(S, C).path = None => Notified(S, C) = NoUpdate
        /\ Notified(S, C) # NoUpdate => Notified(S, C).path = update.path
    BY <2>2, <1>a, <1>c, NotifiedFacts
  <2>5. QED BY <2>2, <2>3, <2>4
<1>e. v \in Values BY <1>a, <1>c DEF TypeController
<1> HIDE DEF v
<1>f. /\ watch'[w].path = watch[w].path /\ watch'[w].state = watch[w].state
      /\ watch'[w].ch = Append(watch[w].ch, v) /\ sent'[w] = v
      /\ \A u \in Watches \ {w} : watch'[u] = watch[u] /\ sent'[u] = sent[u]
  BY <1>a, <1>b DEF TypeWatches
<1>1. TypeController' /\ LogOK' /\ ValuesOK' BY <1>a, <1>b, ControllerFrame
<1>2. TypeWatches'
  <2>1. watch[w].ch \in Seq(Values) BY <1>a DEF TypeWatches
  <2>2. Append(watch[w].ch, v) \in Seq(Values) /\ Len(Append(watch[w].ch, v)) = Len(watch[w].ch) + 1
        /\ Len(watch[w].ch) \in Nat
    BY <2>1, <1>e, AppendProperties
  <2>3. watch' \in [Watches -> [path : Paths \cup {None},
                                state : {"none", "open", "done", "closed"}, ch : Seq(Values)]]
    BY <2>2, <1>a, <1>b DEF TypeWatches
  <2>4. Len(watch'[w].ch) <= ChannelCap BY <2>2, <1>b, <1>f, BoundsAssumption
  <2>5. \A u \in Watches : Len(watch'[u].ch) <= ChannelCap BY <2>4, <1>a, <1>f DEF TypeWatches
  <2>6. sent' \in [Watches -> Values] BY <1>a, <1>b, <1>e DEF TypeWatches
  <2>7. QED BY <2>3, <2>5, <2>6, <1>a, <1>b, <1>d DEF TypeWatches, Index
<1>3. TypeBind' /\ TypeQueues' /\ QueuesOK' BY <1>a, <1>b, BinderFrame
<1>5. ControllerOK' BY <1>a, <1>b, <1>c DEF ControllerOK
<1>7. UpdateOK'
  <2>1. onUpdate["controller"].at = "none" /\ onUpdate["controller"] = NoCall
    <3>1. onUpdate["controller"].at = "none" BY <1>a, <1>b DEF UpdateOK
    <3>2. QED BY <3>1, <1>a DEF UpdateOK
  <2>2. \A u \in update'.send : watch'[u].path = update'.path /\ watch'[u].state \in {"open", "done"}
    <3> SUFFICES ASSUME NEW u \in update'.send
                 PROVE  watch'[u].path = update'.path /\ watch'[u].state \in {"open", "done"}
      OBVIOUS
    <3>1. u \in update.send /\ u # w /\ u \in Watches BY <1>d
    <3>2. update' # NoUpdate BY DEF NoUpdate
    <3>3. QED BY <3>1, <3>2, <1>a, <1>d, <1>f DEF UpdateOK
  <2>3. update' # NoUpdate => update'.path \in Paths \ todo' /\ \A i \in update'.call : bind.paths[i] = update'.path
    BY <1>a, <1>b, <1>c, <1>d DEF UpdateOK
  <2>4. \A u \in Watches : watch'[u].state # "none" => watch'[u].path \in Paths
    BY <1>a, <1>f DEF UpdateOK
  <2>5. QED BY <2>1, <2>2, <2>3, <2>4, <1>b, <1>d DEF UpdateOK
<1>8. BindOK'
  <2>1. CASE bind.locked
    <3>1. NextBound \in Paths
      <4>1. ~BindDone /\ bind.next \in 1..Len(bind.paths) + 1 /\ bind.paths \in Seq(Paths)
        BY <2>1, <1>a, InputsAssumption DEF BindOK, TypeBind
      <4>2. bind.next \in 1..Len(bind.paths) BY <4>1 DEF BindDone
      <4>3. QED BY <4>1, <4>2 DEF NextBound
    <3>2. update'.path # NextBound BY <2>1, <3>1, <1>a, <1>d, TrieAssumption DEF BindOK
    <3>4. QED BY <2>1, <3>2, <1>a, <1>b DEF BindOK, BindDone, NextBound
  <2>2. CASE ~bind.locked BY <2>2, <1>a, <1>b DEF BindOK, BindDone
  <2>3. QED BY <2>1, <2>2
<1>9. WatchesAreCurrent'
  <2> SUFFICES ASSUME NEW u \in Watches, watch'[u].state \in {"open", "done"}, u \notin update'.send
               PROVE  SameValue(sent'[u], rv[watch'[u].path].value, watch'[u].path)
    BY <1>b DEF WatchesAreCurrent, SameValue, PathValue, Empty
  <2>1. CASE u = w
    <3>1. watch'[u].path = update.path BY <2>1, <1>a, <1>b, <1>f DEF UpdateOK
    <3>2. sent'[u] = rv[watch'[u].path].value BY <2>1, <3>1, <1>f DEF v
    <3>3. QED BY <3>2 DEF SameValue
  <2>2. CASE u # w BY <2>2, <1>a, <1>d, <1>f DEF WatchesAreCurrent
  <2>3. QED BY <2>1, <2>2
<1>10. QED BY <1>1, <1>2, <1>3, <1>5, <1>7, <1>8, <1>9, InductiveParts, PTL

-----------------------------------------------------------------------------
(* The callers of Watch.                                                    *)

\* A step of one watch that keeps what it was sent, or begins it.
LEMMA CallerStep ==
  ASSUME Inductive, NEW w \in Watches,
         Receive(w) \/ Cancel(w) \/ Remove(w) \/ \E p \in Watched : Watch(w, p)
  PROVE  Inductive'
<1>a. /\ TypeController /\ TypeWatches /\ TypeBind /\ TypeQueues /\ LogOK /\ ControllerOK /\ ValuesOK
      /\ UpdateOK /\ BindOK /\ QueuesOK /\ WatchesAreCurrent
  BY InductiveParts
<1>b. UNCHANGED <<log, pc, startRev, next, handling, todo, update, rv, bind, queues,
                  goroutines, called, lastCall, crashed, onUpdate>>
  BY DEF Receive, Cancel, Remove, Watch, controller, binder
<1> DEFINE WatchType == [path : Paths \cup {None}, state : {"none", "open", "done", "closed"},
                         ch : Seq(Values)]
<1>c. watch[w] \in WatchType /\ Len(watch[w].ch) <= ChannelCap /\ sent[w] \in Values
      /\ watch \in [Watches -> WatchType] /\ sent \in [Watches -> Values] /\ seen \in [Watches -> Values]
  BY <1>a DEF TypeWatches
<1>d. /\ watch' = [watch EXCEPT ![w] = watch'[w]] /\ watch'[w] \in WatchType
      /\ Len(watch'[w].ch) <= ChannelCap
      /\ sent' = [sent EXCEPT ![w] = sent'[w]] /\ sent'[w] \in Values
      /\ seen' \in [Watches -> Values]
      /\ watch'[w].state # "none" => watch'[w].path \in Paths
      /\ w \in update.send =>
           watch'[w].path = watch[w].path /\ watch'[w].state \in {"open", "done"}
      /\ watch'[w].state \in {"open", "done"} =>
           \/ sent'[w] = rv[watch'[w].path].value
           \/ /\ sent'[w] = sent[w] /\ watch'[w].path = watch[w].path
              /\ watch[w].state \in {"open", "done"}
  <2>1. CASE Receive(w)
    <3>1. /\ watch[w].ch # <<>> /\ watch' = [watch EXCEPT ![w].ch = Tail(watch[w].ch)]
          /\ seen' = [seen EXCEPT ![w] = Head(watch[w].ch)] /\ sent' = sent
      BY <2>1 DEF Receive
    <3>2. /\ Head(watch[w].ch) \in Values /\ Tail(watch[w].ch) \in Seq(Values)
          /\ Len(Tail(watch[w].ch)) = Len(watch[w].ch) - 1 /\ Len(watch[w].ch) \in Nat
      BY <3>1, <1>c, HeadTailProperties
    <3>3. /\ watch'[w].ch = Tail(watch[w].ch) /\ watch'[w].path = watch[w].path
          /\ watch'[w].state = watch[w].state /\ watch'[w] \in WatchType
      BY <3>1, <3>2, <1>c
    <3>4. watch' = [watch EXCEPT ![w] = watch'[w]] BY <3>1, <1>c
    <3>5. Len(watch'[w].ch) <= ChannelCap BY <3>2, <3>3, <1>c, BoundsAssumption
    <3>6. seen' \in [Watches -> Values] BY <3>1, <3>2, <1>c
    <3>7. sent' = [sent EXCEPT ![w] = sent'[w]] /\ sent'[w] = sent[w] BY <3>1, <1>c
    <3> HIDE DEF WatchType
    <3>8. QED BY <3>3, <3>4, <3>5, <3>6, <3>7, <1>a, <1>c DEF UpdateOK
  <2>2. CASE Cancel(w)
    <3>1. /\ watch[w].state = "open" /\ watch' = [watch EXCEPT ![w].state = "done"]
          /\ seen' = seen /\ sent' = sent
      BY <2>2 DEF Cancel
    <3>3. /\ watch'[w].ch = watch[w].ch /\ watch'[w].path = watch[w].path
          /\ watch'[w].state = "done" /\ watch'[w] \in WatchType
      BY <3>1, <1>c
    <3>4. watch' = [watch EXCEPT ![w] = watch'[w]] BY <3>1, <1>c
    <3>7. sent' = [sent EXCEPT ![w] = sent'[w]] /\ sent'[w] = sent[w] BY <3>1, <1>c
    <3> HIDE DEF WatchType
    <3>8. QED BY <3>1, <3>3, <3>4, <3>7, <1>a, <1>c DEF UpdateOK
  <2>3. CASE Remove(w)
    <3>1. /\ watch[w].state = "done" /\ watch' = [watch EXCEPT ![w].state = "closed"]
          /\ seen' = seen /\ sent' = sent /\ MuFree(watch[w].path)
      BY <2>3 DEF Remove
    <3>2. w \notin update.send BY <3>1, <1>a DEF MuFree, UpdateOK
    <3>3. /\ watch'[w].ch = watch[w].ch /\ watch'[w].path = watch[w].path
          /\ watch'[w].state = "closed" /\ watch'[w] \in WatchType
      BY <3>1, <1>c
    <3>4. watch' = [watch EXCEPT ![w] = watch'[w]] BY <3>1, <1>c
    <3>7. sent' = [sent EXCEPT ![w] = sent'[w]] /\ sent'[w] = sent[w] BY <3>1, <1>c
    <3> HIDE DEF WatchType
    <3>8. QED BY <3>1, <3>2, <3>3, <3>4, <3>7, <1>a, <1>c DEF UpdateOK
  <2>4. ASSUME NEW p \in Watched, Watch(w, p)
        PROVE  /\ watch' = [watch EXCEPT ![w] = watch'[w]] /\ watch'[w] \in WatchType
               /\ Len(watch'[w].ch) <= ChannelCap
               /\ sent' = [sent EXCEPT ![w] = sent'[w]] /\ sent'[w] \in Values /\ seen' = seen
               /\ watch'[w].path \in Paths /\ w \notin update.send
               /\ sent'[w] = rv[watch'[w].path].value
    <3>1. /\ watch[w].state = "none" /\ seen' = seen /\ sent' = [sent EXCEPT ![w] = rv[p].value]
          /\ watch' = [watch EXCEPT ![w] =
               [path |-> p, state |-> "open",
                ch |-> IF rv[p].pendingInit THEN <<>> ELSE <<rv[p].value>>]]
      BY <2>4 DEF Watch
    <3>2. p \in Paths BY InputsAssumption
    <3>3. rv[p].value \in Values BY <3>2, <1>a DEF TypeController
    <3> DEFINE ch == IF rv[p].pendingInit THEN <<>> ELSE <<rv[p].value>>
    <3>4. ch \in Seq(Values) /\ Len(ch) <= 1 BY <3>3
    <3> HIDE DEF ch
    <3>5. watch'[w] = [path |-> p, state |-> "open", ch |-> ch] BY <3>1, <1>c DEF ch
    <3>6. watch'[w] \in WatchType /\ watch'[w].path = p /\ watch'[w].ch = ch BY <3>2, <3>4, <3>5
    <3>7. watch' = [watch EXCEPT ![w] = watch'[w]] BY <3>1, <1>c
    <3>8. Len(watch'[w].ch) <= ChannelCap BY <3>4, <3>6, BoundsAssumption
    <3>9. sent'[w] = rv[p].value /\ sent' = [sent EXCEPT ![w] = sent'[w]] BY <3>1, <1>c
    <3>10. w \notin update.send BY <3>1, <1>a DEF UpdateOK
    <3> HIDE DEF WatchType
    <3>11. QED BY <3>1, <3>2, <3>3, <3>6, <3>7, <3>8, <3>9, <3>10
  <2> HIDE DEF WatchType
  <2>5. QED BY <2>1, <2>2, <2>3, <2>4, <1>c
<1>e. \A u \in Watches \ {w} : watch'[u] = watch[u] /\ sent'[u] = sent[u]
  BY <1>c, <1>d
<1>1. TypeController' /\ LogOK' /\ ValuesOK' BY <1>a, <1>b, ControllerFrame
<1>2. TypeWatches'
  <2>1. watch' \in [Watches -> WatchType] /\ sent' \in [Watches -> Values]
    <3> HIDE DEF WatchType
    <3>1. QED BY <1>c, <1>d
  <2>2. \A u \in Watches : Len(watch'[u].ch) <= ChannelCap BY <1>a, <1>d, <1>e DEF TypeWatches
  <2>3. QED BY <2>1, <2>2, <1>a, <1>b, <1>d DEF TypeWatches, Index
<1>3. TypeBind' /\ TypeQueues' /\ QueuesOK' BY <1>a, <1>b, BinderFrame
<1>5. ControllerOK' BY <1>a, <1>b DEF ControllerOK
<1>7. UpdateOK'
  <2>1. \A u \in update.send : watch'[u].path = update.path /\ watch'[u].state \in {"open", "done"}
    <3> SUFFICES ASSUME NEW u \in update.send
                 PROVE  watch'[u].path = update.path /\ watch'[u].state \in {"open", "done"}
      OBVIOUS
    <3>1. u \in Watches BY <1>a DEF TypeWatches
    <3>2. QED BY <3>1, <1>a, <1>d, <1>e DEF UpdateOK
  <2>2. \A u \in Watches : watch'[u].state # "none" => watch'[u].path \in Paths
    BY <1>a, <1>d, <1>e DEF UpdateOK
  <2>3. QED BY <2>1, <2>2, <1>a, <1>b DEF UpdateOK
<1>8. BindOK' BY <1>a, <1>b DEF BindOK, BindDone, NextBound
<1>9. WatchesAreCurrent'
  <2> SUFFICES ASSUME NEW u \in Watches, watch'[u].state \in {"open", "done"}, u \notin update.send
               PROVE  SameValue(sent'[u], rv[watch'[u].path].value, watch'[u].path)
    BY <1>b DEF WatchesAreCurrent, SameValue, PathValue, Empty
  <2>1. CASE u = w
    <3>1. CASE sent'[u] = rv[watch'[u].path].value BY <3>1 DEF SameValue
    <3>2. CASE sent'[w] = sent[w] /\ watch'[w].path = watch[w].path /\ watch[w].state \in {"open", "done"}
      BY <2>1, <3>2, <1>a DEF WatchesAreCurrent
    <3>3. QED BY <2>1, <3>1, <3>2, <1>d
  <2>2. CASE u # w BY <2>2, <1>a, <1>e DEF WatchesAreCurrent
  <2>3. QED BY <2>1, <2>2
<1>10. QED BY <1>1, <1>2, <1>3, <1>5, <1>7, <1>8, <1>9, InductiveParts, PTL

-----------------------------------------------------------------------------
(* The binder.                                                              *)

\* A queue with another state, with other values.
LEMMA QueueState ==
  ASSUME NEW R, NEW S, NEW V, NEW P, NEW f \in [R -> [state : S, values : V, position : P]],
         NEW r \in R, NEW s \in S
  PROVE  [f EXCEPT ![r].state = s] \in [R -> [state : S, values : V, position : P]]
OBVIOUS

LEMMA QueueValues ==
  ASSUME NEW R, NEW S, NEW V, NEW P, NEW f \in [R -> [state : S, values : V, position : P]],
         NEW r \in R, NEW v \in V
  PROVE  [f EXCEPT ![r].values = v] \in [R -> [state : S, values : V, position : P]]
OBVIOUS

LEMMA QueuePosition ==
  ASSUME NEW R, NEW S, NEW V, NEW P, NEW f \in [R -> [state : S, values : V, position : P]],
         NEW r \in R, NEW p \in P
  PROVE  [f EXCEPT ![r].position = p] \in [R -> [state : S, values : V, position : P]]
OBVIOUS

LEMMA BoundIndex ==
  ASSUME TypeBind
  PROVE  /\ Len(bind.paths) \in Nat /\ bind.paths \in Seq(Paths) /\ bind.paths \in Bindings
         /\ bind.next \in Nat /\ bind.next >= 1 /\ bind.next <= Len(bind.paths) + 1
         /\ Index \subseteq Nat \ {0} /\ \A i \in Index : bind.paths[i] \in Paths
         /\ ~BindDone => bind.next \in Index /\ NextBound \in Paths
<1>1. bind.paths \in Bindings /\ bind.next \in 1..Len(bind.paths) + 1 BY DEF TypeBind
<1>2. bind.paths \in Seq(Paths) BY <1>1, InputsAssumption
<1>3. Len(bind.paths) \in Nat BY <1>2
<1>4. \A i \in Index : bind.paths[i] \in Paths BY <1>2 DEF Index
<1>5. ~BindDone => bind.next \in Index BY <1>1, <1>3 DEF BindDone, Index
<1>6. QED BY <1>1, <1>2, <1>3, <1>4, <1>5 DEF NextBound, Index

\* The type of the queues depends on the paths of the binding only.
LEMMA SamePaths ==
  ASSUME bind'.paths = bind.paths
  PROVE  Calls' = Calls /\ Queues' = Queues /\ Index' = Index
BY DEF Calls, Queues, Index

LEMMA PeekOrAddFacts ==
  ASSUME TypeBind, TypeQueues, QueuesOK, NEW t \in Threads, NEW i \in Index, NEW rev \in Revisions,
         NEW group \in 0..MaxRevision, PeekOrAdd(t, i, rev, group), bind'.paths = bind.paths
  PROVE  /\ TypeQueues' /\ QueuesOK'
         /\ onUpdate'[t].at = "lock" /\ onUpdate'[t].i = i /\ onUpdate'[t].rev = rev
         /\ onUpdate'[t].group = group /\ \A u \in Threads \ {t} : onUpdate'[u] = onUpdate[u]
         /\ \A r \in Revisions :
              /\ queues'[r].values = queues[r].values /\ queues'[r].position = queues[r].position
              /\ queues'[r].state = "resolving" <=> queues[r].state = "resolving"
<1>a. /\ onUpdate \in [Threads -> Calls] /\ queues \in [Revisions -> Queues] /\ MaxRevision \in Nat
      /\ \A r \in Revisions : queues[r] \in Queues
  BY BoundsAssumption DEF TypeQueues
<1> DEFINE c == [at |-> "lock", i |-> i, rev |-> rev, group |-> group,
                 fresh |-> queues[rev].state = "none"]
           s == IF queues[rev].state = "none" THEN "open" ELSE queues[rev].state
<1>b. /\ onUpdate' = [onUpdate EXCEPT ![t] = c] /\ queues' = [queues EXCEPT ![rev].state = s]
      /\ UNCHANGED <<goroutines, called, lastCall, crashed>>
  BY DEF PeekOrAdd
<1>c. c \in Calls /\ c.at = "lock" /\ c.i = i /\ c.rev = rev /\ c.group = group
  BY <1>a DEF Calls, Revisions
<1>d. s \in {"none", "open", "resolving", "done"} /\ (s = "resolving" <=> queues[rev].state = "resolving")
  BY <1>a DEF Queues
<1> HIDE DEF c, s
<1>1. onUpdate' \in [Threads -> Calls] /\ onUpdate'[t] = c
      /\ \A u \in Threads \ {t} : onUpdate'[u] = onUpdate[u]
  BY <1>a, <1>b, <1>c
<1>2. queues' \in [Revisions -> Queues]
  <2> DEFINE S == {"none", "open", "resolving", "done"}
             P == 0..Len(bind.paths) + 1
  <2>1. Queues = [state : S, values : Seq(Values), position : P] BY DEF Queues
  <2>2. s \in S BY <1>d
  <2> HIDE DEF S, P
  <2>3. QED BY <2>1, <2>2, <1>a, <1>b, QueueState
<1>3. \A r \in Revisions :
        /\ queues'[r].values = queues[r].values /\ queues'[r].position = queues[r].position
        /\ queues'[r].state = IF r = rev THEN s ELSE queues[r].state
  BY <1>a, <1>b DEF Queues
<1>4. TypeQueues' BY <1>1, <1>2, <1>b, SamePaths DEF TypeQueues
<1>5. QueuesOK'
  <2>1. \A g \in goroutines : g.rev \in Revisions BY DEF TypeQueues
  <2>2. QED BY <2>1, <1>3, <1>b, <1>d DEF QueuesOK
<1>6. QED BY <1>1, <1>3, <1>4, <1>5, <1>c, <1>d

LEMMA StoreValueFacts ==
  ASSUME TypeBind, TypeQueues, QueuesOK, NEW t \in Threads, NEW v \in Values,
         StoreValue(t, v), bind'.paths = bind.paths,
         onUpdate[t].i \in Index, onUpdate[t].rev \in Revisions
  PROVE  /\ TypeQueues' /\ QueuesOK'
         /\ onUpdate'[t] = NoCall /\ \A u \in Threads \ {t} : onUpdate'[u] = onUpdate[u]
<1> DEFINE c == onUpdate[t]
           old == IF c.fresh THEN [i \in Index |-> Invalid] ELSE queues[c.rev].values
           values == [old EXCEPT ![c.i] = v]
<1>a. /\ onUpdate \in [Threads -> Calls] /\ queues \in [Revisions -> Queues] /\ MaxRevision \in Nat
      /\ c \in Calls /\ queues[c.rev] \in Queues
      /\ goroutines \subseteq [rev : Revisions, group : 0..MaxRevision]
  BY BoundsAssumption DEF TypeQueues
<1>b. /\ onUpdate' = [onUpdate EXCEPT ![t] = NoCall] /\ UNCHANGED <<called, lastCall>>
      /\ \/ crashed' = TRUE /\ UNCHANGED <<queues, goroutines>>
         \/ /\ old # <<>> /\ crashed' = crashed
            /\ queues' = [queues EXCEPT ![c.rev].values = values]
            /\ goroutines' = goroutines \cup {[rev |-> c.rev, group |-> c.group]}
  BY DEF StoreValue
<1>c. NoCall \in Calls BY <1>a DEF NoCall, Calls
<1>1. onUpdate' \in [Threads -> Calls] /\ onUpdate'[t] = NoCall
      /\ \A u \in Threads \ {t} : onUpdate'[u] = onUpdate[u]
  BY <1>a, <1>b, <1>c
<1>2. CASE crashed' = TRUE /\ UNCHANGED <<queues, goroutines>>
  <2>1. TypeQueues' BY <1>1, <1>2, <1>b, SamePaths DEF TypeQueues
  <2>2. QueuesOK' BY <1>2 DEF QueuesOK
  <2>3. QED BY <2>1, <2>2, <1>1
<1>3. CASE /\ old # <<>> /\ crashed' = crashed
           /\ queues' = [queues EXCEPT ![c.rev].values = values]
           /\ goroutines' = goroutines \cup {[rev |-> c.rev, group |-> c.group]}
  <2>1. old \in Seq(Values) /\ Len(old) = Len(bind.paths)
    <3>0. Len(bind.paths) \in Nat BY BoundIndex
    <3>1. CASE c.fresh
      <4>1. Invalid \in Values BY DEF Values
      <4>2. QED BY <3>0, <3>1, <4>1 DEF Index
    <3>2. CASE ~c.fresh
      <4>1. old = queues[c.rev].values BY <3>2
      <4>2. old \in Seq(Values) BY <4>1, <1>a DEF Queues
      <4>3. Len(old) \in {0, Len(bind.paths)} BY <4>1 DEF QueuesOK
      <4>4. Len(old) # 0 BY <1>3, <4>2, EmptySeq
      <4>5. QED BY <4>2, <4>3, <4>4
    <3>3. QED BY <3>1, <3>2
  <2>2. c.i \in 1..Len(old) BY <2>1 DEF Index
  <2> HIDE DEF old
  <2>3. values \in Seq(Values) /\ Len(values) = Len(bind.paths) BY <2>1, <2>2, ExceptSeq
  <2> HIDE DEF values
  <2>4. queues' \in [Revisions -> Queues] BY <1>3, <1>a, <2>3, QueueValues DEF Queues
  <2>5. \A r \in Revisions :
          /\ queues'[r].values = IF r = c.rev THEN values ELSE queues[r].values
          /\ queues'[r].state = queues[r].state /\ queues'[r].position = queues[r].position
    BY <1>3, <1>a DEF Queues
  <2>6. c.group \in 0..MaxRevision BY <1>a DEF Calls
  <2>7. goroutines' \subseteq [rev : Revisions, group : 0..MaxRevision] BY <1>3, <1>a, <2>6
  <2>8. TypeQueues' BY <1>1, <1>3, <1>b, <2>4, <2>7, SamePaths DEF TypeQueues
  <2>9. QueuesOK'
    <3>1. \A r \in Revisions : Len(queues'[r].values) \in {0, Len(bind.paths)} BY <2>3, <2>5 DEF QueuesOK
    <3>2. \A r \in Revisions : queues'[r].state = "resolving" =>
            Len(queues'[r].values) = Len(bind.paths) /\ queues'[r].position # 0
      BY <2>3, <2>5 DEF QueuesOK
    <3>3. \A g \in goroutines' : Len(queues'[g.rev].values) = Len(bind.paths)
      <4> SUFFICES ASSUME NEW g \in goroutines' PROVE Len(queues'[g.rev].values) = Len(bind.paths)
        OBVIOUS
      <4>1. g.rev \in Revisions BY <2>7
      <4>2. CASE g.rev = c.rev BY <4>1, <4>2, <2>3, <2>5
      <4>3. CASE g.rev # c.rev BY <1>3, <4>1, <4>3, <2>5 DEF QueuesOK
      <4>4. QED BY <4>2, <4>3
    <3>4. QED BY <3>1, <3>2, <3>3 DEF QueuesOK
  <2>10. QED BY <2>8, <2>9, <1>1
<1>4. QED BY <1>2, <1>3, <1>b

\* The controller's Update calls a function of the binding.
LEMMA CallFuncStep ==
  ASSUME Inductive, NEW i \in Index, CallFunc(i)
  PROVE  Inductive'
<1>a. /\ TypeController /\ TypeWatches /\ TypeBind /\ TypeQueues /\ LogOK /\ ControllerOK /\ ValuesOK
      /\ UpdateOK /\ BindOK /\ QueuesOK /\ WatchesAreCurrent
  BY InductiveParts
<1>b. /\ UNCHANGED <<log, pc, startRev, next, handling, todo, update, rv, watch, sent, seen, bind>>
      /\ update.send = {} /\ i \in update.call
      /\ PeekOrAdd("controller", i, rv[update.path].rev, handling)
  BY DEF CallFunc, controller, watchers
<1>c. update # NoUpdate /\ update.path \in Paths /\ update.path \notin todo /\ handling # 0
  <2>1. update # NoUpdate BY <1>b DEF NoUpdate
  <2>2. QED BY <2>1, <1>a DEF UpdateOK, ControllerOK
<1>d. rv[update.path].rev \in Revisions
  <2>1. ~rv[update.path].pendingInit BY <1>a, <1>c DEF ControllerOK
  <2>2. QED BY <2>1, <1>a, <1>c, ValueRevision DEF ValuesOK
<1>e. handling \in 0..MaxRevision BY <1>a DEF TypeController
<1>f. /\ TypeQueues' /\ QueuesOK'
      /\ onUpdate'["controller"].at = "lock" /\ onUpdate'["controller"].i = i
      /\ onUpdate'["controller"].rev = rv[update.path].rev /\ onUpdate'["controller"].group = handling
      /\ onUpdate'["bind"] = onUpdate["bind"]
  BY <1>a, <1>b, <1>d, <1>e, PeekOrAddFacts DEF Threads
<1>1. TypeController' /\ LogOK' /\ ValuesOK' BY <1>a, <1>b, ControllerFrame
<1>2. TypeWatches' BY <1>a, <1>b, WatchesFrame
<1>3. TypeBind' BY <1>a, <1>b DEF TypeBind
<1>5. ControllerOK' BY <1>a, <1>b DEF ControllerOK
<1>7. UpdateOK' BY <1>a, <1>b, <1>c, <1>f DEF UpdateOK
<1>8. BindOK' BY <1>a, <1>b, <1>f DEF BindOK, BindDone, NextBound
<1>9. WatchesAreCurrent' BY <1>a, <1>b DEF WatchesAreCurrent
<1>10. QED BY <1>1, <1>2, <1>3, <1>5, <1>f, <1>7, <1>8, <1>9, InductiveParts, PTL

\* The function has stored the value.
LEMMA FuncReturnsStep ==
  ASSUME Inductive, FuncReturns
  PROVE  Inductive'
<1>a. /\ TypeController /\ TypeWatches /\ TypeBind /\ TypeQueues /\ LogOK /\ ControllerOK /\ ValuesOK
      /\ UpdateOK /\ BindOK /\ QueuesOK /\ WatchesAreCurrent
  BY InductiveParts
<1> DEFINE c == onUpdate["controller"]
           S == {}
           C == update.call \ {c.i}
<1>b. /\ UNCHANGED <<log, pc, startRev, next, handling, todo, rv, watch, sent, seen, bind>>
      /\ c.at = "lock" /\ StoreValue("controller", rv[update.path].value)
      /\ update' = Notified(S, C)
  BY DEF FuncReturns, StoreValue, controller, watchers
<1>c. /\ update # NoUpdate /\ update.path \in Paths /\ update.path \notin todo /\ handling # 0
      /\ update.send = {} /\ c.i \in update.call /\ c.rev = rv[update.path].rev
  BY <1>a, <1>b DEF UpdateOK, ControllerOK
<1>d. c.rev \in Revisions
  <2>1. ~rv[update.path].pendingInit BY <1>a, <1>c DEF ControllerOK
  <2>2. QED BY <2>1, <1>a, <1>c, ValueRevision DEF ValuesOK
<1>e. rv[update.path].value \in Values /\ c.i \in Index
  BY <1>a, <1>c DEF TypeController, TypeWatches
<1>f. TypeQueues' /\ QueuesOK' /\ onUpdate'["controller"] = NoCall /\ onUpdate'["bind"] = onUpdate["bind"]
  BY <1>a, <1>b, <1>d, <1>e, StoreValueFacts DEF Threads
<1>g. /\ update' \in [path : Paths \cup {None}, send : SUBSET Watches, call : SUBSET Index]
      /\ update'.send = {} /\ update'.call \subseteq update.call
      /\ update'.path \in {None, update.path}
      /\ update'.path = None => update' = NoUpdate
      /\ update' # NoUpdate => update'.path = update.path
  <2>1. S \in SUBSET update.send /\ C \in SUBSET update.call /\ S = {} OBVIOUS
  <2>2. update.path # None BY <1>c, TrieAssumption
  <2> HIDE DEF S, C
  <2>3. /\ Notified(S, C) \in [path : Paths \cup {None}, send : SUBSET Watches, call : SUBSET Index]
        /\ Notified(S, C).send = S /\ Notified(S, C).call = C
        /\ Notified(S, C).path \in {None, update.path}
        /\ Notified(S, C).path = None => Notified(S, C) = NoUpdate
        /\ Notified(S, C) # NoUpdate => Notified(S, C).path = update.path
    <3>1. TypeWatches /\ update # NoUpdate BY <1>a, <1>c
    <3>2. QED BY <3>1, <2>1, <2>2, NotifiedFacts
  <2>4. QED BY <2>1, <2>3, <1>b
<1> HIDE DEF c, S, C
<1>1. TypeController' /\ LogOK' /\ ValuesOK' BY <1>a, <1>b, ControllerFrame
<1>2. TypeWatches' BY <1>a, <1>b, <1>g DEF TypeWatches, Index
<1>3. TypeBind' BY <1>a, <1>b DEF TypeBind
<1>5. ControllerOK' BY <1>a, <1>b, <1>c DEF ControllerOK
<1>7. UpdateOK'
  <2>1. update' # NoUpdate => update'.path \in Paths \ todo' /\ \A i \in update'.call : bind.paths[i] = update'.path
    BY <1>a, <1>b, <1>c, <1>g DEF UpdateOK
  <2>2. NoCall.at = "none" BY DEF NoCall
  <2>3. QED BY <2>1, <2>2, <1>a, <1>b, <1>f, <1>g DEF UpdateOK
<1>8. BindOK'
  <2>1. CASE bind.locked
    <3>1. update'.path # NextBound
      <4>1. ~BindDone /\ update.path # NextBound BY <2>1, <1>a DEF BindOK
      <4>2. NextBound \in Paths BY <4>1, <1>a, BoundIndex
      <4>3. QED BY <4>1, <4>2, <1>g, TrieAssumption
    <3>2. QED BY <2>1, <3>1, <1>a, <1>b, <1>f DEF BindOK, BindDone, NextBound
  <2>2. CASE ~bind.locked BY <2>2, <1>a, <1>b, <1>f DEF BindOK, BindDone
  <2>3. QED BY <2>1, <2>2
<1>9. WatchesAreCurrent'
  <2> SUFFICES ASSUME NEW w \in Watches, watch[w].state \in {"open", "done"}
               PROVE  SameValue(sent[w], rv[watch[w].path].value, watch[w].path)
    BY <1>b DEF WatchesAreCurrent, SameValue, PathValue, Empty
  <2>1. w \notin update.send BY <1>c
  <2>2. QED BY <2>1, <1>a DEF WatchesAreCurrent
<1>10. QED BY <1>1, <1>2, <1>3, <1>5, <1>f, <1>7, <1>8, <1>9, InductiveParts, PTL

\* Bind registers its function, calling it first if the value has been set.
LEMMA BindSteps ==
  ASSUME Inductive, BindStep
  PROVE  Inductive'
<1>a. /\ TypeController /\ TypeWatches /\ TypeBind /\ TypeQueues /\ LogOK /\ ControllerOK /\ ValuesOK
      /\ UpdateOK /\ BindOK /\ QueuesOK /\ WatchesAreCurrent
  BY InductiveParts
<1>b. UNCHANGED <<log, pc, startRev, next, handling, todo, update, rv, watch, sent, seen>>
  BY DEF BindStep, BindPending, BindCalls, BindRegisters, controller, watchers
<1>c. /\ bind \in [paths : Bindings, next : 1..Len(bind.paths) + 1, locked : BOOLEAN]
      /\ ~BindDone
  BY <1>a DEF TypeBind, BindStep, BindPending, BindCalls, BindRegisters, BindOK
<1>d. /\ bind.next \in Index /\ NextBound \in Paths /\ Len(bind.paths) \in Nat
      /\ bind.next \in Nat /\ bind.next <= Len(bind.paths)
  BY <1>a, <1>c, BoundIndex DEF BindDone
<1>1. /\ bind'.paths = bind.paths /\ TypeBind' /\ BindOK' /\ TypeQueues' /\ QueuesOK'
      /\ onUpdate'["controller"] = onUpdate["controller"]
  <2>1. CASE BindPending
    <3>1. /\ ~bind.locked /\ bind' = [bind EXCEPT !.next = bind.next + 1]
          /\ UNCHANGED <<onUpdate, queues, goroutines, called, lastCall, crashed>>
      BY <2>1 DEF BindPending
    <3>2. bind'.paths = bind.paths /\ bind'.next = bind.next + 1 /\ bind'.locked = bind.locked BY <3>1, <1>c
    <3>3. TypeBind' BY <3>1, <3>2, <1>c, <1>d DEF TypeBind
    <3>4. BindOK'
      <4>1. bind.paths \in Late \/ log = <<>> BY <1>a, <1>c DEF BindOK
      <4>2. onUpdate["bind"] = NoCall BY <3>1, <1>a DEF BindOK
      <4>3. QED BY <3>1, <3>2, <4>1, <4>2, <1>b DEF BindOK
    <3>5. TypeQueues' BY <3>1, <3>2, <1>a, SamePaths DEF TypeQueues
    <3>6. QueuesOK' BY <3>1, <3>2, <1>a DEF QueuesOK
    <3>7. QED BY <3>1, <3>2, <3>3, <3>4, <3>5, <3>6
  <2>2. CASE BindCalls
    <3>1. /\ ~bind.locked /\ bind' = [bind EXCEPT !.locked = TRUE] /\ MuFree(NextBound)
          /\ ~rv[NextBound].pendingInit /\ PeekOrAdd("bind", bind.next, rv[NextBound].rev, 0)
      BY <2>2 DEF BindCalls
    <3>2. bind'.paths = bind.paths /\ bind'.next = bind.next /\ bind'.locked = TRUE BY <3>1, <1>c
    <3>3. TypeBind' BY <3>1, <3>2, <1>c DEF TypeBind
    <3>4. rv[NextBound].rev \in Revisions BY <3>1, <1>a, <1>d, ValueRevision DEF ValuesOK
    <3>5. 0 \in 0..MaxRevision BY BoundsAssumption
    <3>6. /\ TypeQueues' /\ QueuesOK' /\ onUpdate'["controller"] = onUpdate["controller"]
          /\ onUpdate'["bind"].at = "lock" /\ onUpdate'["bind"].i = bind.next
          /\ onUpdate'["bind"].rev = rv[NextBound].rev /\ onUpdate'["bind"].group = 0
      BY <3>1, <3>2, <3>4, <3>5, <1>a, <1>d, PeekOrAddFacts DEF Threads
    <3>7. BindOK'
      <4>1. NextBound' = NextBound /\ ~BindDone' BY <3>2, <1>c DEF NextBound, BindDone
      <4>2. update.path # NextBound BY <3>1 DEF MuFree
      <4>3. bind.paths \in Late \/ log = <<>> BY <1>a, <1>c DEF BindOK
      <4>4. QED BY <3>1, <3>2, <3>6, <4>1, <4>2, <4>3, <1>b DEF BindOK
    <3>8. QED BY <3>2, <3>3, <3>6, <3>7
  <2>3. CASE BindRegisters
    <3>1. /\ bind.locked /\ bind' = [bind EXCEPT !.locked = FALSE, !.next = bind.next + 1]
          /\ StoreValue("bind", rv[NextBound].value)
      BY <2>3 DEF BindRegisters
    <3>2. bind'.paths = bind.paths /\ bind'.next = bind.next + 1 /\ bind'.locked = FALSE BY <3>1, <1>c
    <3>3. TypeBind'
      <4>1. bind.paths \in Bindings /\ bind.next + 1 \in 1..Len(bind.paths) + 1 BY <1>c, <1>d
      <4>2. bind' = [paths |-> bind.paths, next |-> bind.next + 1, locked |-> FALSE] BY <3>1, <1>c
      <4>3. QED BY <3>2, <4>1, <4>2 DEF TypeBind
    <3>4. /\ onUpdate["bind"].i \in Index /\ onUpdate["bind"].rev \in Revisions
          /\ rv[NextBound].value \in Values
      <4>1. ~rv[NextBound].pendingInit /\ onUpdate["bind"].i = bind.next
            /\ onUpdate["bind"].rev = rv[NextBound].rev
        BY <3>1, <1>a DEF BindOK
      <4>2. rv[NextBound].rev \in Revisions BY <4>1, <1>a, <1>d, ValueRevision DEF ValuesOK
      <4>3. rv[NextBound].value \in Values BY <1>a, <1>d DEF TypeController
      <4>4. QED BY <4>1, <4>2, <4>3, <1>d
    <3>5. /\ TypeQueues' /\ QueuesOK' /\ onUpdate'["controller"] = onUpdate["controller"]
          /\ onUpdate'["bind"] = NoCall
      BY <3>1, <3>2, <3>4, <1>a, StoreValueFacts DEF Threads
    <3>6. BindOK'
      <4>1. bind.paths \in Late \/ log = <<>> BY <1>a, <1>c DEF BindOK
      <4>2. QED BY <3>2, <3>5, <4>1, <1>b DEF BindOK
    <3>7. QED BY <3>2, <3>3, <3>5, <3>6
  <2>4. QED BY <2>1, <2>2, <2>3 DEF BindStep
<1>2. TypeController' /\ LogOK' /\ ValuesOK' BY <1>a, <1>b, ControllerFrame
<1>3. TypeWatches' BY <1>a, <1>b, <1>1 DEF TypeWatches, Index
<1>5. ControllerOK' BY <1>a, <1>b DEF ControllerOK
<1>7. UpdateOK' BY <1>a, <1>b, <1>1 DEF UpdateOK
<1>9. WatchesAreCurrent' BY <1>a, <1>b DEF WatchesAreCurrent
<1>10. QED BY <1>1, <1>2, <1>3, <1>5, <1>7, <1>9, InductiveParts, PTL

\* A goroutine of the binder resolves its queue: the steps of one queue.
LEMMA ResolveSteps ==
  ASSUME Inductive, NEW r \in Revisions, ResolveStep(r)
  PROVE  Inductive'
<1>a. /\ TypeController /\ TypeWatches /\ TypeBind /\ TypeQueues /\ LogOK /\ ControllerOK /\ ValuesOK
      /\ UpdateOK /\ BindOK /\ QueuesOK /\ WatchesAreCurrent
  BY InductiveParts
<1>b. UNCHANGED <<log, pc, startRev, next, handling, todo, update, rv, watch, sent, seen, bind,
                  onUpdate, crashed>>
  BY DEF ResolveStep, Resolve, FillValue, Callback, controller, watchers
<1> DEFINE q == queues[r]
           S == {"none", "open", "resolving", "done"}
           P == 0..Len(bind.paths) + 1
<1>c. /\ queues \in [Revisions -> Queues] /\ q \in Queues /\ Len(bind.paths) \in Nat
      /\ goroutines \subseteq [rev : Revisions, group : 0..MaxRevision]
      /\ Queues = [state : S, values : Seq(Values), position : P]
      /\ called \in [Revisions -> Nat] /\ lastCall \in [rev : 0..MaxRevision, values : Seq(Values)]
  BY <1>a, BoundIndex DEF TypeQueues, Queues
<1>d. q.state \in S /\ q.values \in Seq(Values) /\ q.position \in P BY <1>c
<1>1. TypeQueues' /\ QueuesOK'
  <2>1. ASSUME NEW g \in goroutines, g.rev = r, Resolve(g) PROVE TypeQueues' /\ QueuesOK'
    <3>1. goroutines' = goroutines \ {g} /\ UNCHANGED <<called, lastCall>> BY <2>1 DEF Resolve
    <3>2. Len(q.values) = Len(bind.paths) BY <2>1, <1>a DEF QueuesOK
    <3>3. CASE queues' = queues
      <4>1. TypeQueues' BY <3>1, <3>3, <1>a, <1>b, <1>c, SamePaths DEF TypeQueues
      <4>2. QueuesOK' BY <3>1, <3>3, <1>a, <1>b DEF QueuesOK
      <4>3. QED BY <4>1, <4>2
    <3>4. CASE queues' = [queues EXCEPT ![r].state = "resolving", ![r].position = 1]
      <4>1. "resolving" \in S /\ 1 \in P BY <1>c
      <4>2. queues' \in [Revisions -> Queues]
        <5> DEFINE f == [queues EXCEPT ![r].state = "resolving"]
        <5>1. f \in [Revisions -> [state : S, values : Seq(Values), position : P]]
          <6> HIDE DEF S, P
          <6>1. QED BY <4>1, <1>c, QueueState
        <5>2. queues' = [f EXCEPT ![r].position = 1] BY <3>4, <1>c, SMTT(30)
        <5> HIDE DEF f, S, P
        <5>3. [f EXCEPT ![r].position = 1] \in [Revisions -> [state : S, values : Seq(Values), position : P]]
          BY <4>1, <5>1, QueuePosition, SMTT(30)
        <5>4. QED BY <5>2, <5>3, <1>c
      <4>3. \A s \in Revisions : /\ queues'[s].values = queues[s].values
                                 /\ s # r => queues'[s] = queues[s]
                                 /\ queues'[r].position = 1
        BY <3>4, <1>c
      <4>4. TypeQueues' BY <3>1, <4>2, <1>a, <1>b, <1>c, SamePaths DEF TypeQueues
      <4>5. QueuesOK'
        <5>1. \A h \in goroutines' : Len(queues'[h.rev].values) = Len(bind.paths)
          BY <3>1, <4>3, <1>a, <1>c DEF QueuesOK
        <5>2. \A s \in Revisions : Len(queues'[s].values) \in {0, Len(bind.paths)}
          BY <4>3, <1>a DEF QueuesOK
        <5>3. \A s \in Revisions : queues'[s].state = "resolving" =>
                Len(queues'[s].values) = Len(bind.paths) /\ queues'[s].position # 0
          BY <3>2, <4>3, <1>a DEF QueuesOK
        <5>4. QED BY <5>1, <5>2, <5>3, <1>b DEF QueuesOK
      <4>6. QED BY <4>4, <4>5
    <3>5. QED BY <2>1, <3>3, <3>4 DEF Resolve
  <2>2. CASE FillValue(r)
    <3>1. /\ q.state = "resolving" /\ q.position \in Index /\ UNCHANGED <<goroutines, called, lastCall>>
      BY <2>2 DEF FillValue
    <3>2. Len(q.values) = Len(bind.paths) BY <3>1, <1>a DEF QueuesOK
    <3> DEFINE v == rv[bind.paths[q.position]].value
    <3>3. v \in Values /\ q.position + 1 \in P /\ q.position + 1 # 0 /\ q.position \in 1..Len(q.values)
      <4>1. bind.paths[q.position] \in Paths BY <3>1, <1>a, BoundIndex
      <4>2. v \in Values BY <4>1, <1>a DEF TypeController
      <4>3. QED BY <3>1, <3>2, <4>2, <1>c DEF Index
    <3> HIDE DEF v
    <3> DEFINE values == [q.values EXCEPT ![q.position] = v]
    <3>4. values \in Seq(Values) /\ Len(values) = Len(bind.paths) BY <3>2, <3>3, <1>d, ExceptSeq
    <3>5. PICK x \in {q.values, values} :
            queues' = [queues EXCEPT ![r].values = x, ![r].position = q.position + 1]
      <4>1. CASE queues' = [queues EXCEPT ![r].position = q.position + 1]
        <5>1. queues' = [queues EXCEPT ![r].values = q.values, ![r].position = q.position + 1]
          BY <4>1, <1>c
        <5>2. QED BY <5>1
      <4>2. CASE queues' = [queues EXCEPT ![r].values[q.position] = v, ![r].position = q.position + 1]
        <5>1. queues' = [queues EXCEPT ![r].values = values, ![r].position = q.position + 1]
          BY <4>2, <1>c
        <5>2. QED BY <5>1
      <4>3. QED BY <2>2, <4>1, <4>2 DEF FillValue, v
    <3> HIDE DEF values
    <3>6. x \in Seq(Values) /\ Len(x) = Len(bind.paths) BY <3>2, <3>4, <3>5, <1>d
    <3>7. queues' \in [Revisions -> Queues]
      <4> DEFINE f == [queues EXCEPT ![r].values = x]
      <4>1. f \in [Revisions -> [state : S, values : Seq(Values), position : P]]
        <5> HIDE DEF S, P
        <5>1. QED BY <3>6, <1>c, QueueValues
      <4>2. queues' = [f EXCEPT ![r].position = q.position + 1] BY <3>5, <1>c
      <4> HIDE DEF f, S, P
      <4> DEFINE n == q.position + 1
      <4>3. n \in P BY <3>3
      <4> HIDE DEF n
      <4>4. [f EXCEPT ![r].position = n] \in [Revisions -> [state : S, values : Seq(Values), position : P]]
        BY <4>1, <4>3, QueuePosition
      <4>5. QED BY <4>2, <4>4, <1>c DEF n
    <3>8. /\ queues'[r].values = x /\ queues'[r].position = q.position + 1
          /\ \A s \in Revisions : s # r => queues'[s] = queues[s]
      BY <3>5, <1>c
    <3>9. TypeQueues' BY <3>1, <3>7, <1>a, <1>b, <1>c, SamePaths DEF TypeQueues
    <3>10. QueuesOK'
      <4>1. \A h \in goroutines' : Len(queues'[h.rev].values) = Len(bind.paths)
        BY <3>1, <3>6, <3>8, <1>a, <1>c DEF QueuesOK
      <4>2. \A s \in Revisions : Len(queues'[s].values) \in {0, Len(bind.paths)}
        BY <3>6, <3>8, <1>a DEF QueuesOK
      <4>3. \A s \in Revisions : queues'[s].state = "resolving" =>
              Len(queues'[s].values) = Len(bind.paths) /\ queues'[s].position # 0
        BY <3>3, <3>6, <3>8, <1>a DEF QueuesOK
      <4>4. QED BY <4>1, <4>2, <4>3, <1>b DEF QueuesOK
    <3>11. QED BY <3>9, <3>10
  <2>3. CASE Callback(r)
    <3>1. /\ called' = [called EXCEPT ![r] = called[r] + 1] /\ lastCall' = [rev |-> r, values |-> q.values]
          /\ queues' = [queues EXCEPT ![r].state = "done"] /\ goroutines' = goroutines
      BY <2>3 DEF Callback
    <3>2. queues' \in [Revisions -> Queues]
      <4>1. "done" \in S OBVIOUS
      <4> HIDE DEF S, P
      <4>2. QED BY <3>1, <4>1, <1>c, QueueState
    <3>3. called' \in [Revisions -> Nat] BY <3>1, <1>c
    <3>4. r \in 0..MaxRevision BY BoundsAssumption DEF Revisions
    <3>5. lastCall' \in [rev : 0..MaxRevision, values : Seq(Values)] BY <3>1, <3>4, <1>d
    <3>6. TypeQueues' BY <3>1, <3>2, <3>3, <3>5, <1>a, <1>b, <1>c, SamePaths DEF TypeQueues
    <3>7. /\ queues'[r].state = "done"
          /\ \A s \in Revisions : /\ queues'[s].values = queues[s].values
                                  /\ s # r => queues'[s] = queues[s]
      BY <3>1, <1>c
    <3>8. QueuesOK'
      <4>1. \A h \in goroutines' : Len(queues'[h.rev].values) = Len(bind.paths)
        BY <3>1, <3>7, <1>a, <1>c DEF QueuesOK
      <4>2. \A s \in Revisions : Len(queues'[s].values) \in {0, Len(bind.paths)}
        BY <3>7, <1>a DEF QueuesOK
      <4>3. \A s \in Revisions : queues'[s].state = "resolving" =>
              Len(queues'[s].values) = Len(bind.paths) /\ queues'[s].position # 0
        BY <3>7, <1>a DEF QueuesOK
      <4>4. QED BY <4>1, <4>2, <4>3, <1>b DEF QueuesOK
    <3>9. QED BY <3>6, <3>8
  <2>4. QED BY <2>1, <2>2, <2>3 DEF ResolveStep
<1>2. TypeController' /\ LogOK' /\ ValuesOK' BY <1>a, <1>b, ControllerFrame
<1>3. TypeWatches' BY <1>a, <1>b, WatchesFrame
<1>4. TypeBind' BY <1>a, <1>b DEF TypeBind
<1>5. ControllerOK' BY <1>a, <1>b DEF ControllerOK
<1>7. UpdateOK' BY <1>a, <1>b DEF UpdateOK
<1>8. BindOK' BY <1>a, <1>b DEF BindOK, BindDone, NextBound
<1>9. WatchesAreCurrent' BY <1>a, <1>b DEF WatchesAreCurrent
<1>10. QED BY <1>1, <1>2, <1>3, <1>4, <1>5, <1>7, <1>8, <1>9, InductiveParts, PTL

-----------------------------------------------------------------------------
(* The invariant, and what follows from it.                                 *)

LEMMA StutterStep ==
  ASSUME Inductive, UNCHANGED vars
  PROVE  Inductive'
<1>a. /\ TypeController /\ TypeWatches /\ TypeBind /\ TypeQueues /\ LogOK /\ ControllerOK /\ ValuesOK
      /\ UpdateOK /\ BindOK /\ QueuesOK /\ WatchesAreCurrent
  BY InductiveParts
<1>b. UNCHANGED <<log, pc, startRev, next, handling, todo, update, rv, watch, sent, seen, bind, queues,
                  goroutines, called, lastCall, crashed, onUpdate>>
  BY DEF vars, controller, watchers, binder
<1>1. TypeBind' /\ TypeQueues' /\ QueuesOK' BY <1>a, <1>b, BinderFrame
<1>2. TypeController' /\ LogOK' /\ ValuesOK' BY <1>a, <1>b, ControllerFrame
<1>3. TypeWatches' BY <1>a, <1>b, WatchesFrame
<1>4. ControllerOK' /\ UpdateOK' BY <1>a, <1>b DEF ControllerOK, UpdateOK
<1>5. BindOK' BY <1>a, <1>b DEF BindOK, BindDone, NextBound
<1>6. WatchesAreCurrent' BY <1>a, <1>b DEF WatchesAreCurrent
<1>7. QED BY <1>1, <1>2, <1>3, <1>4, <1>5, <1>6, InductiveParts, PTL

LEMMA NextInductive ==
  ASSUME Inductive, [Next]_vars
  PROVE  Inductive'
<1>1. CASE UNCHANGED vars BY <1>1, StutterStep
<1>2. CASE ControllerStep
  BY <1>2, StartSteps, HandleStep, UpdateStep, SendStep, CallFuncStep, FuncReturnsStep DEF ControllerStep
<1>3. CASE BindStep BY <1>3, BindSteps
<1>4. ASSUME NEW r \in Revisions, ResolveStep(r) PROVE Inductive' BY <1>4, ResolveSteps
<1>5. CASE StoreStep BY <1>5, LogStep
<1>6. ASSUME NEW w \in Watches,
             Receive(w) \/ Cancel(w) \/ Remove(w) \/ \E p \in Watched : Watch(w, p)
      PROVE  Inductive'
  BY <1>6, CallerStep
<1>7. QED BY <1>1, <1>2, <1>3, <1>4, <1>5, <1>6 DEF Next, SystemStep, EnvironmentStep

LEMMA InductiveInvariant == Spec => []Inductive
BY InitInductive, NextInductive, PTL DEF Spec

\* Every variable keeps its type and no watch's channel exceeds its capacity.
THEOREM TypeCorrect == Spec => []TypeOK
<1>1. Inductive => TypeOK BY DEF Inductive
<1>2. QED BY <1>1, InductiveInvariant, PTL

\* Update never sends on a channel that the cancellation of its watch has
\* closed: both are done with the value's mutex, over however many steps.
THEOREM NoSendOnClosedCorrect == Spec => []NoSendOnClosed
<1>1. Inductive => NoSendOnClosed BY DEF Inductive, UpdateOK, NoSendOnClosed
<1>2. QED BY <1>1, InductiveInvariant, PTL

\* What a watch was sent last is the value of its path, except while Update is
\* notifying it: the diff of two configs names every path whose value differs.
THEOREM WatchesAreCurrentCorrect == Spec => []WatchesAreCurrent
<1>1. Inductive => WatchesAreCurrent BY DEF Inductive
<1>2. QED BY <1>1, InductiveInvariant, PTL

-----------------------------------------------------------------------------
(* What Bind's callback is given.                                           *)

NothingYet ==
  pc # "run" => (\A r \in Revisions : queues[r] = NoQueue) /\ goroutines = {} /\ lastCall.rev = 0

\* The values that queue q of revision r has are fresh.
QueueFresh(r, q) ==
  \A i \in 1..Len(q.values) :
    q.values[i] # Invalid \/ (q.state = "resolving" /\ i < q.position) => FreshFrom(r, i, q.values[i])

QueuesFresh == \A r \in Revisions : QueueFresh(r, queues[r])
ResolvingReached == \A r \in Revisions : queues[r].state = "resolving" => Reached(r)
GoroutinesReached ==
  \A g \in goroutines :
    /\ g.rev <= g.group \/ g.group = 0
    /\ GroupClosed(g) => Reached(g.rev)

LEMMA FreshParts ==
  FreshOK <=> NothingYet /\ QueuesFresh /\ ResolvingReached /\ GoroutinesReached /\ CallbacksAreFresh
BY DEF FreshOK, NothingYet, QueuesFresh, QueueFresh, ResolvingReached, GoroutinesReached

\* A revision before n is before m and in a log that reaches it.
LEMMA Within ==
  ASSUME NEW r \in Nat, r >= 1, NEW n \in Nat, NEW m \in Nat, n <= m, NEW l \in Nat, n <= l + 1
  PROVE  \A s \in r..n - 1 : s \in r..m - 1 /\ s \in 1..l
OBVIOUS

\* Values stay fresh and revisions reached when events and writes are added.
LEMMA Grows ==
  ASSUME Inductive, bind'.paths = bind.paths, next \in Nat, next' \in Nat, next <= next',
         \A s \in 1..Len(log) : log'[s] = log[s],
         \A p \in Paths : ~rv[p].pendingInit =>
           ~rv'[p].pendingInit /\ LastEvent(p) <= LastEvent(p)' /\ LastEvent(p)' \in Int,
         NEW r \in Revisions
  PROVE  /\ \A i \in Index : \A v : FreshFrom(r, i, v) => FreshFrom(r, i, v)'
         /\ Reached(r) => Reached(r)'
<1>a. TypeController /\ TypeBind /\ ControllerOK /\ ValuesOK BY InductiveParts
<1>b. Len(log) \in Nat /\ next <= Len(log) + 1 /\ r \in Nat /\ r >= 1
  BY <1>a, BoundsAssumption DEF TypeController, ControllerOK, Revisions
<1>1. ASSUME NEW i \in Index, NEW v, FreshFrom(r, i, v) PROVE FreshFrom(r, i, v)'
  <2>1. PICK s \in r..next - 1 : v = PathValue(log[s], bind.paths[i]) BY <1>1 DEF FreshFrom
  <2>3. s \in r..next' - 1 /\ s \in 1..Len(log)
    <3>1. next \in Nat /\ next' \in Nat /\ next <= next' OBVIOUS
    <3>2. QED BY ONLY <1>b, <2>1, <3>1, Within
  <2>4. v = PathValue(log'[s], bind'.paths[i]) BY <2>1, <2>3
  <2>5. QED BY <2>3, <2>4 DEF FreshFrom, PathValue, Invalid, Deleted
<1>2. ASSUME Reached(r) PROVE Reached(r)'
  <2> SUFFICES ASSUME NEW i \in Index
               PROVE  ~rv'[bind.paths[i]].pendingInit /\ LastEvent(bind.paths[i])' >= r
    BY SamePaths DEF Reached
  <2>1. bind.paths[i] \in Paths BY <1>a, BoundIndex
  <2>2. ~rv[bind.paths[i]].pendingInit /\ LastEvent(bind.paths[i]) >= r BY <1>2 DEF Reached
  <2>3. LastEvent(bind.paths[i]) \in Int BY <2>1, <2>2, <1>a DEF ValuesOK, ValueOK
  <2>4. QED BY <2>1, <2>2, <2>3, <1>b
<1>3. QED BY <1>1, <1>2

\* Steps that leave the queues alone.
LEMMA FreshKept ==
  ASSUME Inductive, FreshOK, UNCHANGED <<queues, goroutines, lastCall>>, bind'.paths = bind.paths,
         next \in Nat, next' \in Nat, next <= next', pc' # "run" => pc # "run",
         \A s \in 1..Len(log) : log'[s] = log[s],
         \A p \in Paths : ~rv[p].pendingInit =>
           ~rv'[p].pendingInit /\ LastEvent(p) <= LastEvent(p)' /\ LastEvent(p)' \in Int,
         \A g \in goroutines : GroupClosed(g)' => GroupClosed(g) \/ Reached(g.rev)'
  PROVE  FreshOK'
<1>a. TypeBind /\ TypeQueues /\ QueuesOK BY InductiveParts
<1>b. NothingYet /\ QueuesFresh /\ ResolvingReached /\ GoroutinesReached /\ CallbacksAreFresh
  BY FreshParts
<1>c. Index' = Index /\ Len(bind.paths) \in Nat BY <1>a, BoundIndex DEF Index
<1>d. \A r \in Revisions : /\ \A i \in Index : \A v : FreshFrom(r, i, v) => FreshFrom(r, i, v)'
                           /\ Reached(r) => Reached(r)'
  BY Grows
<1>1. NothingYet' BY <1>b DEF NothingYet
<1>2. QueuesFresh'
  <2> SUFFICES ASSUME NEW r \in Revisions, NEW i \in 1..Len(queues[r].values),
                      queues[r].values[i] # Invalid \/ (queues[r].state = "resolving" /\ i < queues[r].position)
               PROVE  FreshFrom(r, i, queues[r].values[i])'
    BY DEF QueuesFresh, QueueFresh, FreshFrom
  <2>1. FreshFrom(r, i, queues[r].values[i]) BY <1>b DEF QueuesFresh, QueueFresh
  <2>2. i \in Index
    <3>1. Len(queues[r].values) \in {0, Len(bind.paths)} BY <1>a DEF QueuesOK
    <3>2. QED BY <3>1, <1>c DEF Index
  <2>3. PICK v : v = queues[r].values[i] OBVIOUS
  <2>4. FreshFrom(r, i, v) => FreshFrom(r, i, v)' BY <2>2, <1>d
  <2>5. QED BY <2>1, <2>3, <2>4 DEF FreshFrom
<1>3. ResolvingReached' BY <1>b, <1>d DEF ResolvingReached
<1>4. GoroutinesReached'
  <2> SUFFICES ASSUME NEW g \in goroutines
               PROVE  (g.rev <= g.group \/ g.group = 0) /\ (GroupClosed(g)' => Reached(g.rev)')
    BY DEF GoroutinesReached
  <2>1. g.rev \in Revisions BY <1>a DEF TypeQueues
  <2>2. QED BY <2>1, <1>b, <1>d DEF GoroutinesReached
<1>5. CallbacksAreFresh'
  <2> SUFFICES ASSUME lastCall.rev # 0, NEW i \in Index
               PROVE  FreshFrom(lastCall.rev, i, lastCall.values[i])'
    BY <1>c DEF CallbacksAreFresh, FreshFrom
  <2>1. FreshFrom(lastCall.rev, i, lastCall.values[i]) BY <1>b DEF CallbacksAreFresh, FreshFrom
  <2>2. lastCall.rev \in Revisions BY <1>a, BoundsAssumption DEF TypeQueues, Revisions
  <2>3. PICK v, r : v = lastCall.values[i] /\ r = lastCall.rev OBVIOUS
  <2>4. FreshFrom(r, i, v) => FreshFrom(r, i, v)' BY <2>2, <2>3, <1>d
  <2>5. QED BY <2>1, <2>3, <2>4 DEF FreshFrom
<1>6. QED BY <1>1, <1>2, <1>3, <1>4, <1>5, FreshParts, PTL

LEMMA StoreFresh ==
  ASSUME Inductive, FreshOK, Inductive',
         StoreStep \/ StartGet \/ HandleWatchEvent
         \/ (\E p \in Paths : Update(p)) \/ (\E w \in Watches : SendChannel(w)) \/ BindPending
         \/ (\E w \in Watches : Receive(w) \/ Cancel(w) \/ Remove(w) \/ \E p \in Watched : Watch(w, p))
  PROVE  FreshOK'
<1>a. TypeController /\ TypeBind /\ TypeQueues /\ ControllerOK /\ ValuesOK /\ TypeController' /\ ValuesOK'
      /\ GoroutinesReached
  BY InductiveParts, FreshParts, PTL
<1>b. /\ Len(log) \in Nat /\ next \in Nat /\ next >= 1 /\ next' \in Nat
      /\ handling \in Nat /\ handling' \in Nat
  BY <1>a, BoundsAssumption DEF TypeController
<1>1. UNCHANGED <<queues, goroutines, lastCall>> /\ bind'.paths = bind.paths
  BY <1>a DEF StoreStep, Put, Delete, StartGet, HandleWatchEvent, Update, SendChannel, BindPending,
         Receive, Cancel, Remove, Watch, binder, TypeBind
<1>2. \A s \in 1..Len(log) : log'[s] = log[s]
  <2>1. CASE StoreStep
    <3>1. PICK x : log' = Append(log, x) BY <2>1 DEF StoreStep, Put, Delete
    <3>2. QED BY <3>1, <1>a DEF TypeController
  <2>2. CASE ~StoreStep
    BY <2>2 DEF StartGet, HandleWatchEvent, Update, SendChannel, BindPending,
         Receive, Cancel, Remove, Watch
  <2>3. QED BY <2>1, <2>2
<1>3. /\ next <= next' /\ (pc' # "run" => pc # "run")
      /\ \A p \in Paths : ~rv[p].pendingInit => ~rv'[p].pendingInit /\ LastEvent(p) <= LastEvent(p)'
      /\ handling' = handling \/ (handling = 0 /\ handling' = next)
  <2>1. CASE HandleWatchEvent
    <3>1. /\ pc = "run" /\ handling = 0 /\ next <= Len(log) /\ handling' = next
          /\ next' = next + 1 /\ todo' = Paths /\ rv' = rv /\ pc' = pc
      BY <2>1 DEF HandleWatchEvent
    <3>2. \A p \in Paths : LastEvent(p)' = LastEvent(p) BY <3>1, <1>b DEF LastEvent
    <3>3. \A p \in Paths : LastEvent(p) \in Int BY <1>b DEF LastEvent
    <3>4. QED BY <3>1, <3>2, <3>3, <1>b
  <2>2. ASSUME NEW p \in Paths, Update(p)
        PROVE  /\ next' = next /\ pc' = pc /\ handling' = handling
               /\ \A q \in Paths : ~rv[q].pendingInit => ~rv'[q].pendingInit /\ LastEvent(q) <= LastEvent(q)'
    <3>1. /\ handling # 0 /\ p \in todo /\ UNCHANGED <<next, pc, handling>> /\ todo' = todo \ {p}
          /\ rv' = [rv EXCEPT ![p] = [rev |-> EventRevision(handling), pendingInit |-> FALSE,
                                      value |-> PathValue(log[handling], p)]]
      BY <2>2 DEF Update, WalkMayVisit
    <3>2. \A q \in Paths : LastEvent(q) <= LastEvent(q)' BY <3>1, <1>b DEF LastEvent
    <3>3. rv'[p].pendingInit = FALSE /\ \A q \in Paths : q # p => rv'[q] = rv[q] BY <3>1, <1>a DEF TypeController
    <3>4. QED BY <3>1, <3>2, <3>3
  <2>3. CASE ~HandleWatchEvent /\ ~(\E p \in Paths : Update(p))
    <3>1. UNCHANGED <<next, handling, todo, rv>> /\ (pc' # "run" => pc # "run")
      BY <2>3 DEF StoreStep, Put, Delete, StartGet, SendChannel, BindPending,
         Receive, Cancel, Remove, Watch, controller
    <3>2. \A q \in Paths : LastEvent(q)' = LastEvent(q) /\ LastEvent(q) \in Int BY <3>1, <1>b DEF LastEvent
    <3>3. QED BY <3>1, <3>2, <1>b
  <2>4. QED BY <2>1, <2>2, <2>3, <1>b
<1>4. \A p \in Paths : LastEvent(p)' \in Int BY <1>b DEF LastEvent
<1>5. \A g \in goroutines : GroupClosed(g)' => GroupClosed(g) \/ Reached(g.rev)'
  <2> SUFFICES ASSUME NEW g \in goroutines, ~GroupClosed(g) PROVE ~GroupClosed(g)'
    OBVIOUS
  <2>1. g.group = handling /\ handling # 0 BY DEF GroupClosed
  <2>2. QED BY <2>1, <1>3 DEF GroupClosed
<1>6. QED BY <1>1, <1>2, <1>3, <1>4, <1>5, <1>b, FreshKept

\* The watch is opened when no value has been set.
LEMMA StartWatchFresh ==
  ASSUME FreshOK, StartWatch
  PROVE  FreshOK'
<1>b. NothingYet BY FreshParts
<1>1. UNCHANGED <<queues, goroutines, lastCall>> /\ pc # "run" /\ pc' = "run"
  BY DEF StartWatch, binder
<1>2. /\ \A r \in Revisions : queues'[r].values = <<>> /\ queues'[r].state = "none"
      /\ goroutines' = {} /\ lastCall'.rev = 0
  BY <1>b, <1>1 DEF NothingYet, NoQueue
<1>3. NothingYet' BY <1>1 DEF NothingYet
<1>4. QueuesFresh' BY <1>2 DEF QueuesFresh, QueueFresh
<1>5. ResolvingReached' /\ GoroutinesReached' /\ CallbacksAreFresh'
  BY <1>2 DEF ResolvingReached, GoroutinesReached, CallbacksAreFresh
<1>6. QED BY <1>3, <1>4, <1>5, FreshParts, PTL

\* When the event has been handled it has reached every value.
LEMMA CloseGroupFresh ==
  ASSUME Inductive, FreshOK, CloseGroup
  PROVE  FreshOK'
<1>a. TypeController /\ TypeBind /\ TypeQueues /\ ControllerOK /\ ValuesOK /\ GoroutinesReached
  BY InductiveParts, FreshParts
<1>b. /\ handling # 0 /\ todo = {} /\ handling' = 0
      /\ UNCHANGED <<log, pc, next, todo, rv, bind, queues, goroutines, lastCall>>
  BY DEF CloseGroup, binder
<1>c. next = handling + 1 /\ handling \in Nat /\ next \in Nat /\ \A p \in Paths : ~rv[p].pendingInit
  BY <1>a, <1>b DEF ControllerOK, TypeController
<1>1. \A p \in Paths : LastEvent(p)' = LastEvent(p) /\ LastEvent(p) = handling
  BY <1>b, <1>c DEF LastEvent
<1>2. \A g \in goroutines : GroupClosed(g)' => GroupClosed(g) \/ Reached(g.rev)'
  <2> SUFFICES ASSUME NEW g \in goroutines, ~GroupClosed(g) PROVE Reached(g.rev)'
    OBVIOUS
  <2>1. g.rev <= handling BY <1>a, <1>b DEF GroupClosed, GoroutinesReached
  <2>2. g.rev \in Nat BY <1>a DEF TypeQueues, Revisions
  <2>3. \A i \in Index : bind.paths[i] \in Paths BY <1>a, BoundIndex
  <2>4. QED BY <2>1, <2>2, <2>3, <1>1, <1>b, <1>c DEF Reached, Index
<1>3. QED BY <1>1, <1>2, <1>b, <1>c, FreshKept

\* Steps that leave the events alone.
LEMMA FreshFrame ==
  ASSUME UNCHANGED <<log, next, handling, todo, rv>>, bind'.paths = bind.paths
  PROVE  /\ \A r, i, v : FreshFrom(r, i, v)' <=> FreshFrom(r, i, v)
         /\ \A r : Reached(r)' <=> Reached(r)
         /\ \A g : GroupClosed(g)' <=> GroupClosed(g)
<1>1. \A r, i, v : FreshFrom(r, i, v)' <=> FreshFrom(r, i, v)
  BY DEF FreshFrom, PathValue, Invalid, Deleted
<1>2. \A r : Reached(r)' <=> Reached(r) BY DEF Reached, Index, LastEvent
<1>3. \A g : GroupClosed(g)' <=> GroupClosed(g) BY DEF GroupClosed
<1>4. QED BY <1>1, <1>2, <1>3

LEMMA PeekOrAddFresh ==
  ASSUME FreshOK, TypeQueues, UNCHANGED <<log, pc, next, handling, todo, rv>>, bind'.paths = bind.paths,
         pc = "run",
         NEW t \in Threads, NEW i, NEW rev \in Revisions, NEW group, PeekOrAdd(t, i, rev, group)
  PROVE  FreshOK'
<1>a. NothingYet /\ QueuesFresh /\ ResolvingReached /\ GoroutinesReached /\ CallbacksAreFresh
  BY FreshParts
<1>b. /\ UNCHANGED <<goroutines, lastCall>> /\ queues \in [Revisions -> Queues]
      /\ queues' = [queues EXCEPT ![rev].state = IF queues[rev].state = "none" THEN "open" ELSE queues[rev].state]
  BY DEF PeekOrAdd, TypeQueues
<1>1. \A r \in Revisions : /\ queues'[r].values = queues[r].values
                           /\ queues'[r].position = queues[r].position
                           /\ queues'[r].state = "resolving" <=> queues[r].state = "resolving"
  BY <1>b DEF Queues
<1>2. /\ \A r, j, v : FreshFrom(r, j, v)' <=> FreshFrom(r, j, v)
      /\ \A r : Reached(r)' <=> Reached(r)
      /\ \A g : GroupClosed(g)' <=> GroupClosed(g)
  BY FreshFrame
<1>3. NothingYet' BY DEF NothingYet
<1>4. QueuesFresh'
  <2> SUFFICES ASSUME NEW r \in Revisions, NEW j \in 1..Len(queues'[r].values), NEW v, v = queues'[r].values[j],
                      v # Invalid \/ (queues'[r].state = "resolving" /\ j < queues'[r].position)
               PROVE  FreshFrom(r, j, v)'
    BY DEF QueuesFresh, QueueFresh, FreshFrom
  <2>1. FreshFrom(r, j, v) BY <1>a, <1>1 DEF QueuesFresh, QueueFresh
  <2>2. QED BY <2>1, <1>2
<1>5. ResolvingReached' BY <1>a, <1>1, <1>2 DEF ResolvingReached
<1>6. GoroutinesReached' BY <1>a, <1>b, <1>2 DEF GoroutinesReached
<1>7. CallbacksAreFresh' BY <1>a, <1>b DEF CallbacksAreFresh, PathValue, Index, Invalid, Deleted
<1>8. QED BY <1>3, <1>4, <1>5, <1>6, <1>7, FreshParts, PTL

\* onUpdate stores a value that is fresh, and starts a goroutine that waits for
\* the event to reach every value if it has not.
LEMMA StoreValueFresh ==
  ASSUME FreshOK, TypeBind, TypeQueues, QueuesOK, UNCHANGED <<log, pc, next, handling, todo, rv>>,
         bind'.paths = bind.paths, pc = "run",
         NEW t \in Threads, NEW v \in Values, StoreValue(t, v),
         NEW k \in Index, k = onUpdate[t].i, NEW rev \in Revisions, rev = onUpdate[t].rev,
         NEW group, group = onUpdate[t].group,
         FreshFrom(rev, k, v), rev <= group \/ group = 0,
         group = 0 \/ group # handling => Reached(rev)
  PROVE  FreshOK'
<1>a. NothingYet /\ QueuesFresh /\ ResolvingReached /\ GoroutinesReached /\ CallbacksAreFresh
  BY FreshParts
<1>b. /\ \A r, j, u : FreshFrom(r, j, u)' <=> FreshFrom(r, j, u)
      /\ \A r : Reached(r)' <=> Reached(r)
      /\ \A g : GroupClosed(g)' <=> GroupClosed(g)
  BY FreshFrame
<1> DEFINE old == IF onUpdate[t].fresh THEN [i \in Index |-> Invalid] ELSE queues[rev].values
           values == [old EXCEPT ![k] = v]
<1>c. /\ lastCall' = lastCall /\ queues[rev].state # "resolving"
      /\ \/ UNCHANGED <<queues, goroutines>>
         \/ /\ old # <<>> /\ queues' = [queues EXCEPT ![rev].values = values]
            /\ goroutines' = goroutines \cup {[rev |-> rev, group |-> group]}
  BY SMTT(30) DEF StoreValue, ValuesMuFree
<1>d. queues \in [Revisions -> Queues] BY DEF TypeQueues
<1>1. NothingYet' BY DEF NothingYet
<1>2. CallbacksAreFresh'
  <2>1. Index' = Index BY DEF Index
  <2>2. lastCall.rev # 0 => \A i \in Index : FreshFrom(lastCall.rev, i, lastCall.values[i])
    BY <1>a DEF CallbacksAreFresh, FreshFrom
  <2>3. lastCall.rev # 0 => \A i \in Index : FreshFrom(lastCall.rev, i, lastCall.values[i])'
    BY <2>2, <1>c DEF FreshFrom, PathValue, Invalid, Deleted
  <2>4. QED BY <2>1, <2>3, <1>c DEF CallbacksAreFresh, FreshFrom
<1>3. \A r \in Revisions :
        /\ queues'[r].state = queues[r].state /\ queues'[r].position = queues[r].position
        /\ queues'[r].values = queues[r].values \/ (old # <<>> /\ r = rev /\ queues'[r].values = values)
  <2> HIDE DEF old, values
  <2>1. CASE queues' = queues BY <2>1
  <2>2. CASE old # <<>> /\ queues' = [queues EXCEPT ![rev].values = values]
    BY <2>2, <1>d DEF Queues
  <2>3. QED BY <2>1, <2>2, <1>c
<1>4. QueuesFresh'
  <2> SUFFICES ASSUME NEW r \in Revisions, NEW j \in 1..Len(queues'[r].values), NEW u, u = queues'[r].values[j],
                      u # Invalid \/ (queues'[r].state = "resolving" /\ j < queues'[r].position)
               PROVE  FreshFrom(r, j, u)
    BY <1>b DEF QueuesFresh, QueueFresh, FreshFrom
  <2>1. CASE queues'[r].values = queues[r].values BY <2>1, <1>a, <1>3 DEF QueuesFresh, QueueFresh
  <2>2. CASE old # <<>> /\ r = rev /\ queues'[r].values = values
    <3>1. u = values[j] /\ u # Invalid /\ j \in 1..Len(values) BY <2>2, <1>3, <1>c
    <3>2. CASE onUpdate[t].fresh
      <4>1. old = [i \in Index |-> Invalid] BY <3>2
      <4>2. values = [i \in Index |-> IF i = k THEN v ELSE Invalid] BY <4>1
      <4>3. Len(values) = Len(bind.paths) BY <4>2, BoundIndex DEF Index
      <4>4. j \in Index BY <3>1, <4>3 DEF Index
      <4>5. j = k /\ u = v BY <3>1, <4>2, <4>4
      <4>6. QED BY <2>2, <4>5
    <3>3. CASE ~onUpdate[t].fresh
      <4>1. old = queues[rev].values /\ old \in Seq(Values) BY <3>3, <1>d DEF Queues
      <4> HIDE DEF old
      <4>2. Len(values) = Len(old)
        <5>1. Len(old) \in {0, Len(bind.paths)} BY <4>1 DEF QueuesOK
        <5>2. Len(old) # 0 BY <2>2, <4>1, EmptySeq
        <5>3. k \in 1..Len(old) BY <5>1, <5>2 DEF Index
        <5>4. QED BY <4>1, <5>3, ExceptSeq
      <4>3. j \in 1..Len(old) BY <3>1, <4>2
      <4>4. CASE j = k BY <2>2, <3>1, <4>4, <4>3, <4>1
      <4>5. CASE j # k
        <5>1. u = old[j] BY <3>1, <4>5, <4>3, <4>1
        <5>2. QED BY <2>2, <3>1, <4>1, <4>3, <5>1, <1>a DEF QueuesFresh, QueueFresh
      <4>6. QED BY <4>4, <4>5
    <3>4. QED BY <3>2, <3>3
  <2>3. QED BY <2>1, <2>2, <1>3
<1>5. ResolvingReached' BY <1>a, <1>b, <1>3 DEF ResolvingReached
<1>6. GoroutinesReached'
  <2> SUFFICES ASSUME NEW g \in goroutines'
               PROVE  (g.rev <= g.group \/ g.group = 0) /\ (GroupClosed(g) => Reached(g.rev))
    BY <1>b DEF GoroutinesReached
  <2>1. CASE g \in goroutines BY <2>1, <1>a DEF GoroutinesReached
  <2>2. CASE g = [rev |-> rev, group |-> group] BY <2>2 DEF GroupClosed
  <2>3. QED BY <2>1, <2>2, <1>c
<1>7. QED BY <1>1, <1>2, <1>4, <1>5, <1>6, FreshParts, PTL

\* A function of the binding that the controller's Update calls.
LEMMA CallsFresh ==
  ASSUME Inductive, FreshOK, NEW i \in Index, CallFunc(i)
  PROVE  FreshOK'
<1>a. TypeController /\ TypeWatches /\ TypeQueues /\ LogOK /\ ControllerOK /\ ValuesOK /\ UpdateOK BY InductiveParts
<1>b. /\ UNCHANGED <<log, pc, next, handling, todo, rv, bind>> /\ i \in update.call
      /\ PeekOrAdd("controller", i, rv[update.path].rev, handling)
  BY DEF CallFunc, controller
<1>c. rv[update.path].rev \in Revisions /\ pc = "run"
  <2>1. update # NoUpdate BY <1>b DEF NoUpdate
  <2>2. update.path \in Paths /\ ~rv[update.path].pendingInit BY <2>1, <1>a DEF UpdateOK, ControllerOK
  <2>3. QED BY <2>2, <1>a, ValueRevision DEF ValuesOK, ControllerOK
<1>d. "controller" \in Threads BY DEF Threads
<1>1. QED BY <1>a, <1>b, <1>c, <1>d, PeekOrAddFresh

LEMMA ReturnsFresh ==
  ASSUME Inductive, FreshOK, FuncReturns
  PROVE  FreshOK'
<1>a. /\ TypeController /\ TypeWatches /\ TypeBind /\ TypeQueues /\ LogOK /\ ControllerOK /\ ValuesOK
      /\ UpdateOK /\ QueuesOK
  BY InductiveParts
<1> DEFINE c == onUpdate["controller"]
           p == update.path
<1>b. /\ UNCHANGED <<log, pc, next, handling, todo, rv, bind>> /\ c.at = "lock"
      /\ StoreValue("controller", rv[p].value)
  BY DEF FuncReturns, StoreValue, controller
<1>c. /\ p \in Paths /\ p \notin todo /\ handling # 0 /\ c.i \in update.call /\ bind.paths[c.i] = p
      /\ c.rev = rv[p].rev /\ c.group = handling /\ next = handling + 1 /\ ~rv[p].pendingInit
  BY <1>a, <1>b DEF UpdateOK, ControllerOK
<1>d. /\ c.i \in Index /\ rv[p].value \in Values /\ handling \in Nat /\ "controller" \in Threads /\ pc = "run"
      /\ next \in Nat
  BY <1>a, <1>c DEF TypeController, TypeWatches, ControllerOK, Threads
<1>e. /\ rv[p].rev \in Revisions /\ rv[p].rev <= LastEvent(p)
      /\ rv[p].value = PathValue(log[LastEvent(p)], p)
  BY <1>a, <1>c, ValueRevision DEF ValuesOK
<1>f. LastEvent(p) = handling /\ rv[p].rev \in Nat BY <1>c, <1>d, <1>e DEF LastEvent, Revisions
<1>1. FreshFrom(c.rev, c.i, rv[p].value)
  <2>1. handling \in c.rev..next - 1 BY <1>c, <1>d, <1>e, <1>f
  <2>2. QED BY <2>1, <1>c, <1>e, <1>f DEF FreshFrom
<1>2. c.rev \in Revisions /\ c.rev <= c.group /\ ~(c.group = 0 \/ c.group # handling)
  BY <1>c, <1>e, <1>f
<1> HIDE DEF p
<1>3. QED BY <1>1, <1>2, <1>a, <1>b, <1>d, StoreValueFresh

\* Bind's own call, on a value that has been set: no other value is bound.
LEMMA BindFresh ==
  ASSUME LateBindsOne, Inductive, FreshOK, BindCalls \/ BindRegisters
  PROVE  FreshOK'
<1>a. /\ TypeController /\ TypeBind /\ TypeQueues /\ LogOK /\ ControllerOK /\ ValuesOK /\ BindOK /\ QueuesOK
  BY InductiveParts
<1> DEFINE c == onUpdate["bind"]
           p == NextBound
<1>b. /\ UNCHANGED <<log, pc, next, handling, todo, rv>> /\ bind'.paths = bind.paths /\ ~BindDone
      /\ ~rv[p].pendingInit /\ "bind" \in Threads
  BY <1>a DEF BindCalls, BindRegisters, BindOK, TypeBind, controller, Threads
<1>c. p \in Paths /\ bind.next \in Index /\ Len(bind.paths) \in Nat BY <1>a, <1>b, BoundIndex
<1>d. /\ rv[p].rev \in Revisions /\ rv[p].rev <= LastEvent(p) /\ LastEvent(p) \in 1..Len(log)
      /\ rv[p].value = PathValue(log[LastEvent(p)], p)
  BY <1>a, <1>b, <1>c, ValueRevision DEF ValuesOK
<1>e. pc = "run" BY <1>a, <1>b, <1>c DEF ControllerOK
<1>1. CASE BindCalls
  <2>1. PeekOrAdd("bind", bind.next, rv[p].rev, 0) BY <1>1 DEF BindCalls
  <2> HIDE DEF p
  <2>2. QED BY <2>1, <1>a, <1>b, <1>d, <1>e, PeekOrAddFresh
<1>2. CASE BindRegisters
  <2>1. /\ bind.locked /\ StoreValue("bind", rv[p].value) /\ c.i = bind.next /\ c.rev = rv[p].rev /\ c.group = 0
    BY <1>2, <1>a DEF BindRegisters, BindOK
  <2>2. Len(log) \in Nat /\ log # <<>> BY <1>a, <1>d DEF TypeController
  <2>3. bind.paths \in Late BY <2>2, <1>a, <1>b DEF BindOK
  <2>4. Index = {bind.next}
    <3>1. Len(bind.paths) <= 1 BY <2>3 DEF LateBindsOne
    <3>2. QED BY <3>1, <1>c DEF Index
  <2>5. LastEvent(p) \in Nat /\ rv[p].rev \in Nat BY <1>d, <2>2 DEF Revisions
  <2>6. Reached(rv[p].rev) BY <2>4, <2>5, <1>b, <1>d DEF Reached, NextBound
  <2>7. next \in Nat /\ LastEvent(p) <= next - 1 BY <1>a DEF TypeController, LastEvent
  <2>8. FreshFrom(rv[p].rev, bind.next, rv[p].value)
    <3>1. LastEvent(p) \in rv[p].rev..next - 1 BY <2>5, <2>7, <1>d
    <3>2. QED BY <3>1, <1>d DEF FreshFrom, NextBound
  <2>9. rv[p].value \in Values BY <1>a, <1>c DEF TypeController
  <2> HIDE DEF p
  <2>10. QED BY <2>1, <2>6, <2>8, <2>9, <1>a, <1>b, <1>c, <1>d, <1>e, StoreValueFresh
<1>3. QED BY <1>1, <1>2

\* A goroutine resolves its queue after the events have reached its revision:
\* the values it reads are fresh.
LEMMA ResolveFresh ==
  ASSUME Inductive, FreshOK, NEW r \in Revisions, ResolveStep(r)
  PROVE  FreshOK'
<1>a. /\ TypeController /\ TypeBind /\ TypeQueues /\ ControllerOK /\ ValuesOK /\ QueuesOK
      /\ NothingYet /\ QueuesFresh /\ ResolvingReached /\ GoroutinesReached /\ CallbacksAreFresh
  BY InductiveParts, FreshParts
<1>b. UNCHANGED <<log, pc, next, handling, todo, rv, bind>>
  BY DEF ResolveStep, Resolve, FillValue, Callback, controller
<1>c. /\ \A s, j, u : FreshFrom(s, j, u)' <=> FreshFrom(s, j, u)
      /\ \A s : Reached(s)' <=> Reached(s)
      /\ \A g : GroupClosed(g)' <=> GroupClosed(g)
  BY <1>b, FreshFrame
<1>d. /\ queues \in [Revisions -> Queues] /\ queues[r] \in Queues /\ Len(bind.paths) \in Nat
      /\ queues[r].values \in Seq(Values) /\ queues[r].position \in 0..Len(bind.paths) + 1
  BY <1>a, BoundIndex DEF TypeQueues, Queues
<1>e. /\ pc = "run" /\ goroutines' \subseteq goroutines
  <2>1. (\E g \in goroutines : TRUE) \/ queues[r].state = "resolving"
    BY DEF ResolveStep, FillValue, Callback
  <2>2. pc = "run" BY <2>1, <1>a DEF NothingYet, NoQueue
  <2>3. QED BY <2>2 DEF ResolveStep, Resolve, FillValue, Callback
<1>f. NothingYet' BY <1>b, <1>e DEF NothingYet
<1>g. GoroutinesReached' BY <1>a, <1>c, <1>e DEF GoroutinesReached
<1>h. /\ \A s \in Revisions \ {r} : queues'[s] = queues[s]
      /\ Reached(r) /\ QueueFresh(r, queues'[r]) /\ CallbacksAreFresh'
  <2>0. lastCall' = lastCall => CallbacksAreFresh'
    BY <1>a, <1>b DEF CallbacksAreFresh, PathValue, Index, Invalid, Deleted
  <2>1. ASSUME NEW g \in goroutines, g.rev = r, Resolve(g) PROVE <1>h!:
    <3>1. lastCall' = lastCall /\ GroupClosed(g) BY <2>1 DEF Resolve
    <3>2. Reached(r) BY <2>1, <3>1, <1>a DEF GoroutinesReached
    <3>3. CASE queues' = queues BY <3>1, <3>2, <3>3, <2>0, <1>a DEF QueuesFresh
    <3>4. CASE queues' = [queues EXCEPT ![r].state = "resolving", ![r].position = 1]
      <4>1. /\ queues'[r].values = queues[r].values /\ queues'[r].position = 1
            /\ \A s \in Revisions \ {r} : queues'[s] = queues[s]
        BY <3>4, <1>d DEF Queues
      <4>2. QueueFresh(r, queues'[r])
        <5> SUFFICES ASSUME NEW j \in 1..Len(queues[r].values),
                            queues[r].values[j] # Invalid \/ j < 1
                     PROVE  FreshFrom(r, j, queues[r].values[j])
          BY <4>1 DEF QueueFresh
        <5>1. QED BY <1>a, <1>d DEF QueuesFresh, QueueFresh
      <4>3. QED BY <3>1, <3>2, <4>1, <4>2, <2>0
    <3>5. QED BY <2>1, <3>3, <3>4 DEF Resolve
  <2>2. CASE FillValue(r)
    <3> DEFINE i == queues[r].position
               p == bind.paths[i]
    <3>1. queues[r].state = "resolving" /\ i \in Index /\ lastCall' = lastCall BY <2>2 DEF FillValue
    <3>2. Reached(r) /\ Len(queues[r].values) = Len(bind.paths) BY <3>1, <1>a DEF ResolvingReached, QueuesOK
    <3>3. i \in 1..Len(queues[r].values) /\ i \in Nat BY <3>1, <3>2, <1>d DEF Index
    <3>4. FreshFrom(r, i, rv[p].value)
      <4>1. p \in Paths BY <3>1, <1>a, BoundIndex
      <4>2. ~rv[p].pendingInit /\ LastEvent(p) >= r BY <3>1, <3>2 DEF Reached
      <4>3. LastEvent(p) \in 1..Len(log) /\ rv[p].value = PathValue(log[LastEvent(p)], p)
        BY <4>1, <4>2, <1>a DEF ValuesOK, ValueOK
      <4>4. next \in Nat /\ LastEvent(p) <= next - 1 BY <1>a DEF TypeController, LastEvent
      <4>5. LastEvent(p) \in r..next - 1 BY <4>2, <4>3, <4>4, <1>a, BoundsAssumption DEF Revisions
      <4>6. QED BY <4>3, <4>5 DEF FreshFrom
    <3>5. /\ queues'[r].position = i + 1 /\ \A s \in Revisions \ {r} : queues'[s] = queues[s]
          /\ Len(queues'[r].values) = Len(queues[r].values)
          /\ \A j \in 1..Len(queues[r].values) \ {i} : queues'[r].values[j] = queues[r].values[j]
          /\ queues'[r].values[i] = IF queues[r].values[i] # Invalid THEN queues[r].values[i] ELSE rv[p].value
      <4> HIDE DEF p
      <4>1. CASE queues[r].values[i] # Invalid /\ queues' = [queues EXCEPT ![r].position = i + 1]
        BY <4>1, <3>3, <1>d DEF Queues
      <4>2. CASE queues[r].values[i] = Invalid
                 /\ queues' = [queues EXCEPT ![r].values[i] = rv[p].value, ![r].position = i + 1]
        <5> DEFINE x == [queues[r].values EXCEPT ![i] = rv[p].value]
        <5>1. queues'[r].values = x BY <4>2, <1>d DEF Queues
        <5>2. DOMAIN x = 1..Len(queues[r].values) /\ x[i] = rv[p].value
              /\ \A j \in 1..Len(queues[r].values) \ {i} : x[j] = queues[r].values[j]
          BY <3>3, <1>d
        <5>3. Len(x) = Len(queues[r].values)
          <6>1. DOMAIN queues[r].values = 1..Len(queues[r].values) BY <1>d
          <6>2. QED BY <6>1, <3>3
        <5>4. queues'[r].position = i + 1 /\ \A s \in Revisions \ {r} : queues'[s] = queues[s]
          BY <4>2, <1>d DEF Queues
        <5> HIDE DEF x
        <5>5. QED BY <4>2, <5>1, <5>2, <5>3, <5>4, <3>3
      <4>3. QED BY <2>2, <4>1, <4>2 DEF FillValue, p
    <3>6. QueueFresh(r, queues'[r])
      <4> SUFFICES ASSUME NEW j \in 1..Len(queues[r].values),
                          queues'[r].values[j] # Invalid \/ j < i + 1
                   PROVE  FreshFrom(r, j, queues'[r].values[j])
        BY <3>5 DEF QueueFresh
      <4>1. CASE j = i
        <5>1. CASE queues[r].values[i] # Invalid BY <4>1, <5>1, <3>3, <3>5, <1>a DEF QueuesFresh, QueueFresh
        <5>2. CASE queues[r].values[i] = Invalid BY <4>1, <5>2, <3>4, <3>5
        <5>3. QED BY <5>1, <5>2
      <4>2. CASE j # i
        <5>1. queues'[r].values[j] = queues[r].values[j] BY <4>2, <3>5
        <5>2. j < i + 1 => j < i BY <4>2, <3>3
        <5>3. QED BY <5>1, <5>2, <3>1, <1>a DEF QueuesFresh, QueueFresh
      <4>3. QED BY <4>1, <4>2
    <3>7. QED BY <3>1, <3>2, <3>5, <3>6, <2>0
  <2>3. CASE Callback(r)
    <3>1. /\ queues[r].state = "resolving" /\ queues[r].position \notin Index
          /\ lastCall' = [rev |-> r, values |-> queues[r].values]
          /\ queues' = [queues EXCEPT ![r].state = "done"]
      BY <2>3 DEF Callback
    <3>2. /\ Reached(r) /\ Len(queues[r].values) = Len(bind.paths) /\ queues[r].position # 0
      BY <3>1, <1>a DEF ResolvingReached, QueuesOK
    <3>3. queues[r].position = Len(bind.paths) + 1 BY <3>1, <3>2, <1>d DEF Index
    <3>4. \A j \in Index : FreshFrom(r, j, queues[r].values[j])
      BY <3>1, <3>2, <3>3, <1>a, <1>d DEF QueuesFresh, QueueFresh, Index
    <3>5. CallbacksAreFresh'
      BY <3>1, <3>4, <1>b DEF CallbacksAreFresh, FreshFrom, PathValue, Index, Invalid, Deleted
    <3>6. /\ queues'[r].values = queues[r].values /\ queues'[r].state = "done"
          /\ \A s \in Revisions \ {r} : queues'[s] = queues[s]
      BY <3>1, <1>d DEF Queues
    <3>7. QueueFresh(r, queues'[r]) BY <3>6, <1>a DEF QueuesFresh, QueueFresh
    <3>8. QED BY <3>2, <3>5, <3>6, <3>7
  <2>4. QED BY <2>1, <2>2, <2>3 DEF ResolveStep
<1>1. QueuesFresh'
  <2> SUFFICES ASSUME NEW s \in Revisions, NEW j \in 1..Len(queues'[s].values), NEW u, u = queues'[s].values[j],
                      u # Invalid \/ (queues'[s].state = "resolving" /\ j < queues'[s].position)
               PROVE  FreshFrom(s, j, u)'
    BY DEF QueuesFresh, QueueFresh, FreshFrom
  <2>1. CASE s = r BY <2>1, <1>c, <1>h DEF QueueFresh
  <2>2. CASE s # r BY <2>2, <1>c, <1>h, <1>a DEF QueuesFresh, QueueFresh
  <2>3. QED BY <2>1, <2>2
<1>2. ResolvingReached' BY <1>a, <1>c, <1>h DEF ResolvingReached
<1>3. QED BY <1>1, <1>2, <1>f, <1>g, <1>h, FreshParts, PTL

LEMMA StutterFresh ==
  ASSUME Inductive, FreshOK, UNCHANGED vars
  PROVE  FreshOK'
<1>a. TypeController /\ ValuesOK BY InductiveParts
<1>b. UNCHANGED <<log, pc, next, handling, todo, rv, bind, queues, goroutines, lastCall>>
  BY DEF vars, controller, binder
<1>c. next \in Nat /\ handling \in Nat BY <1>a, BoundsAssumption DEF TypeController
<1>1. \A p \in Paths : LastEvent(p)' = LastEvent(p) /\ LastEvent(p) \in Int BY <1>b, <1>c DEF LastEvent
<1>2. \A g \in goroutines : GroupClosed(g)' => GroupClosed(g) BY <1>b DEF GroupClosed
<1>3. QED BY <1>1, <1>2, <1>b, <1>c, FreshKept

LEMMA InitFresh == Init => FreshOK
<1>1. ASSUME Init PROVE NothingYet BY <1>1 DEF Init, NothingYet
<1>2. ASSUME Init PROVE QueuesFresh /\ ResolvingReached
  BY <1>2 DEF Init, QueuesFresh, QueueFresh, ResolvingReached, NoQueue
<1>3. ASSUME Init PROVE GoroutinesReached /\ CallbacksAreFresh
  BY <1>3 DEF Init, GoroutinesReached, CallbacksAreFresh
<1>4. QED BY <1>1, <1>2, <1>3, FreshParts

LEMMA NextFresh ==
  ASSUME LateBindsOne, Inductive, FreshOK, [Next]_vars
  PROVE  FreshOK'
<1>0. Inductive' BY NextInductive
<1>1. CASE UNCHANGED vars BY <1>1, StutterFresh
<1>2. CASE ControllerStep
  BY <1>0, <1>2, StoreFresh, StartWatchFresh, CloseGroupFresh, CallsFresh, ReturnsFresh DEF ControllerStep
<1>3. CASE BindStep BY <1>0, <1>3, StoreFresh, BindFresh DEF BindStep
<1>4. ASSUME NEW r \in Revisions, ResolveStep(r) PROVE FreshOK' BY <1>4, ResolveFresh
<1>5. CASE StoreStep BY <1>0, <1>5, StoreFresh
<1>6. ASSUME NEW w \in Watches,
             Receive(w) \/ Cancel(w) \/ Remove(w) \/ \E p \in Watched : Watch(w, p)
      PROVE  FreshOK'
  BY <1>0, <1>6, StoreFresh
<1>7. QED BY <1>1, <1>2, <1>3, <1>4, <1>5, <1>6 DEF Next, SystemStep, EnvironmentStep

\* If bindings of several paths are made while there is no config, Bind's
\* callback for a revision is never given a value the revision replaced: its
\* goroutines wait for the controller to have visited every path.  (A binding
\* of several paths made later calls back before that.)
THEOREM CallbacksFresh == LateBindsOne => (Spec => []CallbacksAreFresh)
<1> SUFFICES ASSUME LateBindsOne PROVE Spec => []CallbacksAreFresh
  OBVIOUS
<1>1. Inductive /\ FreshOK /\ [Next]_vars => FreshOK' BY NextFresh
<1>2. FreshOK => CallbacksAreFresh BY DEF FreshOK
<1>3. QED BY <1>1, <1>2, InitFresh, InductiveInvariant, PTL DEF Spec
=============================================================================
