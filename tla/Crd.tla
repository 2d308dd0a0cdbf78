-------------------------------- MODULE Crd ---------------------------------
(***************************************************************************)
(* The custom resource driver, storage/drivers/crds/value_store.go: one    *)
(* Kubernetes object holds the value, and an annotation of it the values   *)
(* it had before.  A request to the API server is one step; Put, Delete    *)
(* and Watch, which make two, are two or more.  The API server, external,  *)
(* gives every write of the object the next resource version, which is the *)
(* revision, refuses an update that names another version than the         *)
(* object's, and may end a watch at any time.  Nobody else writes the      *)
(* object.  Values are identified by the version they are written at, and  *)
(* times are left out.                                                     *)
(***************************************************************************)
EXTENDS Integers, Sequences, SequencesExt, FiniteSetsExt

CONSTANTS
  Clients,            \* callers of Put and Delete
  Watches,            \* calls of Watch, each made once
  Size,               \* Size[v]: the encoded size of the history entry of value v
  MaxAnnotationSize,  \* maxAnnotationSize
  HistoryLimit,       \* the newest 64 entries
  ChannelCap,         \* make(chan ..., 64)
  MaxVersion,         \* bound of the model: writes to the object
  Asked,              \* the Revision options of callers
  Unset,              \* an option's Revision that is nil
  None                \* no object

Revisions == 0..MaxVersion
Objects == [rev : Revisions, value : Revisions, history : Seq([rev : Revisions, value : Revisions])]
Events == [delete : BOOLEAN, rev : Revisions, value : Revisions, prev : Revisions]

ASSUME ParametersAssumption ==
  /\ Size \in [1..MaxVersion -> Nat]
  /\ MaxAnnotationSize \in Nat /\ HistoryLimit \in Nat \ {0}
  /\ ChannelCap \in Nat \ {0} /\ MaxVersion \in Nat
  /\ Unset \notin Int /\ Asked \subseteq Nat \cup {Unset}
  /\ None \notin Objects

VARIABLES
  version,    \* the last resource version given out
  object,     \* None, or the object: its version, value and history annotation
  log,        \* history: every put and deletion, as a watch is to report it
  call,       \* per client: the call it is in, and the object that call has read
  watch,      \* per watch: its state, options, latestVersion and `previous'
  stream,     \* the API server's events it has still to read
  ended,      \* the watches that the API server has ended
  pending,    \* the events its goroutine has to send
  channel,    \* the events in eventC
  got,        \* history: the events its caller has received
  due,        \* history: where in log its events begin
  cancelled   \* the watches whose context is done

store    == <<version, object, log>>
watching == <<watch, stream, ended, pending, channel, got, due, cancelled>>
vars == <<store, call, watching>>

-----------------------------------------------------------------------------
(* The history annotation.                                                  *)

SizeOf(entries) ==
  LET total[i \in 0..Len(entries)] == IF i = 0 THEN 0 ELSE total[i - 1] + Size[entries[i].value]
  IN total[Len(entries)]

\* encodeHistory goes from the newest entry to the oldest, and cuts off all
\* that no longer fit.
encodeHistory(entries) ==
  LET n       == Len(entries)
      tooLong == {i \in 1..n : SizeOf(SubSeq(entries, i, n)) > MaxAnnotationSize}
  IN SubSeq(entries, IF tooLong = {} THEN 1 ELSE Max(tooLong) + 1, n)

Entry(obj) == [rev |-> obj.rev, value |-> obj.value]

\* The annotation with the object's own value and version added to it.
appendSpecToHistory(obj) ==
  LET entries == Append(obj.history, Entry(obj))
  IN encodeHistory(SubSeq(entries, Max({1, Len(entries) - HistoryLimit + 1}), Len(entries)))

\* The annotation followed by the object itself.
readHistory(obj) == Append(obj.history, Entry(obj))

-----------------------------------------------------------------------------
(* Get and History, which only read: what they return.                      *)

\* Mutant of Get: a revision later than the latest is taken for the latest.
Get_future(rev) ==
  IF object = None THEN [code |-> "NotFound"]
  ELSE IF rev = Unset \/ (rev # Unset /\ rev >= object.rev)
  THEN [code |-> "OK", value |-> object.value, rev |-> object.rev]
  ELSE LET found == {e \in ToSet(object.history) : e.rev = rev}
       IN IF found # {} THEN [code |-> "OK", value |-> (CHOOSE e \in found : TRUE).value, rev |-> rev]
          ELSE [code |-> "NotFound"]

Get(rev) ==
  IF object = None THEN [code |-> "NotFound"]
  ELSE IF rev \in {Unset, object.rev}
  THEN [code |-> "OK", value |-> object.value, rev |-> object.rev]
  ELSE LET found == {e \in ToSet(object.history) : e.rev = rev}
       IN IF found # {} THEN [code |-> "OK", value |-> (CHOOSE e \in found : TRUE).value, rev |-> rev]
          ELSE [code |-> IF rev > object.rev THEN "OutOfRange" ELSE "NotFound"]

\* The entries up to the given revision, or all if there is none like it.
History(rev) ==
  LET entries == readHistory(object)
      at      == {i \in DOMAIN entries : entries[i].rev = rev}
  IN SubSeq(entries, 1, IF at = {} THEN Len(entries) ELSE Min(at))

-----------------------------------------------------------------------------
(* The API server writes: the log grows, and watches are told.              *)

Tell(type, obj) ==
  stream' = [w \in Watches |->
    IF watch[w].state \in {"initial", "loop"} /\ w \notin ended
    THEN Append(stream[w], [type |-> type, obj |-> obj]) ELSE stream[w]]

Unwatched == UNCHANGED <<watch, ended, pending, channel, got, due, cancelled>>

Store(history) ==
  LET obj == [rev |-> version + 1, value |-> version + 1, history |-> history] IN
  /\ version' = version + 1
  /\ object' = obj
  /\ log' = Append(log, [delete |-> FALSE, rev |-> version + 1, value |-> version + 1,
                         prev |-> IF object = None THEN 0 ELSE object.rev])
  /\ Tell(IF object = None THEN "Added" ELSE "Modified", obj)
  /\ Unwatched

Vanish ==
  /\ version' = version + 1
  /\ object' = None
  /\ log' = Append(log, [delete |-> TRUE, rev |-> 0, value |-> object.value, prev |-> object.rev])
  /\ Tell("Deleted", [object EXCEPT !.rev = version + 1])
  /\ Unwatched

Refuse == UNCHANGED <<store, watching>>

-----------------------------------------------------------------------------
(* Put and Delete.                                                          *)

NoCall == [op |-> "none", rev |-> Unset, read |-> None]

Idle(c) == call[c].op = "none"

\* Callers do not name revisions that they cannot have been given.
Given(rev) == rev = Unset \/ rev \in 0..version

\* Put reads the object.  If there is one, and it is not to exist, that is
\* a conflict.
PutGet(c, rev) ==
  /\ Idle(c) /\ Given(rev) /\ version < MaxVersion
  /\ object = None \/ rev # 0
  /\ call' = [call EXCEPT ![c] = [op |-> "put", rev |-> rev, read |-> object]]
  /\ UNCHANGED <<store, watching>>

\* Mutant of Required: without a revision the update is unconditional.
Required_none(c) == IF call[c].rev = Unset THEN object.rev ELSE call[c].rev

\* The version an update is conditional on: SetResourceVersion of the option,
\* or else the version that was read.
Required(c) == IF call[c].rev = Unset THEN call[c].read.rev ELSE call[c].rev

\* No object was read: Create, which fails if there is one by now.
PutCreate(c) ==
  /\ call[c].op = "put" /\ call[c].read = None
  /\ IF object = None
     THEN version < MaxVersion /\ Store(<<>>)
     ELSE Refuse
  /\ call' = [call EXCEPT ![c] = NoCall]

\* Update with the history of the object that was read.
PutUpdate(c) ==
  /\ call[c].op = "put" /\ call[c].read # None
  /\ IF object # None /\ object.rev = Required(c)
     THEN version < MaxVersion /\ Store(appendSpecToHistory(call[c].read))
     ELSE Refuse
  /\ call' = [call EXCEPT ![c] = NoCall]

\* Delete reads the object, which must exist.  (At revision 0 it is always
\* refused.)
DeleteGet(c, rev) ==
  /\ Idle(c) /\ Given(rev) /\ version < MaxVersion
  /\ object # None
  /\ call' = [call EXCEPT ![c] = [op |-> "delete", rev |-> rev, read |-> None]]
  /\ UNCHANGED <<store, watching>>

\* The object is deleted by name, if it is at the given revision.
DeleteObject(c) ==
  /\ call[c].op = "delete"
  /\ IF object # None /\ call[c].rev \in {Unset, object.rev}
     THEN version < MaxVersion /\ Vanish
     ELSE Refuse
  /\ call' = [call EXCEPT ![c] = NoCall]

-----------------------------------------------------------------------------
(* Reference: what the log says the annotation holds, and where the events  *)
(* of a watch begin.                                                        *)

\* The put at index i is one of the newest that the limits of the annotation
\* allow before the last.
Fits(i) ==
  /\ Len(log) - i <= HistoryLimit
  /\ SizeOf(SubSeq(log, i, Len(log) - 1)) <= MaxAnnotationSize

\* The indices of the puts before the last that the object has kept: those
\* since it was created that fit, and all after which do.
Kept == {i \in 1..(Len(log) - 1) : \A j \in i..(Len(log) - 1) : ~log[j].delete /\ Fits(j)}

\* With a revision a watch begins with the oldest put kept that is not before
\* it, or else the last; without, with the last if it is not the one that
\* Watch knew of.  This is where the code begins, at the API server's watch:
\* if the object is deleted between Watch's two requests, it is past puts that
\* stores.go:72 says are not missed, and no property here tells.
FirstDue(w) ==
  IF object = None THEN Len(log) + 1
  ELSE IF watch[w].asked = Unset
  THEN IF object.rev = watch[w].latest THEN Len(log) + 1 ELSE Len(log)
  ELSE Min({i \in Kept : log[i].rev >= watch[w].asked} \cup {Len(log)})

-----------------------------------------------------------------------------
(* Watch.                                                                   *)

WatchGet(w, rev) ==
  /\ watch[w].state = "none" /\ Given(rev)
  /\ watch' = [watch EXCEPT ![w] =
       [state |-> "got", asked |-> rev, previous |-> 0,
        latest |-> IF object = None THEN 0 ELSE object.rev]]
  /\ UNCHANGED <<store, call, stream, ended, pending, channel, got, due, cancelled>>

\* The API server's watch begins with the object, if there is one.
WatchOpen(w) ==
  /\ watch[w].state = "got"
  /\ watch' = [watch EXCEPT ![w].state = "initial"]
  /\ stream' = [stream EXCEPT ![w] =
       IF object = None THEN <<>> ELSE <<[type |-> "Added", obj |-> object]>>]
  /\ due' = [due EXCEPT ![w] = FirstDue(w)]
  /\ UNCHANGED <<store, call, ended, pending, channel, got, cancelled>>

\* Mutant of SendsCurrent: the object is always sent.
SendsCurrent_always(w, obj) == TRUE

\* The revision option is set, or the object is not the one Watch knew of.
SendsCurrent(w, obj) == watch[w].asked # Unset \/ obj.rev # watch[w].latest

\* The events of the first object: those of its history that were asked for,
\* each with its predecessor, and that of the object.
InitialEvents(w, obj) ==
  LET entries == IF watch[w].asked = Unset THEN <<Entry(obj)>> ELSE readHistory(obj)
      n == Len(entries)
      event(i) == [delete |-> FALSE, rev |-> entries[i].rev, value |-> entries[i].value,
                   prev |-> IF i = 1 THEN 0 ELSE entries[i - 1].rev]
      replayed(i) == entries[i].rev < obj.rev /\ entries[i].rev >= watch[w].asked
      sent[i \in 0..(n - 1)] ==
        IF i = 0 THEN <<>>
        ELSE IF replayed(i) THEN Append(sent[i - 1], event(i)) ELSE sent[i - 1]
  IN sent[n - 1] \o IF SendsCurrent(w, obj) THEN <<event(n)>> ELSE <<>>

\* INITIAL.  The API server's first event is never a deletion.
Initial(w) ==
  LET obj == Head(stream[w]).obj IN
  /\ watch[w].state = "initial" /\ stream[w] # <<>>
  /\ pending' = [pending EXCEPT ![w] = InitialEvents(w, obj)]
  /\ watch' = [watch EXCEPT ![w].state = "loop", ![w].previous = obj.rev]
  /\ stream' = [stream EXCEPT ![w] = Tail(@)]
  /\ UNCHANGED <<store, call, ended, channel, got, due, cancelled>>

\* getPreviousRevisionSlow: the newest entry of the annotation.
PreviousRevisionSlow(obj) ==
  IF obj.history = <<>> THEN obj.rev ELSE Last(obj.history).rev

\* The event the loop makes of one of the API server's.
EventOf(w, e) ==
  IF e.type = "Deleted"
  THEN [delete |-> TRUE, rev |-> 0, value |-> e.obj.value,
        prev |-> IF watch[w].previous = 0 THEN PreviousRevisionSlow(e.obj)
                 ELSE watch[w].previous]
  ELSE [delete |-> FALSE, rev |-> e.obj.rev, value |-> e.obj.value, prev |-> watch[w].previous]

\* The loop reads an event, and remembers what is previous to the next.
Take(w) ==
  LET e == Head(stream[w]) IN
  /\ watch[w].state = "loop" /\ pending[w] = <<>> /\ stream[w] # <<>>
  /\ pending' = [pending EXCEPT ![w] = <<EventOf(w, e)>>]
  /\ watch' = [watch EXCEPT ![w].previous = IF e.type = "Deleted" THEN 0 ELSE e.obj.rev]
  /\ stream' = [stream EXCEPT ![w] = Tail(@)]
  /\ UNCHANGED <<store, call, ended, channel, got, due, cancelled>>

HasRoom(w) == Len(channel[w]) < ChannelCap

\* eventC <-, which does not look at the context.
Send(w) ==
  /\ pending[w] # <<>> /\ HasRoom(w)
  /\ channel' = [channel EXCEPT ![w] = Append(@, Head(pending[w]))]
  /\ pending' = [pending EXCEPT ![w] = Tail(@)]
  /\ UNCHANGED <<store, call, watch, stream, ended, got, due, cancelled>>

\* Mutant of Stops: the goroutine does not look at the context.
Stops_channel(w) == w \in ended /\ stream[w] = <<>>

\* The context is done, or the API server's channel is closed and empty.
Stops(w) == w \in cancelled \/ (w \in ended /\ stream[w] = <<>>)

Return(w) ==
  /\ watch[w].state \in {"initial", "loop"} /\ pending[w] = <<>> /\ Stops(w)
  /\ watch' = [watch EXCEPT ![w].state = "closed"]
  /\ UNCHANGED <<store, call, stream, ended, pending, channel, got, due, cancelled>>

Receive(w) ==
  /\ channel[w] # <<>>
  /\ got' = [got EXCEPT ![w] = Append(@, Head(channel[w]))]
  /\ channel' = [channel EXCEPT ![w] = Tail(@)]
  /\ UNCHANGED <<store, call, watch, stream, ended, pending, due, cancelled>>

Open(w) == watch[w].state \in {"initial", "loop"}

Cancel(w) ==
  /\ Open(w) /\ w \notin cancelled
  /\ cancelled' = cancelled \cup {w}
  /\ UNCHANGED <<store, call, watch, stream, ended, pending, channel, got, due>>

\* The API server ends a watch, as it does after some minutes.
EndStream(w) ==
  /\ Open(w) /\ w \notin ended \cup cancelled
  /\ ended' = ended \cup {w}
  /\ UNCHANGED <<store, call, watch, stream, pending, channel, got, due, cancelled>>

-----------------------------------------------------------------------------
Init ==
  /\ version = 0 /\ object = None /\ log = <<>>
  /\ call = [c \in Clients |-> NoCall]
  /\ watch = [w \in Watches |-> [state |-> "none", asked |-> Unset, previous |-> 0, latest |-> 0]]
  /\ stream = [w \in Watches |-> <<>>]
  /\ pending = [w \in Watches |-> <<>>]
  /\ channel = [w \in Watches |-> <<>>]
  /\ got = [w \in Watches |-> <<>>]
  /\ due = [w \in Watches |-> 1]
  /\ ended = {} /\ cancelled = {}

WatchStep ==
  \E w \in Watches :
    WatchOpen(w) \/ Initial(w) \/ Take(w) \/ Send(w) \/ Return(w) \/ Receive(w)

Next ==
  \/ \E c \in Clients, rev \in Asked : PutGet(c, rev)
  \/ \E c \in Clients, rev \in Asked \ {0} : DeleteGet(c, rev)
  \/ \E c \in Clients : PutCreate(c) \/ PutUpdate(c) \/ DeleteObject(c)
  \/ \E w \in Watches, rev \in Asked : WatchGet(w, rev)
  \/ \E w \in Watches : Cancel(w) \/ EndStream(w)
  \/ WatchStep

Spec == Init /\ [][Next]_vars

\* The goroutines of watches and their callers go on; clients need not.
FairSpec == Spec /\ WF_vars(WatchStep)

-----------------------------------------------------------------------------
(* Properties.                                                              *)

\* Every variable has its type; no channel and no annotation exceeds its limit.
TypeOK ==
  /\ version \in Revisions
  /\ object \in Objects \cup {None}
  /\ object # None => Len(object.history) <= HistoryLimit
  /\ log \in Seq(Events)
  /\ call \in [Clients -> [op : {"none", "put", "delete"},
                           rev : Revisions \cup {Unset}, read : Objects \cup {None}]]
  /\ watch \in [Watches -> [state : {"none", "got", "initial", "loop", "closed"},
                            asked : Revisions \cup {Unset}, previous : Revisions, latest : Revisions]]
  /\ stream \in [Watches -> Seq([type : {"Added", "Modified", "Deleted"}, obj : Objects])]
  /\ {pending, channel, got} \subseteq [Watches -> Seq(Events)]
  /\ \A w \in Watches : Len(channel[w]) <= ChannelCap
  /\ due \in [Watches -> Nat \ {0}]
  /\ ended \subseteq Watches /\ cancelled \subseteq Watches

\* However clients' requests interleave, the annotation holds the puts before
\* the last since the object was created, as many of the newest as fit: none is
\* missing and none is out of place.
HistoryIsLog ==
  object # None =>
    LET first == Len(log) - Len(object.history)
    IN /\ Kept = first..(Len(log) - 1)
       /\ readHistory(object) =
            [i \in 1..(Len(object.history) + 1) |->
               [rev |-> log[first - 1 + i].rev, value |-> log[first - 1 + i].value]]

\* Get returns what was put at a revision that is kept, and tells revisions of
\* the future from those that are not there; History up to a revision that is
\* kept ends with it.
ReadsServeLog ==
  LET puts == IF object = None THEN {} ELSE Kept \cup {Len(log)}
      answer(rev) ==
        IF \E i \in puts : log[i].rev = rev
        THEN [code |-> "OK", rev |-> rev,
              value |-> log[CHOOSE i \in puts : log[i].rev = rev].value]
        ELSE [code |-> IF object # None /\ rev > version THEN "OutOfRange" ELSE "NotFound"]
  IN /\ \A rev \in 0..(version + 1) : Get(rev) = answer(rev)
     /\ Get(Unset) = IF object = None THEN [code |-> "NotFound"] ELSE answer(log[Len(log)].rev)
     /\ \A i \in puts :
          {e.rev : e \in ToSet(History(log[i].rev))} = {log[j].rev : j \in {j \in puts : j <= i}}

\* The events of a watch are the log's, from where they are due on and without
\* a gap, each with the revision it replaces; the first may come without.
WatchIsRun ==
  \A w \in Watches : watch[w].state \in {"initial", "loop", "closed"} =>
    LET seen == got[w] \o channel[w] \o pending[w]
        n    == due[w] + Len(seen) - 1
    IN /\ n <= Len(log)
       /\ \A i \in DOMAIN seen :
            LET l == log[due[w] + i - 1]
            IN seen[i] = l \/ (i = 1 /\ seen[i] = [l EXCEPT !.prev = 0])
       /\ watch[w].state # "closed" /\ stream[w] = <<>> /\ w \notin ended => n = Len(log)

\* options.go:35, "Put only if the latest Revision matches": a put with a
\* revision takes place only while the object is at that revision.  (It does
\* not hold: Create looks at no revision, so that the put of an object that has
\* been deleted creates it anew.)
PutOnlyIfMatches ==
  [][\A c \in Clients :
       log' # log /\ call'[c] # call[c] /\ call[c].op = "put" /\ call[c].rev \notin {0, Unset} =>
         object # None /\ object.rev = call[c].rev]_vars

\* A watch whose context is cancelled is closed, with or without events left to
\* send, and the caller of one that goes on receives every event, however it
\* began.  (Nothing is said of a watch that the API server ends: its channel is
\* closed then, although stores.go:59 promises events until the context is
\* cancelled.)
WatchesSettle ==
  <>[](\A w \in Watches :
         IF w \in cancelled THEN watch[w].state = "closed"
         ELSE w \notin ended /\ watch[w].state # "none" => due[w] + Len(got[w]) - 1 = Len(log))

-----------------------------------------------------------------------------
(* The inductive invariant of the proofs.                                   *)

\* The revision that a write at index i replaces, if there is one.
PutBefore(i) == IF i > 1 /\ ~log[i - 1].delete THEN i - 1 ELSE 0

\* The log's indices are the versions, and its deletions are of what was put
\* just before.
LogOK ==
  /\ version = Len(log)
  /\ \A i \in 1..Len(log) :
       /\ log[i].delete => PutBefore(i) # 0
       /\ log[i] = [delete |-> log[i].delete, prev |-> PutBefore(i),
                    rev |-> IF log[i].delete THEN 0 ELSE i,
                    value |-> IF log[i].delete THEN i - 1 ELSE i]

\* The object exists if the last write was a put, and is at its version.
ObjectOK ==
  /\ object = None => PutBefore(Len(log) + 1) = 0
  /\ object # None => PutBefore(Len(log) + 1) = object.rev /\ object.rev # 0

\* What a Put has read is the object for as long as its version is the
\* object's, and is not older than the revision that was asked for.
CallOK(c) ==
  LET read == call[c].read IN
  read # None =>
    /\ read.rev <= version
    /\ call[c].rev # Unset => call[c].rev <= read.rev
    /\ object # None /\ object.rev = read.rev => object = read

Seen(w) == got[w] \o channel[w] \o pending[w]

\* Where in the log the first event lies that the goroutine has not read.
Position(w) == due[w] + Len(Seen(w))

\* The API server's events that are to be read are those of the log from index
\* i on, to its end if the API server has not ended the watch.
StreamFrom(w, i) ==
  LET end == i + Len(stream[w]) - 1 IN
  /\ end <= Len(log) /\ (w \notin ended => end = Len(log))
  /\ \A k \in 1..Len(stream[w]) :
       LET e == stream[w][k]
           l == log[i + k - 1]
       IN /\ (e.type = "Deleted") <=> l.delete
          /\ e.obj.rev = i + k - 1 /\ e.obj.value = l.value

\* The first object holds the events that the watch owes for it.
FirstObject(w, obj) ==
  LET n == Len(obj.history)
      oldest == obj.rev - n
      asked == watch[w].asked
  IN /\ oldest >= 1 /\ \A i \in oldest..obj.rev : ~log[i].delete
     /\ obj.history = [i \in 1..n |-> [rev |-> oldest + i - 1, value |-> oldest + i - 1]]
     /\ IF asked = Unset
        THEN due[w] = IF obj.rev = watch[w].latest THEN obj.rev + 1 ELSE obj.rev
        ELSE asked <= obj.rev /\ due[w] = IF asked <= oldest THEN oldest ELSE asked

\* The events a watch has made are those of the log from where they are due.
SeenOK(w) ==
  /\ Position(w) <= Len(log) + 1
  /\ \A i \in 1..Len(Seen(w)) :
       LET l == log[due[w] + i - 1]
       IN Seen(w)[i] = l \/ (i = 1 /\ Seen(w)[i] = [l EXCEPT !.prev = 0])

\* A watch that has yet to read the first object knows which it will be.
InitialOK(w) ==
  IF stream[w] = <<>> THEN w \notin ended => object = None /\ due[w] = Len(log) + 1
  ELSE LET first == Head(stream[w])
       IN first.type # "Deleted" /\ StreamFrom(w, first.obj.rev) /\ FirstObject(w, first.obj)

WatchOK(w) ==
  /\ watch[w].latest <= Len(log)
  /\ watch[w].asked # Unset => watch[w].asked <= Len(log)
  /\ watch[w].state \in {"none", "got", "initial"} => Seen(w) = <<>>
  /\ watch[w].state \in {"none", "got"} => stream[w] = <<>>
  /\ watch[w].state = "initial" => InitialOK(w)
  /\ watch[w].state = "loop" =>
       StreamFrom(w, Position(w)) /\ watch[w].previous = PutBefore(Position(w))
  /\ watch[w].state \notin {"none", "got"} => SeenOK(w)

Inductive ==
  /\ TypeOK /\ LogOK /\ ObjectOK /\ HistoryIsLog
  /\ \A c \in Clients : CallOK(c)
  /\ \A w \in Watches : WatchOK(w)
=============================================================================
