-------------------------------- MODULE Etcd --------------------------------
(***************************************************************************)
(* The etcd driver, storage/drivers/etcd/kv_store.go, against etcd as the  *)
(* driver uses it: one sequence of writes, whose index is the revision,    *)
(* read and watched from any revision.  A transaction or request is one    *)
(* step; Watch and History, which make two requests, are two or more.      *)
(* Values are identified by the revision that wrote them.  etcd is not     *)
(* compacted, and requests do not fail.  Leases are left out, and with     *)
(* them the choice between the two puts of Put's transaction, as are the   *)
(* previous values that events of Watch carry.                             *)
(***************************************************************************)
EXTENDS Integers, Sequences, FiniteSetsExt

CONSTANTS
  Keys,
  Calls,        \* calls of Watch or of History, each made once
  Requests,     \* what Watch is asked for: `keys' are the keys to be watched and
                \*   `extending' the keys that have the request's as a prefix
  Revisions,    \* the Revision options of callers
  Cancellable,  \* the calls whose context may be cancelled
  ChannelCap,   \* make(chan ..., 64)
  MaxRevision,  \* bound of the model: writes to etcd
  Unset         \* an option's Revision that is nil

ASSUME InputsAssumption ==
  /\ \A q \in Requests : q.keys \subseteq q.extending /\ q.extending \subseteq Keys
  /\ Unset \notin Int /\ Revisions \subseteq Nat \cup {Unset}
  /\ Cancellable \subseteq Calls
  /\ ChannelCap \in Nat \ {0} /\ MaxRevision \in Nat

VARIABLES
  writes,     \* etcd's writes in order: their keys, and whether they delete
  watch,      \* per call, if of Watch: its state, request and first revision
  next,       \* the next revision etcd is to send it
  batch,      \* the revisions its goroutine has still to pass on
  channel,    \* the revisions in eventC
  view,       \* history: per call and key, the revision its caller knows of
  call,       \* per call, if of History: its state and results
  cancelled   \* the calls whose context is done

watching == <<watch, next, batch, channel, view>>
vars == <<writes, watching, call, cancelled>>

-----------------------------------------------------------------------------
(* etcd.                                                                    *)

Now == Len(writes)

\* The last write to a key up to a revision, 0 if there is none.
LastWrite(k, rev) ==
  Max({0} \cup {r \in 1..rev : writes[r].key = k})

\* The ModRevision of a key at a revision, 0 if it does not exist.
ModRevision(k, rev) ==
  LET r == LastWrite(k, rev)
  IN IF r # 0 /\ ~writes[r].delete THEN r ELSE 0

Live(k) == ModRevision(k, Now) # 0

\* Its CreateRevision: the put since which it has existed.
IsCreate(k, rev, r) ==
  /\ writes[r].key = k /\ ModRevision(k, r - 1) = 0
  /\ \A s \in r..rev : ModRevision(k, s) # 0

CreateRevision(k, rev) == CHOOSE r \in 1..rev : IsCreate(k, rev, r)

\* The revisions in from..to that a watch on keys is sent, the lowest first.
Events(keys, from, to) == {r \in from..to : writes[r].key \in keys}

Write(k, delete) ==
  /\ Now < MaxRevision
  /\ writes' = Append(writes, [key |-> k, delete |-> delete])

-----------------------------------------------------------------------------
(* Put and Delete.                                                          *)

\* The comparisons of Put: the key is at the revision, or does not exist.
Comparisons(k, rev) ==
  \/ rev = Unset
  \/ rev # Unset /\ rev > 0 /\ ModRevision(k, Now) = rev
  \/ rev = 0 /\ ~Live(k)

\* Put, if its comparisons hold: with the key's lease or without.
Put(k, rev) ==
  /\ Comparisons(k, rev) /\ Write(k, FALSE)
  /\ UNCHANGED <<watching, call, cancelled>>

\* Delete of a key that exists; at revision 0 it finds nothing to delete.
Delete(k, rev) ==
  /\ Live(k) /\ rev \in {Unset, ModRevision(k, Now)}
  /\ Write(k, TRUE)
  /\ UNCHANGED <<watching, call, cancelled>>

\* The keys ListKeys returns for a prefix.
ListKeys(extending) == {k \in extending : Live(k)}

-----------------------------------------------------------------------------
(* Watch.                                                                   *)

\* Mutant of FirstCreate: the key that was created last.
FirstCreate_last(extending) ==
  LET created == {CreateRevision(k, Now) : k \in ListKeys(extending)}
  IN IF created = {} THEN 0 ELSE Max(created)

\* Get WithFirstCreate, which always asks for the keys under a prefix.
FirstCreate(extending) ==
  LET created == {CreateRevision(k, Now) : k \in ListKeys(extending)}
  IN IF created = {} THEN 0 ELSE Min(created)

\* Revision 0 becomes the CreateRevision that Get finds, if any.  Callers do
\* not ask for revisions they cannot have seen.
WatchGet(w, q, rev) ==
  /\ watch[w].state = "none" /\ call[w].state = "none"
  /\ rev \in {0, Unset} \cup 1..Now
  /\ watch' = [watch EXCEPT ![w] =
       [state |-> "got", keys |-> q.keys, asked |-> rev,
        first |-> IF rev = 0 THEN FirstCreate(q.extending) ELSE rev]]
  /\ UNCHANGED <<writes, next, batch, channel, view, call, cancelled>>

\* client.Watch: from the revision, or from now on if it is 0 or nil.
\* The caller knows nothing at revision 0, otherwise what it starts from.
WatchOpen(w) ==
  LET first == IF watch[w].first \in {0, Unset} THEN Now + 1 ELSE watch[w].first
  IN
  /\ watch[w].state = "got"
  /\ watch' = [watch EXCEPT ![w].state = "open"]
  /\ next' = [next EXCEPT ![w] = first]
  /\ view' = [view EXCEPT ![w] =
       [k \in Keys |-> IF watch[w].asked = 0 THEN 0 ELSE ModRevision(k, first - 1)]]
  /\ UNCHANGED <<writes, batch, channel, call, cancelled>>

\* The goroutine reads a response of etcd's, with one event or more.
Take(w) ==
  /\ watch[w].state = "open" /\ batch[w] = {}
  /\ \E to \in next[w]..Now :
       /\ writes[to].key \in watch[w].keys
       /\ batch' = [batch EXCEPT ![w] = Events(watch[w].keys, next[w], to)]
       /\ next' = [next EXCEPT ![w] = to + 1]
  /\ UNCHANGED <<writes, watch, channel, view, call, cancelled>>

HasRoom(w) == Len(channel[w]) < ChannelCap

\* It passes the events on one by one, in their order, without looking at the context.
Send(w) ==
  /\ batch[w] # {} /\ HasRoom(w)
  /\ channel' = [channel EXCEPT ![w] = Append(@, Min(batch[w]))]
  /\ batch' = [batch EXCEPT ![w] = @ \ {Min(@)}]
  /\ UNCHANGED <<writes, watch, next, view, call, cancelled>>

\* Its context is done, and etcd's channel closed: close(eventC).
Return(w) ==
  /\ w \in cancelled
  /\ watch[w].state = "open" /\ batch[w] = {}
  /\ watch' = [watch EXCEPT ![w].state = "closed"]
  /\ UNCHANGED <<writes, next, batch, channel, view, call, cancelled>>

\* The caller reads an event: a put has a current revision, a delete none.
Receive(w) ==
  LET r == Head(channel[w]) IN
  /\ channel[w] # <<>>
  /\ view' = [view EXCEPT ![w][writes[r].key] = IF writes[r].delete THEN 0 ELSE r]
  /\ channel' = [channel EXCEPT ![w] = Tail(@)]
  /\ UNCHANGED <<writes, watch, next, batch, call, cancelled>>

-----------------------------------------------------------------------------
(* History.                                                                 *)

\* Mutant of FirstOfHistory: from the key's first revision.
FirstOfHistory_ever(k, rev) == 1

\* Where History begins: the key's createRev.
FirstOfHistory(k, rev) == CreateRevision(k, rev)

\* Get of the key, at a revision if one is given; it may not be a later one.
HistoryGet(h, k, rev) ==
  LET at == IF rev \in {0, Unset} THEN Now ELSE rev IN
  /\ watch[h].state = "none" /\ call[h].state = "none"
  /\ at <= Now /\ ModRevision(k, at) # 0
  /\ call' = [call EXCEPT ![h] =
       [state |-> "reading", key |-> k, at |-> at, next |-> FirstOfHistory(k, at),
        latest |-> ModRevision(k, at), revs |-> <<>>]]
  /\ UNCHANGED <<writes, watching, cancelled>>

\* Mutant of IsLast: the revision of the response, not that of the key.
IsLast_header(h, r) == r = call[h].at

\* The entry is at latestModRev.
IsLast(h, r) == r = call[h].latest

\* History reads an event of its watch; puts become entries.
HistoryRead(h) ==
  /\ call[h].state = "reading"
  /\ call[h].next <= Now
  /\ LET r    == call[h].next
         put  == writes[r].key = call[h].key /\ ~writes[r].delete
     IN call' = [call EXCEPT ![h].next = r + 1,
                             ![h].revs = IF put THEN Append(@, r) ELSE @,
                             ![h].state = IF put /\ IsLast(h, r) THEN "done" ELSE @]
  /\ UNCHANGED <<writes, watching, cancelled>>

\* Its context is done: it fails, or sees the closed channel first and
\* returns the entries it has.
HistoryCut(h) ==
  /\ h \in cancelled /\ call[h].state = "reading"
  /\ \E s \in {"failed", "cut"} : call' = [call EXCEPT ![h].state = s]
  /\ UNCHANGED <<writes, watching, cancelled>>

Cancel(c) ==
  /\ c \in Cancellable \ cancelled
  /\ watch[c].state = "open" \/ call[c].state = "reading"
  /\ cancelled' = cancelled \cup {c}
  /\ UNCHANGED <<writes, watching, call>>

-----------------------------------------------------------------------------
Init ==
  /\ writes = <<>>
  /\ watch = [w \in Calls |-> [state |-> "none", keys |-> {}, asked |-> Unset, first |-> Unset]]
  /\ next = [w \in Calls |-> 0]
  /\ batch = [w \in Calls |-> {}]
  /\ channel = [w \in Calls |-> <<>>]
  /\ view = [w \in Calls |-> [k \in Keys |-> 0]]
  /\ call = [h \in Calls |-> [state |-> "none", key |-> Unset, at |-> 0,
                                  next |-> 0, latest |-> 0, revs |-> <<>>]]
  /\ cancelled = {}

SystemStep ==
  \/ \E w \in Calls : WatchOpen(w) \/ Take(w) \/ Send(w) \/ Return(w) \/ Receive(w)
  \/ \E h \in Calls : HistoryRead(h) \/ HistoryCut(h)

Next ==
  \/ \E k \in Keys, rev \in Revisions : Put(k, rev) \/ Delete(k, rev)
  \/ \E w \in Calls, q \in Requests, rev \in Revisions : WatchGet(w, q, rev)
  \/ \E h \in Calls, k \in Keys, rev \in Revisions : HistoryGet(h, k, rev)
  \/ \E c \in Cancellable : Cancel(c)
  \/ SystemStep

Spec == Init /\ [][Next]_vars

FairSpec == Spec /\ WF_vars(SystemStep)

-----------------------------------------------------------------------------
(* Properties.                                                              *)

\* Every variable has its type and no channel exceeds its capacity.
TypeOK ==
  /\ writes \in Seq([key : Keys, delete : BOOLEAN])
  /\ watch \in [Calls -> [state : {"none", "got", "open", "closed"}, keys : SUBSET Keys,
                            asked : Nat \cup {Unset}, first : Nat \cup {Unset}]]
  /\ next \in [Calls -> Nat]
  /\ batch \in [Calls -> SUBSET (Nat \ {0})]
  /\ channel \in [Calls -> Seq(Nat \ {0})]
  /\ \A w \in Calls : Len(channel[w]) <= ChannelCap
  /\ view \in [Calls -> [Keys -> Nat]]
  /\ call \in [Calls -> [state : {"none", "reading", "done", "failed", "cut"},
                             key : Keys \cup {Unset}, at : Nat, next : Nat, latest : Nat,
                             revs : Seq(Nat \ {0})]]
  /\ cancelled \subseteq Cancellable

\* A sequence of revisions is in order, each once.
Ascending(s) == \A i, j \in 1..Len(s) : i < j => s[i] < s[j]

\* A watch has started where its caller can rebuild the keys from: it asked
\* for no revision or for one, or for revision 0 and a key was found.
Grounded(w) == watch[w].asked # 0 \/ watch[w].first # 0

\* Specifying a starting revision ensures no events are missed: what a caller
\* knows, brought up to date with the events on their way to it, is the
\* present revision of every key it watches, although the first revision was
\* found by an earlier request.  (Not if revision 0 was asked for and no key
\* was found: the keys created before the watch is opened are missed.)
RebuildsState ==
  \A w \in Calls : watch[w].state = "open" /\ Grounded(w) =>
    /\ Ascending(channel[w])
    /\ \A k \in watch[w].keys :
         LET coming == {r \in Range(channel[w]) \cup batch[w] \cup next[w]..Now :
                          writes[r].key = k}
         IN ModRevision(k, Now) =
              IF coming = {} THEN view[w][k]
              ELSE IF writes[Max(coming)].delete THEN 0 ELSE Max(coming)

\* The history contains all revisions of the key from the most recent
\* creation before the specified revision to the last one at it, whatever is
\* written and deleted while it is read.
HistoryIsRun ==
  \A h \in Calls : call[h].state = "done" =>
    LET k   == call[h].key
        run == {r \in 1..call[h].at : /\ writes[r].key = k
                                      /\ \A s \in r..call[h].at : ModRevision(k, s) # 0}
    IN Ascending(call[h].revs) /\ Range(call[h].revs) = run

\* Every call of History returns: the entry it stops at always arrives.
HistoryReturns ==
  <>[](\A h \in Calls : call[h].state # "reading")

\* After its context is cancelled, a watch's channel is closed.
CancelledClose == \A w \in Calls : w \in cancelled ~> watch[w].state # "open"

\* Calls end: History by itself, a watch when it is cancelled.
CallsEnd == HistoryReturns /\ CancelledClose
-----------------------------------------------------------------------------
(* The inductive invariant from which the proofs start.                     *)

\* The revision from which on events are on their way to a watch's caller.
First(w) ==
  IF channel[w] # <<>> THEN channel[w][1]
  ELSE IF batch[w] # {} THEN Min(batch[w]) ELSE next[w]

\* The events on their way are those of the watched keys that etcd has sent
\* from there on, in order.
StreamOK(w) ==
  /\ next[w] <= Now + 1
  /\ Ascending(channel[w])
  /\ \A r \in Range(channel[w]), s \in batch[w] : r < s
  /\ Range(channel[w]) \cup batch[w] = Events(watch[w].keys, First(w), next[w] - 1)
  /\ watch[w].state \in {"none", "got"} => channel[w] = <<>> /\ batch[w] = {}
  /\ watch[w].state \in {"open", "closed"} => next[w] # 0

\* What a caller that reads from a revision on has to know before: revision v
\* of a key, if no write of the key is to come.
Suffices(k, v, from) ==
  v = ModRevision(k, from - 1) \/ \E r \in from..Now : writes[r].key = k

\* The first revision that Watch found is one from which a caller that knows
\* nothing can rebuild the keys, whatever is written before it is used.
FoundOK(w) ==
  watch[w].state = "got" =>
    IF watch[w].asked # 0 THEN watch[w].first = watch[w].asked /\ watch[w].asked \in {Unset} \cup 1..Now
    ELSE watch[w].first # 0 =>
           watch[w].first \in 1..Now /\ \A k \in watch[w].keys : Suffices(k, 0, watch[w].first)

\* The caller of an open watch knows what it has to.
KnownOK(w) ==
  watch[w].state = "open" /\ Grounded(w) =>
    \A k \in watch[w].keys : Suffices(k, view[w][k], First(w))

\* A call of History that has not been cut off has the puts since the key's
\* creation, as far as it has read.
HistoryOK(h) ==
  LET c == call[h] IN
  c.state \in {"reading", "done"} =>
    /\ c.key \in Keys /\ c.at \in 1..Now
    /\ c.latest = ModRevision(c.key, c.at) /\ c.latest # 0
    /\ Ascending(c.revs)
    /\ \E first \in 1..c.at :
         /\ IsCreate(c.key, c.at, first) /\ first <= c.next
         /\ Range(c.revs) = Events({c.key}, first, c.next - 1)
    /\ IF c.state = "reading" THEN c.next <= c.latest ELSE c.next = c.latest + 1

Inductive ==
  /\ TypeOK
  /\ \A w \in Calls : StreamOK(w) /\ FoundOK(w) /\ KnownOK(w) /\ HistoryOK(w)
=============================================================================
