------------------------------ MODULE WatchLog ------------------------------
(***************************************************************************)
(* What a value store promises to its watchers, with no locks, channels,   *)
(* goroutines or ring: the store is an ever growing log of writes, one per *)
(* revision, and each watch reads that log in order from a starting        *)
(* revision.  A watch may lose one event (the consumer did not read in     *)
(* time), after which it ends; a watch that ended still delivers the       *)
(* events it had accepted.                                                 *)
(***************************************************************************)
EXTENDS Integers, Sequences

CONSTANT Watchers

VARIABLES
  log,       \* log[r]: "Put" or "Delete", the write that made revision r
  status,    \* per watch: "none", "open" or "ended"
  position,  \* the next position of its stream a watch will deliver
  gap,       \* the revision a watch lost, 0 if none
  end,       \* the last revision of an ended watch
  received   \* the event a watch delivered last

vars == <<log, status, position, gap, end, received>>

NoEvent == [type |-> "None", current |-> 0, previous |-> 0]

\* The key exists at revision r.
LiveAt(l, r) == r \in 1..Len(l) /\ l[r] = "Put"

\* The event of revision r: Previous is set iff the key existed just before.
EventAt(l, r) ==
  [type     |-> l[r],
   current  |-> IF l[r] = "Put" THEN r ELSE 0,
   previous |-> IF LiveAt(l, r - 1) THEN r - 1 ELSE 0]

\* The revision at position p of a stream that lost revision g (0: none).
RevisionAt(g, p) == IF g # 0 /\ p >= g THEN p + 1 ELSE p

Init ==
  /\ log = <<>>
  /\ status = [x \in Watchers |-> "none"]
  /\ position = [x \in Watchers |-> 0]
  /\ gap = [x \in Watchers |-> 0]
  /\ end = [x \in Watchers |-> 0]
  /\ received = [x \in Watchers |-> NoEvent]

Put ==
  /\ log' = Append(log, "Put")
  /\ UNCHANGED <<status, position, gap, end, received>>

\* Only an existing key can be deleted.
Delete ==
  /\ LiveAt(log, Len(log))
  /\ log' = Append(log, "Delete")
  /\ UNCHANGED <<status, position, gap, end, received>>

\* A watch starts at an existing revision, or just after the newest one.
Watch(x) ==
  /\ status[x] = "none"
  /\ \E r \in 1..Len(log) + 1 :
       /\ r <= Len(log) => LiveAt(log, r)
       /\ position' = [position EXCEPT ![x] = r]
  /\ status' = [status EXCEPT ![x] = "open"]
  /\ UNCHANGED <<log, gap, end, received>>

Deliver(x) ==
  LET r == RevisionAt(gap[x], position[x]) IN
  /\ \/ status[x] = "open" /\ r <= Len(log)
     \/ status[x] = "ended" /\ r <= end[x]
  /\ received' = [received EXCEPT ![x] = EventAt(log, r)]
  /\ position' = [position EXCEPT ![x] = @ + 1]
  /\ UNCHANGED <<log, status, gap, end>>

\* At most one event of a watch is ever lost.
Lose(x) ==
  /\ status[x] = "open" /\ gap[x] = 0
  /\ \E r \in position[x]..Len(log) : gap' = [gap EXCEPT ![x] = r]
  /\ UNCHANGED <<log, status, position, end, received>>

\* Watches end together when one unlock lets several of them go.
End ==
  /\ \E ending \in SUBSET {x \in Watchers : status[x] = "open"} :
       /\ ending # {}
       /\ status' = [x \in Watchers |-> IF x \in ending THEN "ended" ELSE status[x]]
       /\ end' = [x \in Watchers |-> IF x \in ending THEN Len(log) ELSE end[x]]
  /\ UNCHANGED <<log, position, gap, received>>

Next ==
  \/ Put
  \/ Delete
  \/ \E x \in Watchers : Watch(x) \/ Deliver(x) \/ Lose(x)
  \/ End

Spec == Init /\ [][Next]_vars
=============================================================================
