------------------------------ MODULE Messages ------------------------------
(***************************************************************************)
(* The operations on messages that configs are built with: the merge of    *)
(* util/merge/merge.go and the field masks of util/fieldmask (masks.go,    *)
(* diff.go).  A message is a function from its populated fields; a list or *)
(* map is populated if it has elements, a nested message also without any. *)
(*                                                                         *)
(* A path is a sequence of field names and a mask a set of paths.  The     *)
(* code looks masks up by the text of a path: NameBegins tells which field *)
(* names begin with another field's name.  Oneofs, of which a merge clears *)
(* all members but one, and unknown fields are left out.                   *)
(***************************************************************************)
EXTENDS Integers, Sequences, FiniteSets

CONSTANTS
  Schema,      \* per message type and field: its kind, and type if a message
  Root,        \* the type of configs
  NameBegins,  \* the pairs of names of which the first begins the second
  Sources,     \* the messages that are merged into the config
  Options,     \* the MergeOptions: whether lists and maps are replaced
  MaskPaths,   \* the paths of the masks
  MaskSize,    \* bound of the model: paths of a mask
  MaxList,     \* bound of the model: length of a list
  MaxFields,   \* bound of the model: fields that are populated at once
  Absent       \* what is read at a path that is not populated

VARIABLES
  msg,   \* a message
  call   \* the call that made it: operation, message before it, argument

vars == <<msg, call>>

Empty == [f \in {} |-> Absent]

Kind(type, f) == Schema[type][f].kind

\* The fields that field masks descend into: not lists or maps of messages.
IsMessage(type, f) == Kind(type, f) = "message"

Nested(type, f) == Schema[type][f].type

Below(f, paths) == {<<f>> \o p : p \in paths}

-----------------------------------------------------------------------------
(* merge.go.                                                                *)

MergeMap(o, dst, src) ==
  IF o.maps THEN src
  ELSE [k \in DOMAIN dst \cup DOMAIN src |-> IF k \in DOMAIN src THEN src[k] ELSE dst[k]]

MergeList(o, dst, src) == IF o.lists THEN src ELSE dst \o src

\* Mutant of SetsZero: durations are merged like other messages.
SetsZero_never(o, type, src) == FALSE

\* A duration or timestamp of zero replaces another one.  Without options the
\* protobuf library merges, and it does not.
SetsZero(o, type, src) ==
  (o.lists \/ o.maps) /\ type \in {"Duration", "Timestamp"} /\ DOMAIN src = {}

RECURSIVE MergeMessage(_, _, _, _)
MergeMessage(o, type, dst, src) ==
  LET Mutable(f, new) == IF f \in DOMAIN dst THEN dst[f] ELSE new
      Merged(f) ==
        CASE Kind(type, f) = "list" -> MergeList(o, Mutable(f, <<>>), src[f])
          [] Kind(type, f) = "map" -> MergeMap(o, Mutable(f, Empty), src[f])
          [] IsMessage(type, f) ->
               MergeMessage(o, Nested(type, f), Mutable(f, Empty), src[f])
          [] OTHER -> src[f]
  IN IF SetsZero(o, type, src) THEN Empty
     ELSE [f \in DOMAIN dst \cup DOMAIN src |->
             IF f \in DOMAIN src THEN Merged(f) ELSE dst[f]]

MergeWithReplace(dst, src) ==
  MergeMessage([lists |-> TRUE, maps |-> TRUE], Root, dst, src)

-----------------------------------------------------------------------------
(* masks.go and diff.go.                                                    *)

\* The text of path p begins with the text of path q.
TextBegins(p, q) ==
  LET n == Len(q) IN
  /\ n <= Len(p) /\ \A i \in 1..(n - 1) : p[i] = q[i]
  /\ q[n] = p[n] \/ <<q[n], p[n]>> \in NameBegins

\* The mask has the path, or a path it is a prefix of.
HasFieldOrPrefix(mask, path) == \E p \in mask : TextBegins(p, path)

HasExactField(mask, path) == path \in mask

\* Removes the paths that another path of the mask covers.
Normalize(mask) ==
  {p \in mask : \A n \in 1..(Len(p) - 1) : SubSeq(p, 1, n) \notin mask}

RECURSIVE PresentFields(_, _)
PresentFields(type, m) ==
  UNION {IF IsMessage(type, f) THEN Below(f, PresentFields(Nested(type, f), m[f]))
         ELSE {<<f>>} : f \in DOMAIN m}

\* Mutant of NestedAbsentFields: the fields that are there.
NestedAbsentFields_present(type, m) == PresentFields(type, m)

RECURSIVE NestedAbsentFields(_, _)
NestedAbsentFields(type, m) ==
  {<<f>> : f \in DOMAIN Schema[type] \ DOMAIN m} \cup
  UNION {Below(f, NestedAbsentFields(Nested(type, f), m[f])) :
           f \in {g \in DOMAIN m : IsMessage(type, g)}}

RECURSIVE DescriptorFields(_)
DescriptorFields(type) ==
  UNION {IF IsMessage(type, f) THEN Below(f, DescriptorFields(Nested(type, f)))
         ELSE {<<f>>} : f \in DOMAIN Schema[type]}

ByPresence(m) == Normalize(PresentFields(Root, m))
ByAbsence(m)  == Normalize(NestedAbsentFields(Root, m))
AllFields     == Normalize(DescriptorFields(Root))

\* A nested message of which nothing is kept is cleared.
RECURSIVE Keep(_, _, _, _)
Keep(type, m, prefix, mask) ==
  LET Path(f)  == Append(prefix, f)
      Whole(f) == ~IsMessage(type, f) \/ HasExactField(mask, Path(f))
      Inner(f) == Keep(Nested(type, f), m[f], Path(f), mask)
      Kept(f)  == HasFieldOrPrefix(mask, Path(f)) /\ (Whole(f) \/ Inner(f) # Empty)
  IN [f \in {g \in DOMAIN m : Kept(g)} |-> IF Whole(f) THEN m[f] ELSE Inner(f)]

\* The nil mask, which is not the empty one (no field has the empty path).
NilMask == {<<>>}

ExclusiveKeep(m, mask) == IF mask = NilMask THEN m ELSE Keep(Root, m, <<>>, mask)

\* Mutant of Discard: what remains of a nested message is cleared too.
Discard_whole(type, m, prefix, mask) ==
  [f \in {g \in DOMAIN m : ~HasFieldOrPrefix(mask, Append(prefix, g))} |-> m[f]]

RECURSIVE Discard(_, _, _, _)
Discard(type, m, prefix, mask) ==
  LET Path(f)  == Append(prefix, f)
      Named(f) == HasFieldOrPrefix(mask, Path(f))
      Inner(f) == Discard(Nested(type, f), m[f], Path(f), mask)
      Part(f)  == /\ IsMessage(type, f) /\ ~HasExactField(mask, Path(f))
                  /\ Inner(f) # Empty
  IN [f \in {g \in DOMAIN m : ~Named(g) \/ Part(g)} |->
        IF Named(f) THEN Inner(f) ELSE m[f]]

ExclusiveDiscard(m, mask) == IF mask = NilMask THEN m ELSE Discard(Root, m, <<>>, mask)

IsLeaf(type, f) == ~IsMessage(type, f)

\* A part of a path that is no field of the message reached is skipped.
RECURSIVE EndsInLeaf(_, _)
EndsInLeaf(type, path) ==
  /\ path # <<>>
  /\ LET f == Head(path) IN
     CASE f \notin DOMAIN Schema[type] -> EndsInLeaf(type, Tail(path))
       [] IsMessage(type, f) -> EndsInLeaf(Nested(type, f), Tail(path))
       [] IsLeaf(type, f) /\ Len(path) = 1 -> TRUE
       [] OTHER -> EndsInLeaf(type, Tail(path))

Leaves(mask) == {p \in mask : EndsInLeaf(Root, p)}

\* Mutant of AddedOrRemoved: only the field itself.
AddedOrRemoved_only(f, nested) == {<<f>>}

AddedOrRemoved(f, nested) == {<<f>>} \cup Below(f, nested)

RECURSIVE DiffFields(_, _, _)
DiffFields(type, old, new) ==
  LET Value(m, f) == IF f \in DOMAIN m THEN m[f] ELSE Empty
      Inner(f) == IF IsMessage(type, f)
                  THEN DiffFields(Nested(type, f), Value(old, f), Value(new, f))
                  ELSE {}
      Changed(f) == IF IsMessage(type, f) THEN Inner(f) # {} ELSE old[f] # new[f]
      In(f) == IF f \in DOMAIN old \cap DOMAIN new
               THEN IF Changed(f) THEN {<<f>>} \cup Below(f, Inner(f)) ELSE {}
               ELSE AddedOrRemoved(f, Inner(f))
  IN UNION {In(f) : f \in DOMAIN old \cup DOMAIN new}

Diff(old, new) == DiffFields(Root, old, new)

-----------------------------------------------------------------------------
(* A message that is edited call by call.                                   *)

Masks == {NilMask} \cup {P \in SUBSET MaskPaths : Cardinality(P) <= MaskSize}

NoCall == [op |-> "none"]

CallMerge ==
  /\ call = NoCall
  /\ \E src \in Sources, o \in Options :
       /\ msg' = MergeMessage(o, Root, msg, src)
       /\ Cardinality(DOMAIN msg') <= MaxFields
       /\ \A f \in DOMAIN msg' : Kind(Root, f) = "list" => Len(msg'[f]) <= MaxList
       /\ call' = [op |-> "merge", before |-> msg, src |-> src, o |-> o]

CallKeep ==
  /\ call = NoCall
  /\ \E mask \in Masks :
       /\ msg' = ExclusiveKeep(msg, mask)
       /\ call' = [op |-> "keep", before |-> msg, mask |-> mask]

CallDiscard ==
  /\ call = NoCall
  /\ \E mask \in Masks :
       /\ msg' = ExclusiveDiscard(msg, mask)
       /\ call' = [op |-> "discard", before |-> msg, mask |-> mask]

Return == call # NoCall /\ call' = NoCall /\ UNCHANGED msg

Init == msg = Empty /\ call = NoCall

Next == CallMerge \/ CallKeep \/ CallDiscard \/ Return

Spec == Init /\ [][Next]_vars

-----------------------------------------------------------------------------
(* Properties: what a reader of a path sees.                                *)

\* What is read at a path.
RECURSIVE At(_, _)
At(m, p) ==
  CASE p = <<>> -> m
    [] p # <<>> /\ Head(p) \in DOMAIN m -> At(m[Head(p)], Tail(p))
    [] OTHER -> Absent

RECURSIVE PathsOf(_)
PathsOf(type) ==
  {<<f>> : f \in DOMAIN Schema[type]} \cup
  UNION {Below(f, PathsOf(Nested(type, f))) : f \in {g \in DOMAIN Schema[type] : IsMessage(type, g)}}

AllPaths  == PathsOf(Root)
LeafPaths == {p \in AllPaths : \A q \in AllPaths : Len(q) > Len(p) => SubSeq(q, 1, Len(p)) # p}

\* No nested message is populated and empty.
NoEmpty(m) == \A p \in AllPaths \ LeafPaths : At(m, p) # Empty

\* No name of a populated field begins the name of one that is not.
NoClash(m) == \A p \in NameBegins : p[1] \in DOMAIN m => p[2] \in DOMAIN m

\* A path is in a mask if the mask has it or a message that contains it.
Covered(mask, p) == \E n \in 1..Len(p) : SubSeq(p, 1, n) \in mask

\* ExclusiveKeep keeps what a mask covers and nothing else, whatever is nested
\* in what.  (A field whose name begins another's is kept with that one.)
KeepsMask ==
  call.op = "keep" /\ call.mask # NilMask => \A p \in {q \in LeafPaths : \A b \in NameBegins : Head(q) # b[1]} :
    At(msg, p) = IF Covered(call.mask, p) THEN At(call.before, p) ELSE Absent

\* ExclusiveDiscard and ExclusiveKeep split a message in two parts that have no
\* field in common and merge to the message again.  (A nested message that is
\* empty is in neither part.)
DiscardsRest ==
  call.op = "discard" /\ call.mask # NilMask /\ NoEmpty(call.before) =>
    LET kept == ExclusiveKeep(call.before, call.mask) IN
    /\ MergeWithReplace(kept, msg) = call.before
    /\ \A p \in LeafPaths : At(kept, p) = Absent \/ At(msg, p) = Absent

\* A nil mask is a no-op and not the same as an empty mask, which keeps nothing.
NilMaskKeeps ==
  call.op \in {"keep", "discard"} /\ call.mask \in {NilMask, {}} =>
    msg = IF call.op = "keep" /\ call.mask = {} THEN Empty ELSE call.before

\* The masks of any number of calls split messages as they should.
MasksSplit == KeepsMask /\ DiscardsRest /\ NilMaskKeeps

\* What the comments of ExclusiveKeep and ExclusiveDiscard say of the masks
\* ByPresence and ByAbsence, and the same of AllFields.  It fails for messages
\* with an empty nested message, or in which a field that is not populated has a
\* name that begins like one that is.
MasksOfMessage ==
  call = NoCall /\ NoEmpty(msg) =>
    /\ ExclusiveKeep(msg, ByPresence(msg)) = msg
    /\ ExclusiveKeep(msg, AllFields) = msg
    /\ ExclusiveDiscard(msg, ByPresence(msg)) = Empty
    /\ NoClash(msg) => /\ ExclusiveKeep(msg, ByAbsence(msg)) = Empty
                       /\ ExclusiveDiscard(msg, ByAbsence(msg)) = msg

\* What a merge leaves at the path of a field that is not a message.
AfterMerge(before, src, o, p) ==
  LET parent == SubSeq(p, 1, Len(p) - 1)
      old == At(before, p)
      new == At(src, p)
  IN CASE /\ parent # <<>> /\ Nested(Root, parent[1]) = "Duration"
          /\ At(src, parent) = Empty /\ (o.lists \/ o.maps) -> Absent
       [] old = Absent -> new
       [] old # Absent /\ new = Absent -> old
       [] OTHER ->
            CASE Len(p) = 1 /\ Kind(Root, p[1]) = "list" /\ ~o.lists -> old \o new
              [] Len(p) = 1 /\ Kind(Root, p[1]) = "map" /\ ~o.maps ->
                   [k \in DOMAIN old \cup DOMAIN new |-> IF k \in DOMAIN new THEN new[k] ELSE old[k]]
              [] OTHER -> new

\* A merge is a merge path by path, nested or not: the source wins where it is
\* populated, a zero duration is a value, and nothing else is lost.
MergedByPath ==
  call.op = "merge" =>
    /\ \A p \in LeafPaths : At(msg, p) = AfterMerge(call.before, call.src, call.o, p)
    /\ \A p \in AllPaths \ LeafPaths :
         At(msg, p) = Absent <=> At(call.before, p) = Absent /\ At(call.src, p) = Absent

\* Diff has exactly the paths, of messages too, at which two messages differ:
\* the reactive controller notifies the values at these paths and no others.
DiffExact ==
  call # NoCall => \A p \in AllPaths :
    p \in Diff(call.before, msg) <=> At(call.before, p) # At(msg, p)

\* Replacing in one message the fields of a difference by those of the other
\* gives the other, and with the leaves of the difference alone all its leaves.
DiffApplies ==
  call # NoCall =>
    LET diff == Diff(call.before, msg)
        Patched(mask) == MergeWithReplace(ExclusiveDiscard(call.before, mask),
                                          ExclusiveKeep(msg, mask))
    IN /\ Patched(diff) = msg
       /\ \A p \in LeafPaths : At(Patched(Leaves(diff)), p) = At(msg, p)

\* A difference tells what has changed, and is enough to change it.
DiffCorrect == DiffExact /\ DiffApplies
=============================================================================
