------------------------ MODULE ConfigTracker_proofs ------------------------
(***************************************************************************)
(* For any number of replicas, fields, values and requests, any retention  *)
(* and any interleaving: no placeholder is ever stored, no update of the   *)
(* active config is lost, no client's request changes a masked field, what *)
(* a client reads it can send back, and dry runs foretell what they show.  *)
(***************************************************************************)
EXTENDS ConfigTracker, Configs_proofs

-----------------------------------------------------------------------------
(* The inductive invariant, call by call.                                   *)

CallType ==
  [op : {"none"} \cup Ops,
   step : {"none", "active", "default", "put", "delete", "putDefault"},
   in : Message, mask : SUBSET Paths, existing : Message, def : Message, rev : Nat]

ReadOK(c, act) ==
  /\ Reading(c) /\ c.rev # 0 => c.rev <= Len(act) /\ c.existing = act[c.rev]
  /\ c.step = "put" => c.op \in {"Set", "Apply", "Reset", "TrackerReset"}
  /\ c.step \in {"default", "delete"} => c.rev # 0
  /\ c.step = "put" /\ c.rev = 0 => c.op \in {"Set", "Apply"}
  /\ c.step = "active" => c.op \in {"Set", "Apply"}
  /\ c.step \in {"default", "delete"} => c.op \in {"Reset", "TrackerReset"}

MaskOK(c) ==
  /\ c.op \in ServerOps => \A f \in MaskedFields : c.in.spec[f] = None
  /\ c.op = "Reset" => MaskedFields \subseteq c.mask
  /\ c.op = "Reset" /\ c.step = "delete" => MaskedFields = {}

CallOK(c, act) ==
  /\ c \in CallType
  /\ ReadOK(c, act)
  /\ ~HasPlaceholder(c.existing) /\ ~HasPlaceholder(c.def)
  /\ MaskOK(c)

StoresOK ==
  /\ active \in Seq(Stored) /\ Len(active) <= MaxActive /\ Clean(active)
  /\ default \in Seq(Stored) /\ Len(default) <= MaxDefault /\ Clean(default)

CallsOK ==
  calls = [r \in Replicas |-> calls[r]] /\ \A r \in Replicas : CallOK(calls[r], active)

\* The invariant is one about the stores and one about each call.
LEMMA InductiveByCall == Inductive <=> StoresOK /\ CallsOK
<1>1. Inductive => StoresOK
  BY DEF Inductive, TypeOK, NoPlaceholderStored, Clean, StoresOK
<1>2. Inductive => CallsOK
  BY DEF Inductive, TypeOK, CallsOK, CallOK, CallType, ReadsAreRevisions, ReadOK,
         ReadsAreUnredacted, RequestsAreMasked, MaskOK
<1>3. StoresOK /\ CallsOK => TypeOK
  BY DEF StoresOK, CallsOK, CallOK, CallType, TypeOK
<1>4. StoresOK /\ CallsOK => NoPlaceholderStored
  BY DEF StoresOK, NoPlaceholderStored, Clean
<1>5. StoresOK /\ CallsOK => ReadsAreRevisions /\ ReadsAreUnredacted /\ RequestsAreMasked
  BY DEF CallsOK, CallOK, ReadsAreRevisions, ReadOK, ReadsAreUnredacted,
         RequestsAreMasked, MaskOK
<1>6. QED BY <1>1, <1>2, <1>3, <1>4, <1>5 DEF Inductive

\* A tracker that executes nothing.
LEMMA NoCallOK == ASSUME NEW act PROVE CallOK(NoCall, act)
<1>1. NoCall \in CallType BY EmptyMessage DEF NoCall, CallType, Paths
<1>2. ReadOK(NoCall, act) BY DEF ReadOK, NoCall, Reading
<1>3. MaskOK(NoCall) BY DEF MaskOK, NoCall, ServerOps
<1>4. QED BY <1>1, <1>2, <1>3, EmptyMessage DEF CallOK, NoCall

\* Writing a store keeps what calls have read of it.
LEMMA CallKept ==
  ASSUME NEW act \in Seq(Stored), NEW m \in Stored, NEW c, CallOK(c, act)
  PROVE  CallOK(c, Append(act, m))
<1>1. c.rev \in Nat BY DEF CallOK, CallType
<1>2. ASSUME c.rev # 0, c.rev <= Len(act)
      PROVE  c.rev <= Len(Append(act, m)) /\ Append(act, m)[c.rev] = act[c.rev]
  <2>1. c.rev \in 1..Len(act) BY <1>1, <1>2
  <2>2. QED BY <1>1, <1>2, <2>1, AppendFacts
<1>3. ReadOK(c, Append(act, m)) BY <1>2 DEF CallOK, ReadOK
<1>4. QED BY <1>3 DEF CallOK

\* A step that only moves one call on.
LEMMA CallStep ==
  ASSUME Inductive, NEW r \in Replicas, NEW c, CallOK(c, active),
         calls' = [calls EXCEPT ![r] = c], UNCHANGED <<active, default>>
  PROVE  Inductive'
<1>1. StoresOK /\ CallsOK BY InductiveByCall
<1>2. StoresOK' BY <1>1 DEF StoresOK, Clean
<1>3. CallsOK' BY <1>1 DEF CallsOK
<1>4. QED BY <1>2, <1>3, InductiveByCall, PTL

\* The end of a call, which may have written the active store.
LEMMA WriteActiveStep ==
  ASSUME Inductive, NEW r \in Replicas, NEW m \in Stored, m # None => ~HasPlaceholder(m),
         Len(active) < MaxActive, active' = Append(active, m), Finish(r), UNCHANGED default
  PROVE  Inductive'
<1>1. StoresOK /\ CallsOK BY InductiveByCall
<1>2. StoresOK'
  <2>1. /\ active' \in Seq(Stored) /\ Len(active') = Len(active) + 1 /\ Clean(active')
    BY <1>1, AppendFacts DEF StoresOK
  <2>2. Len(active') <= MaxActive BY <1>1, <2>1, RequestsAssumption DEF StoresOK
  <2>3. QED BY <1>1, <2>1, <2>2 DEF StoresOK, Clean
<1>3. CallsOK'
  <2>1. \A q \in Replicas : CallOK(calls[q], Append(active, m))
    BY <1>1, CallKept DEF CallsOK, StoresOK
  <2>2. QED BY <1>1, <2>1, NoCallOK DEF CallsOK, Finish
<1>4. QED BY <1>2, <1>3, InductiveByCall, PTL

\* Writing the default store.
LEMMA WriteDefaultStep ==
  ASSUME Inductive, NEW r \in Replicas, NEW m \in Stored, m # None => ~HasPlaceholder(m),
         Len(default) < MaxDefault, default' = Append(default, m),
         Finish(r) \/ UNCHANGED calls, UNCHANGED active
  PROVE  Inductive'
<1>1. StoresOK /\ CallsOK BY InductiveByCall
<1>2. StoresOK'
  <2>1. /\ default' \in Seq(Stored) /\ Len(default') = Len(default) + 1 /\ Clean(default')
    BY <1>1, AppendFacts DEF StoresOK
  <2>2. Len(default') <= MaxDefault BY <1>1, <2>1, RequestsAssumption DEF StoresOK
  <2>3. QED BY <1>1, <2>1, <2>2 DEF StoresOK, Clean
<1>3. CallsOK' BY <1>1, NoCallOK DEF CallsOK, Finish
<1>4. QED BY <1>2, <1>3, InductiveByCall, PTL

-----------------------------------------------------------------------------
(* Every action keeps the invariant.                                        *)

\* Apply: the default config read first has no placeholder.
LEMMA BeginApplyStep ==
  ASSUME Inductive, NEW r \in Replicas, NEW op \in Ops \cap {"Set", "Apply"},
         NEW m \in Message, BeginApply(r, op, m)
  PROVE  Inductive'
<1> DEFINE d == DefaultConfig(default)
           in == IF op = "Set" THEN ClearMasked(m) ELSE m
           c == [NoCall EXCEPT !.op = op, !.step = "active", !.existing = d, !.in = in]
<1>1. d \in Message /\ ~HasPlaceholder(d)
  BY InductiveByCall, DefaultConfigFacts DEF StoresOK
<1>2. in \in Message /\ (op = "Set" => \A f \in MaskedFields : in.spec[f] = None)
  BY ClearMaskedMessage
<1> HIDE DEF d, in
<1>3. /\ c \in CallType /\ c.op = op /\ c.step = "active" /\ c.in = in
      /\ c.existing = d /\ c.def = Empty /\ c.rev = 0
  BY <1>1, <1>2, EmptyMessage DEF NoCall, CallType
<1> HIDE DEF c
<1>4. ReadOK(c, active) BY <1>3 DEF ReadOK, Reading
<1>5. MaskOK(c) BY <1>2, <1>3 DEF MaskOK, ServerOps
<1>6. CallOK(c, active) BY <1>1, <1>3, <1>4, <1>5, EmptyMessage DEF CallOK
<1>7. calls' = [calls EXCEPT ![r] = c] /\ UNCHANGED <<active, default>>
  BY DEF BeginApply, c, d, in
<1>8. QED BY <1>6, <1>7, CallStep

\* Apply: what it builds on is a revision of the active store, or the default.
LEMMA ApplyReadActiveStep ==
  ASSUME Inductive, NEW r \in Replicas, ApplyReadActive(r)
  PROVE  Inductive'
<1> DEFINE c == calls[r]
           got == ActiveOrDefault(active, c.existing, c.in.revision)
           d == [c EXCEPT !.step = "put", !.existing = got.value, !.rev = got.revision]
<1>1. CallOK(c, active) /\ StoresOK BY InductiveByCall DEF CallsOK
<1>2. c.step = "active" /\ UNCHANGED <<active, default>> BY DEF ApplyReadActive
<1>3. CASE got.err = "OK" /\ calls' = [calls EXCEPT ![r] = d]
  <2>1. c.in.revision \in Nullable BY <1>1 DEF CallOK, CallType, Message, Nullable
  <2>2. c.existing \in Message /\ ~HasPlaceholder(c.existing) BY <1>1 DEF CallOK, CallType
  <2>3. /\ got.value \in Message /\ ~HasPlaceholder(got.value) /\ got.revision \in Nat
        /\ got.revision # 0 => got.revision <= Len(active) /\ got.value = active[got.revision]
    BY <1>1, <1>3, <2>1, <2>2, ActiveOrDefaultFacts DEF StoresOK
  <2> HIDE DEF got
  <2>4. /\ d \in CallType /\ d.op = c.op /\ d.step = "put" /\ d.in = c.in /\ d.mask = c.mask
        /\ d.existing = got.value /\ d.rev = got.revision /\ d.def = c.def
    BY <1>1, <2>3 DEF CallOK, CallType
  <2>5. c.op \in {"Set", "Apply"} BY <1>1, <1>2 DEF CallOK, ReadOK
  <2> HIDE DEF d
  <2>6. ReadOK(d, active) BY <2>3, <2>4, <2>5 DEF ReadOK, Reading
  <2>7. MaskOK(d) BY <1>1, <2>4, <2>5 DEF CallOK, MaskOK
  <2>8. CallOK(d, active) BY <1>1, <2>3, <2>4, <2>6, <2>7 DEF CallOK
  <2>9. QED BY <1>2, <1>3, <2>8, CallStep
<1>4. CASE Finish(r)
  BY <1>2, <1>4, NoCallOK, CallStep DEF Finish
<1>5. QED BY <1>3, <1>4 DEF ApplyReadActive

\* Reset: the revision and the value it read belong together.
LEMMA BeginResetStep ==
  ASSUME Inductive, NEW r \in Replicas, NEW op \in Ops \cap {"Reset", "TrackerReset"},
         NEW mask \in SUBSET Paths, NEW patch \in Message, NEW at \in Nullable,
         BeginReset(r, op, mask, patch, at)
  PROVE  Inductive'
<1> DEFINE rev == IF op = "Reset" THEN None ELSE at
           got == StoreGet(active, rev)
           m == IF op = "Reset" THEN ServerMask(mask) ELSE mask
           step == IF m = NilMask THEN "delete" ELSE "default"
           in == IF op = "Reset" THEN ClearMasked(patch) ELSE patch
           c == [NoCall EXCEPT !.op = op, !.step = step, !.in = in, !.mask = m,
                               !.existing = got.value, !.rev = got.revision]
<1>1. StoresOK BY InductiveByCall
<1>2. rev \in Nullable BY DEF Nullable
<1> HIDE DEF rev
<1>3. got.err = "OK" /\ calls' = [calls EXCEPT ![r] = c] /\ UNCHANGED <<active, default>>
  BY DEF BeginReset, rev
<1>4. /\ got.revision \in 1..Len(active) /\ got.value = active[got.revision]
      /\ got.value \in Message /\ ~HasPlaceholder(got.value)
  BY <1>1, <1>2, <1>3, StoreGetFacts DEF StoresOK
<1>5. in \in Message /\ (op = "Reset" => \A f \in MaskedFields : in.spec[f] = None)
  BY ClearMaskedMessage
<1>6. /\ m \in SUBSET Paths
      /\ op = "Reset" => MaskedFields \subseteq m
      /\ op = "Reset" /\ m = NilMask => MaskedFields = {}
  BY FieldsAssumption DEF ServerMask, Paths, Fields, NilMask
<1>7. step \in {"delete", "default"} /\ (step = "delete" => m = NilMask) OBVIOUS
<1>8. got.revision \in Nat /\ got.revision # 0 /\ got.revision <= Len(active)
  BY <1>1, <1>4 DEF StoresOK
<1> HIDE DEF got, m, step, in
<1>9. /\ c \in CallType /\ c.op = op /\ c.step = step /\ c.in = in /\ c.mask = m
      /\ c.existing = got.value /\ c.rev = got.revision /\ c.def = Empty
  BY <1>4, <1>5, <1>6, <1>7, <1>8, EmptyMessage DEF NoCall, CallType
<1> HIDE DEF c
<1>10. ReadOK(c, active) BY <1>4, <1>7, <1>8, <1>9 DEF ReadOK, Reading
<1>11. MaskOK(c) BY <1>5, <1>6, <1>7, <1>9 DEF MaskOK, ServerOps
<1>12. CallOK(c, active) BY <1>4, <1>9, <1>10, <1>11, EmptyMessage DEF CallOK
<1>13. QED BY <1>3, <1>12, CallStep

\* Reset: the default config it read has no placeholder.
LEMMA ResetReadDefaultStep ==
  ASSUME Inductive, NEW r \in Replicas, ResetReadDefault(r)
  PROVE  Inductive'
<1> DEFINE c == calls[r]
           e == DefaultConfig(default)
           d == [c EXCEPT !.step = "put", !.def = e]
<1>1. CallOK(c, active) /\ StoresOK BY InductiveByCall DEF CallsOK
<1>2. c.step = "default" /\ UNCHANGED <<active, default>> BY DEF ResetReadDefault
<1>3. CASE calls' = [calls EXCEPT ![r] = d]
  <2>1. e \in Message /\ ~HasPlaceholder(e) BY <1>1, DefaultConfigFacts DEF StoresOK
  <2> HIDE DEF e
  <2>2. /\ d \in CallType /\ d.op = c.op /\ d.step = "put" /\ d.in = c.in /\ d.mask = c.mask
        /\ d.existing = c.existing /\ d.rev = c.rev /\ d.def = e
    BY <1>1, <2>1 DEF CallOK, CallType
  <2>3. c.op \in {"Reset", "TrackerReset"} /\ c.rev # 0 BY <1>1, <1>2 DEF CallOK, ReadOK
  <2> HIDE DEF d
  <2>4. ReadOK(d, active) BY <1>1, <1>2, <2>2, <2>3 DEF CallOK, ReadOK, Reading
  <2>5. MaskOK(d) BY <1>1, <2>2, <2>3 DEF CallOK, MaskOK
  <2>6. CallOK(d, active) BY <1>1, <2>1, <2>2, <2>4, <2>5 DEF CallOK
  <2>7. QED BY <1>2, <1>3, <2>6, CallStep
<1>4. CASE Finish(r)
  BY <1>2, <1>4, NoCallOK, CallStep DEF Finish
<1>5. QED BY <1>3, <1>4 DEF ResetReadDefault

\* Reset without a mask: a deletion, or nothing.
LEMMA ResetDeleteStep ==
  ASSUME Inductive, NEW r \in Replicas, ResetDelete(r)
  PROVE  Inductive'
<1>1. CASE Len(active) < MaxActive /\ active' = Append(active, None)
  BY <1>1, WriteActiveStep DEF ResetDelete, Stored
<1>2. CASE UNCHANGED active
  BY <1>2, NoCallOK, CallStep DEF ResetDelete, Finish
<1>3. QED BY <1>1, <1>2 DEF ResetDelete

\* What a call at step "put" stores has no placeholder.
LEMMA ToStoreMessage ==
  ASSUME NEW c, CallOK(c, active)
  PROVE  ToStore(c, c.existing) \in Message /\ ~HasPlaceholder(ToStore(c, c.existing))
<1>1. /\ c.existing \in Message /\ ~HasPlaceholder(c.existing)
      /\ c.def \in Message /\ ~HasPlaceholder(c.def) /\ c.in \in Message
  BY DEF CallOK, CallType
<1>2. Applied(c.existing, c.in) \in Message /\ ~HasPlaceholder(Applied(c.existing, c.in))
  BY <1>1, AppliedMessage
<1>3. /\ ResetTo(c.existing, c.def, c.mask, c.in) \in Message
      /\ ~HasPlaceholder(ResetTo(c.existing, c.def, c.mask, c.in))
  BY <1>1, ResetToMessage
<1>4. QED BY <1>2, <1>3 DEF ToStore

\* Put, the end of Apply and Reset.
LEMMA PutActiveStep ==
  ASSUME Inductive, NEW r \in Replicas, PutActive(r)
  PROVE  Inductive'
<1> DEFINE m == ToStore(calls[r], calls[r].existing)
<1>1. CASE Len(active) < MaxActive /\ active' = Append(active, m)
  <2>1. m \in Message /\ ~HasPlaceholder(m)
    BY InductiveByCall, ToStoreMessage DEF CallsOK
  <2> HIDE DEF m
  <2>2. Finish(r) /\ UNCHANGED default BY DEF PutActive
  <2>3. QED BY <1>1, <2>1, <2>2, WriteActiveStep DEF Stored
<1>2. CASE UNCHANGED active
  BY <1>2, NoCallOK, CallStep DEF PutActive, Finish
<1>3. QED BY <1>1, <1>2 DEF PutActive

\* SetDefault: the secrets come from a config without placeholders.
LEMMA BeginSetDefaultStep ==
  ASSUME Inductive, NEW r \in Replicas,
         NEW op \in Ops \cap {"SetDefault", "TrackerSetDefault"},
         NEW m \in Message, BeginSetDefault(r, op, m)
  PROVE  Inductive'
<1> DEFINE d == DefaultConfig(default)
           in == IF op = "SetDefault" THEN ClearMasked(m) ELSE m
           n == RequestRevision(m)
           c == [NoCall EXCEPT !.op = op, !.step = "putDefault", !.existing = d, !.in = in,
                               !.rev = n]
<1>1. d \in Message /\ ~HasPlaceholder(d)
  BY InductiveByCall, DefaultConfigFacts DEF StoresOK
<1>2. in \in Message /\ (op = "SetDefault" => \A f \in MaskedFields : in.spec[f] = None)
  BY ClearMaskedMessage
<1>3. n \in Nat BY DEF RequestRevision, Message
<1> HIDE DEF d, in, n
<1>4. /\ c \in CallType /\ c.op = op /\ c.step = "putDefault" /\ c.in = in
      /\ c.existing = d /\ c.def = Empty
  BY <1>1, <1>2, <1>3, EmptyMessage DEF NoCall, CallType
<1> HIDE DEF c
<1>5. ReadOK(c, active) BY <1>4 DEF ReadOK, Reading
<1>6. MaskOK(c) BY <1>2, <1>4 DEF MaskOK, ServerOps
<1>7. CallOK(c, active) BY <1>1, <1>4, <1>5, <1>6, EmptyMessage DEF CallOK
<1>8. calls' = [calls EXCEPT ![r] = c] /\ UNCHANGED <<active, default>>
  BY DEF BeginSetDefault, c, d, in, n
<1>9. QED BY <1>7, <1>8, CallStep

\* Put, the end of SetDefault.
LEMMA PutDefaultStep ==
  ASSUME Inductive, NEW r \in Replicas, PutDefault(r)
  PROVE  Inductive'
<1> DEFINE c == calls[r]
           m == NewDefault(c.existing, c.in)
<1>1. CASE Len(default) < MaxDefault /\ default' = Append(default, m)
  <2>1. c.existing \in Message /\ ~HasPlaceholder(c.existing) /\ c.in \in Message
    BY InductiveByCall DEF CallsOK, CallOK, CallType
  <2>2. m \in Message /\ ~HasPlaceholder(m) BY <2>1, NewDefaultMessage
  <2> HIDE DEF m
  <2>3. Finish(r) /\ UNCHANGED active BY DEF PutDefault
  <2>4. QED BY <1>1, <2>2, <2>3, WriteDefaultStep DEF Stored
<1>2. CASE UNCHANGED default
  BY <1>2, NoCallOK, CallStep DEF PutDefault, Finish
<1>3. QED BY <1>1, <1>2 DEF PutDefault

\* The invariant holds initially.
LEMMA InitInductive == Init => Inductive
<1> SUFFICES ASSUME Init PROVE StoresOK /\ CallsOK BY InductiveByCall
<1>1. StoresOK BY RequestsAssumption DEF Init, StoresOK, Clean
<1>2. CallsOK BY NoCallOK DEF Init, CallsOK
<1>3. QED BY <1>1, <1>2

\* Every step keeps it.
LEMMA NextInductive == Inductive /\ [Next]_vars => Inductive'
<1> SUFFICES ASSUME Inductive, [Next]_vars PROVE Inductive' OBVIOUS
<1>1. CASE UNCHANGED vars
  <2>1. StoresOK /\ CallsOK BY InductiveByCall
  <2>2. StoresOK' /\ CallsOK' BY <1>1, <2>1 DEF vars, StoresOK, CallsOK, Clean
  <2>3. QED BY <2>2, InductiveByCall, PTL
<1>2. ASSUME NEW r \in Replicas, NEW m \in Specs, NEW rev \in Revisions
      PROVE  /\ m \in Message /\ rev \in Nullable /\ SetRevision(m, rev) \in Message
  <2>1. m \in Message BY RequestsAssumption
  <2>2. rev \in Nullable BY RequestsAssumption DEF Revisions, Nullable
  <2>3. QED BY <2>1, <2>2, SetRevisionMessage
<1>3. ASSUME NEW r \in Replicas, NEW m \in Specs, NEW rev \in Revisions,
             NEW op \in Ops \cap {"Set", "Apply"}, BeginApply(r, op, SetRevision(m, rev))
      PROVE  Inductive'
  BY <1>2, <1>3, BeginApplyStep
<1>4. ASSUME NEW r \in Replicas, NEW m \in Specs, NEW rev \in Revisions,
             NEW op \in Ops \cap {"SetDefault", "TrackerSetDefault"},
             BeginSetDefault(r, op, SetRevision(m, rev))
      PROVE  Inductive'
  BY <1>2, <1>4, BeginSetDefaultStep
<1>5. ASSUME NEW r \in Replicas, NEW m \in Specs, NEW rev \in Revisions,
             NEW op \in Ops \cap {"Reset", "TrackerReset"}, NEW mask \in Masks,
             BeginReset(r, op, mask, m, rev)
      PROVE  Inductive'
  BY <1>2, <1>5, BeginResetStep, RequestsAssumption
<1>6. ASSUME NEW r \in Replicas, NEW rev \in Revisions, ResetDefault(r, rev)
      PROVE  Inductive'
  BY <1>6, WriteDefaultStep DEF ResetDefault, Stored
<1>7. ASSUME NEW r \in Replicas,
             \/ ApplyReadActive(r) \/ ResetReadDefault(r)
             \/ PutActive(r) \/ ResetDelete(r) \/ PutDefault(r)
      PROVE  Inductive'
  BY <1>7, ApplyReadActiveStep, ResetReadDefaultStep, PutActiveStep, ResetDeleteStep,
     PutDefaultStep
<1>8. QED BY <1>1, <1>3, <1>4, <1>5, <1>6, <1>7 DEF Next

\* The inductive invariant is an invariant of the trackers.
THEOREM InductiveInvariant == Spec => []Inductive
BY InitInductive, NextInductive, PTL DEF Spec

\* Stores hold messages and deletions and never exceed their bounds, and calls
\* are well formed, for any number of replicas.
THEOREM TypeCorrect == Spec => []TypeOK
<1>1. Inductive => TypeOK BY DEF Inductive
<1>2. QED BY <1>1, InductiveInvariant, PTL

\* No replica ever stores the placeholder in place of a secret, whatever
\* clients send back and whatever other replicas do meanwhile.
THEOREM SecretsSafe == Spec => []NoPlaceholderStored
<1>1. Inductive => NoPlaceholderStored BY DEF Inductive
<1>2. QED BY <1>1, InductiveInvariant, PTL

-----------------------------------------------------------------------------
(* What a step may never do.                                                *)

\* The only step of a replica that makes the active store longer is a Put
\* that its revision allows, or a deletion.
LEMMA WritesAreAllowed ==
  ASSUME Inductive, Next, NEW r \in Replicas, Writes(r)
  PROVE  \/ /\ calls[r].step = "put" /\ PutAllowed(active, calls[r].rev)
            /\ active' = Append(active, ToStore(calls[r], calls[r].existing))
         \/ /\ calls[r].step = "delete" /\ active' = Append(active, None)
<1>1. active' # active /\ calls'[r] # calls[r] BY InductiveByCall DEF Writes, StoresOK
<1>2. PutActive(r) \/ ResetDelete(r)
  <2>a. \A q \in Replicas : \A m, rev, op, mask :
          /\ ~BeginApply(q, op, m) /\ ~BeginSetDefault(q, op, m)
          /\ ~BeginReset(q, op, mask, m, rev) /\ ~ResetDefault(q, rev)
    BY <1>1 DEF BeginApply, BeginSetDefault, BeginReset, ResetDefault
  <2>b. \A q \in Replicas : ~ApplyReadActive(q) /\ ~ResetReadDefault(q) /\ ~PutDefault(q)
    BY <1>1 DEF ApplyReadActive, ResetReadDefault, PutDefault
  <2>1. PICK q \in Replicas : PutActive(q) \/ ResetDelete(q)
    BY <2>a, <2>b, Zenon DEF Next
  <2>2. calls' = [calls EXCEPT ![q] = NoCall] BY <2>1 DEF PutActive, ResetDelete, Finish
  <2>3. calls = [p \in Replicas |-> calls[p]] BY InductiveByCall DEF CallsOK
  <2>4. q = r BY <1>1, <2>2, <2>3
  <2>5. QED BY <2>1, <2>4
<1>3. QED BY <1>1, <1>2 DEF PutActive, ResetDelete

\* A Put that is allowed while the config exists replaces the config it read.
LEMMA PutReplacesRead ==
  ASSUME Inductive, NEW r \in Replicas, calls[r].step = "put",
         PutAllowed(active, calls[r].rev)
  PROVE  IF Live(active) THEN calls[r].existing = Latest(active)
         ELSE calls[r].rev = 0
<1> DEFINE c == calls[r]
<1>1. CallOK(c, active) /\ active \in Seq(Stored) BY InductiveByCall DEF CallsOK, StoresOK
<1>2. c.rev # 0 => c.rev = Len(active) /\ c.existing = active[c.rev]
  BY <1>1 DEF PutAllowed, CallOK, ReadOK, Reading
<1>3. Live(active) => c.rev # 0 BY DEF PutAllowed
<1>4. c.existing # None BY <1>1, ValuesAssumption DEF CallOK, CallType
<1>5. c.rev # 0 => Live(active) BY <1>1, <1>2, <1>4 DEF Live
<1>6. QED BY <1>2, <1>3, <1>5 DEF Latest

\* A write of Apply or Reset builds on the latest config.
LEMMA StepBuildsOnLatest ==
  ASSUME Inductive, Next, NEW r \in Replicas
  PROVE  BuildsOnLatest(r)
<1> SUFFICES ASSUME Writes(r), calls[r].step = "put"
             PROVE  IF Live(active)
                    THEN Latest(active') = ToStore(calls[r], Latest(active))
                    ELSE calls[r].op \in {"Set", "Apply"}
  BY DEF BuildsOnLatest
<1> DEFINE c == calls[r]
           m == ToStore(c, c.existing)
<1>1. PutAllowed(active, c.rev) /\ active' = Append(active, m) BY WritesAreAllowed
<1>2. CallOK(c, active) /\ active \in Seq(Stored) BY InductiveByCall DEF CallsOK, StoresOK
<1>3. m \in Stored BY <1>2, ToStoreMessage DEF Stored
<1>4. Latest(active') = m BY <1>1, <1>2, <1>3, LatestAppend
<1>5. CASE Live(active) BY <1>1, <1>4, <1>5, PutReplacesRead
<1>6. CASE ~Live(active)
  <2>1. c.rev = 0 BY <1>1, <1>6, PutReplacesRead
  <2>2. QED BY <1>2, <1>6, <2>1 DEF CallOK, ReadOK
<1>7. QED BY <1>5, <1>6

\* An update made by another replica between reading and writing is never lost,
\* for any number of replicas.
THEOREM UpdatesKept == Spec => NoLostUpdate
<1>1. Inductive /\ [Next]_vars => [\A r \in Replicas : BuildsOnLatest(r)]_vars
  BY StepBuildsOnLatest
<1>2. QED BY <1>1, InductiveInvariant, PTL DEF Spec, NoLostUpdate

\* Apply keeps a field that the request does not set, and Reset one that the
\* mask names and the patch does not set.
LEMMA StoredKeepsField ==
  ASSUME NEW e \in Message, NEW d \in Message, NEW mask, NEW p \in Message,
         NEW f \in MaskedFields, Set(e, f), p.spec[f] = None
  PROVE  /\ Applied(e, p).spec[f] = e.spec[f]
         /\ f \in mask => ResetTo(e, d, mask, p).spec[f] = e.spec[f]
<1>1. f \in Fields /\ f \notin SecretFields BY FieldsAssumption DEF Fields
<1>2. \A g \in Message : Unredact(p, g).spec[f] = None BY <1>1 DEF Unredact
<1>3. \A a, b : Merge(a, b).spec[f] = IF Set(b, f) THEN b.spec[f] ELSE a.spec[f]
  BY <1>1 DEF Merge
<1>4. Applied(e, p).spec[f] = e.spec[f]
  <2>1. Unredact(p, e).spec[f] = None BY <1>2
  <2>2. Merge(e, Unredact(p, e)).spec[f] = e.spec[f] BY <1>3, <2>1 DEF Set
  <2>3. QED BY <2>2 DEF Applied, UnsetRevision, SetRevision
<1>5. ASSUME f \in mask PROVE ResetTo(e, d, mask, p).spec[f] = e.spec[f]
  <2> DEFINE kept == Keep(e, mask)
             patch == Keep(Unredact(p, kept), mask)
  <2>1. kept \in Message BY KeepMessage
  <2>2. kept.spec[f] = e.spec[f] BY <1>1, <1>5 DEF Keep
  <2>3. patch.spec[f] = None BY <1>1, <1>2, <2>1 DEF Keep
  <2> HIDE DEF kept, patch
  <2>4. Merge(kept, patch).spec[f] = e.spec[f] BY <1>3, <2>2, <2>3 DEF Set
  <2>5. Merge(d, Merge(kept, patch)).spec[f] = e.spec[f] BY <1>3, <2>4 DEF Set
  <2>6. QED BY <2>5 DEF ResetTo, kept, patch
<1>6. QED BY <1>4, <1>5

\* A write of a server's request keeps every masked field.
LEMMA StepKeepsMasked ==
  ASSUME Inductive, Next, NEW r \in Replicas, NEW f \in MaskedFields
  PROVE  KeepsMasked(r, f)
<1> SUFFICES ASSUME Writes(r), calls[r].op \in ServerOps, Live(active), Set(Latest(active), f)
             PROVE  Live(active') /\ Latest(active').spec[f] = Latest(active).spec[f]
  BY DEF KeepsMasked
<1> DEFINE c == calls[r]
           m == ToStore(c, c.existing)
<1>1. CallOK(c, active) /\ active \in Seq(Stored) BY InductiveByCall DEF CallsOK, StoresOK
<1>2. c.step # "delete" BY <1>1 DEF CallOK, ReadOK, MaskOK, ServerOps
<1>3. /\ c.step = "put" /\ PutAllowed(active, c.rev) /\ active' = Append(active, m)
  BY <1>2, WritesAreAllowed
<1>4. c.existing = Latest(active) BY <1>3, PutReplacesRead
<1>5. m \in Message BY <1>1, ToStoreMessage
<1>6. Live(active') /\ Latest(active') = m
  BY <1>1, <1>3, <1>5, LatestAppend, ValuesAssumption DEF Stored
<1>7. c.op \in {"Set", "Reset"} BY <1>1, <1>3 DEF CallOK, ReadOK, ServerOps
<1>8. /\ c.existing \in Message /\ c.def \in Message /\ c.in \in Message
      /\ c.in.spec[f] = None /\ (c.op = "Reset" => f \in c.mask)
  BY <1>1 DEF CallOK, CallType, MaskOK
<1>9. m.spec[f] = c.existing.spec[f]
  <2>1. Applied(c.existing, c.in).spec[f] = c.existing.spec[f]
    BY <1>4, <1>8, StoredKeepsField
  <2>2. c.op = "Reset" =>
          ResetTo(c.existing, c.def, c.mask, c.in).spec[f] = c.existing.spec[f]
    BY <1>4, <1>8, StoredKeepsField
  <2>3. QED BY <1>7, <2>1, <2>2 DEF ToStore
<1>10. QED BY <1>4, <1>6, <1>9

\* No client of any server ever changes or deletes a masked field that is set.
THEOREM MaskedFieldsKept == Spec => MaskedKept
<1>1. Inductive /\ [Next]_vars => [\A r \in Replicas, f \in MaskedFields : KeepsMasked(r, f)]_vars
  BY StepKeepsMasked
<1>2. QED BY <1>1, InductiveInvariant, PTL DEF Spec, MaskedKept
-----------------------------------------------------------------------------
(* Reads, dry runs and history: what the answers say of the stores.         *)

\* What a client sends back to the server as it got it is accepted: Set changes
\* nothing, and SetDefault drops the masked fields and changes nothing else.
THEOREM RoundTripCorrect == Spec => []RoundTrip
<1>1. Inductive => RoundTrip
  <2> SUFFICES ASSUME Inductive PROVE RoundTrip
    OBVIOUS
  <2>a. /\ active \in Seq(Stored) /\ Clean(active)
        /\ default \in Seq(Stored) /\ Clean(default)
    BY InductiveByCall DEF StoresOK
  <2> DEFINE dc == DefaultConfig(default)
             v == IF Live(active) THEN Latest(active) ELSE dc
             q == IF Live(active) THEN Len(active) ELSE 0
             p == IF Live(default) THEN Len(default) ELSE 0
             got == SetRevision(Redact(v), q)
             def == SetRevision(Redact(dc), p)
  <2>b. \A at \in {None, q} :
          ActiveOrDefault(active, dc, at) = [err |-> "OK", value |-> v, revision |-> q]
    BY <2>a, LatestConfig
  <2>c. ActiveOrDefault(default, Loader, None) = [err |-> "OK", value |-> dc, revision |-> p]
    <3>1. dc = IF Live(default) THEN Latest(default) ELSE Loader BY DEF DefaultConfig
    <3>2. QED BY <2>a, <3>1, LatestConfig
  <2>d. dc \in Message BY <2>a, DefaultConfigFacts
  <2>e. v \in Message
    <3>1. ActiveOrDefault(active, dc, None).err = "OK" BY <2>b
    <3>2. ~HasPlaceholder(dc) BY <2>a, DefaultConfigFacts
    <3>3. ActiveOrDefault(active, dc, None).value \in Message
      BY <2>a, <2>d, <3>1, <3>2, ActiveOrDefaultFacts DEF Nullable
    <3>4. QED BY <2>b, <3>3
  <2>f. q \in Nat /\ p \in Nat BY <2>a
  <2>g. PutAllowed(active, q) /\ PutAllowed(default, p) BY <2>a, PutLatest
  <2> HIDE DEF v, q, p, dc
  <2>1. GetActiveOrDefault(active, default, None) = got
    BY <2>b DEF GetActiveOrDefault, dc
  <2>2. GetDefault(default, None) = def BY <2>c DEF GetDefault
  <2>3. got.spec = Redact(v).spec /\ got.revision = q /\ def.spec = Redact(dc).spec /\ def.revision = p
    BY DEF SetRevision
  <2> HIDE DEF got, def
  <2> DEFINE sent == ClearMasked(got)
             sentDefault == ClearMasked(def)
  <2>r. sent.revision = q /\ sentDefault.revision = p BY <2>3 DEF ClearMasked
  <2>u. /\ ~Discontinuity(sent, v) /\ Unredact(sent, v).spec = ClearMasked(v).spec
        /\ ~Discontinuity(sentDefault, dc) /\ Unredact(sentDefault, dc).spec = ClearMasked(dc).spec
    BY <2>3, <2>d, <2>e, RedactUnredact
  <2>o. ActiveOrDefault(active, dc, got.revision) = [err |-> "OK", value |-> v, revision |-> q]
    BY <2>b, <2>3
  <2>4. ServerSucceeds(active, default, "Set", got, NilMask)
    <3> HIDE DEF sent
    <3>1. ActiveOrDefault(active, dc, sent.revision) = [err |-> "OK", value |-> v, revision |-> q]
      BY <2>b, <2>r
    <3>2. ApplySucceeds(active, default, sent) BY <3>1, <2>u, <2>g DEF ApplySucceeds, dc
    <3>3. QED BY <3>2 DEF ServerSucceeds, sent
  <2>5. ServerLeaves(active, default, "Set", got, NilMask).spec = v.spec
    <3>1. ServerLeaves(active, default, "Set", got, NilMask) = Applied(v, sent)
      BY <2>o DEF ServerLeaves, dc
    <3>2. Merge(v, Unredact(sent, v)).spec = v.spec BY <2>e, <2>u, MergeSelf
    <3> HIDE DEF sent
    <3>3. QED BY <3>1, <3>2 DEF Applied, UnsetRevision, SetRevision
  <2>6. ServerSucceeds(active, default, "SetDefault", def, NilMask)
    <3> HIDE DEF sentDefault
    <3>1. RequestRevision(sentDefault) = p
      BY <2>r, <2>f, ValuesAssumption DEF RequestRevision
    <3>2. SetDefaultSucceeds(default, sentDefault)
      BY <3>1, <2>u, <2>g DEF SetDefaultSucceeds, dc
    <3>3. QED BY <3>2 DEF ServerSucceeds, sentDefault
  <2>7. ServerLeaves(active, default, "SetDefault", def, NilMask).spec = ClearMasked(dc).spec
    <3>1. ServerLeaves(active, default, "SetDefault", def, NilMask) = NewDefault(dc, sentDefault)
      BY DEF ServerLeaves, dc
    <3> HIDE DEF sentDefault
    <3>2. QED BY <3>1, <2>u DEF NewDefault, UnsetRevision, SetRevision
  <2>8. ActiveOrDefault(active, DefaultConfig(default), None).value = v BY <2>b DEF dc
  <2>9. QED BY <2>1, <2>2, <2>4, <2>5, <2>6, <2>7, <2>8 DEF RoundTrip, dc
<1>2. QED BY <1>1, InductiveInvariant, PTL

\* Get at a revision that the store lists.
LEMMA HistoryGet ==
  ASSUME NEW log \in Seq(Stored), NEW d, NEW r \in StoreHistory(log)
  PROVE  ActiveOrDefault(log, d, r) = [err |-> "OK", value |-> log[r], revision |-> r]
<1>1. r \in 1..Len(log) /\ r > Len(log) - Retention /\ log[r] # None
  BY DEF StoreHistory
<1>2. r # None BY <1>1, ValuesAssumption
<1>3. ~(r > Len(log)) /\ r # 0 /\ ~(r <= Len(log) - Retention)
  BY <1>1, RetentionAssumption
<1>4. StoreGet(log, r) = [err |-> "OK", value |-> log[r], revision |-> r]
  BY <1>1, <1>2, <1>3 DEF StoreGet
<1>5. QED BY <1>4 DEF ActiveOrDefault

\* Every entry of a history is what Get answers at its revision, secrets
\* redacted, and the latest config is among them.
THEOREM HistoryCorrect == Spec => []HistoryIsGettable
<1>1. Inductive => HistoryIsGettable
  <2> SUFFICES ASSUME Inductive PROVE HistoryIsGettable
    OBVIOUS
  <2>a. active \in Seq(Stored) /\ default \in Seq(Stored) BY InductiveByCall DEF StoresOK
  <2>1. ASSUME NEW e \in ServerHistory(active)
        PROVE  GetActiveOrDefault(active, default, e.revision) = e
    <3>1. PICK r \in StoreHistory(active) : e = SetRevision(Redact(active[r]), r)
      BY DEF ServerHistory
    <3>2. e.revision = r BY <3>1 DEF SetRevision
    <3>3. ActiveOrDefault(active, DefaultConfig(default), r)
            = [err |-> "OK", value |-> active[r], revision |-> r]
      BY <2>a, HistoryGet
    <3>4. QED BY <3>1, <3>2, <3>3 DEF GetActiveOrDefault
  <2>2. ASSUME NEW e \in ServerHistory(default) PROVE GetDefault(default, e.revision) = e
    <3>1. PICK r \in StoreHistory(default) : e = SetRevision(Redact(default[r]), r)
      BY DEF ServerHistory
    <3>2. e.revision = r BY <3>1 DEF SetRevision
    <3>3. ActiveOrDefault(default, Loader, r)
            = [err |-> "OK", value |-> default[r], revision |-> r]
      BY <2>a, HistoryGet
    <3>4. QED BY <3>1, <3>2, <3>3 DEF GetDefault
  <2>3. ASSUME Live(active)
        PROVE  GetActiveOrDefault(active, default, None) \in ServerHistory(active)
    <3>1. ActiveOrDefault(active, DefaultConfig(default), None)
            = [err |-> "OK", value |-> active[Len(active)], revision |-> Len(active)]
      BY <2>a, <2>3, LatestConfig DEF Latest
    <3>2. Len(active) \in StoreHistory(active)
      <4>1. Len(active) \in Nat /\ Len(active) # 0 /\ active[Len(active)] # None
        BY <2>a, <2>3, EmptySeq DEF Live
      <4>2. Len(active) > Len(active) - Retention BY <4>1, RetentionAssumption
      <4>3. QED BY <4>1, <4>2 DEF StoreHistory
    <3>3. QED BY <3>1, <3>2 DEF GetActiveOrDefault, ServerHistory
  <2>4. QED BY <2>1, <2>2, <2>3 DEF HistoryIsGettable
<1>2. QED BY <1>1, InductiveInvariant, PTL

\* When no call is under way, a request that the dry-run client accepts, of
\* those it can foretell, succeeds if nothing intervenes, and leaves the
\* config that the dry run showed.
THEOREM DryRunsCorrect == Spec => []DryRunPredicts
<1>1. Inductive => DryRunPredicts
  <2> SUFFICES ASSUME Inductive, NEW op \in {"Set", "Reset", "SetDefault", "ResetDefault"},
                      NEW spec \in Specs, NEW rev \in Revisions, NEW mask \in Masks,
                      NEW m, m = SetRevision(spec, rev), Foreseen(op, m, mask),
                      TrackerDryRun(active, default, DryRunRequest(op, m, mask, rev)).ok
               PROVE  /\ ServerSucceeds(active, default, op, m, mask)
                      /\ TrackerDryRun(active, default, DryRunRequest(op, m, mask, rev)).modified.spec
                           = Redact(ServerLeaves(active, default, op, m, mask)).spec
    BY DEF DryRunPredicts
  <2>a. active \in Seq(Stored) /\ default \in Seq(Stored) BY InductiveByCall DEF StoresOK
  <2>b. m.revision = rev /\ ClearMasked(m).revision = rev BY DEF SetRevision, ClearMasked
  <2> DEFINE reply == TrackerDryRun(active, default, DryRunRequest(op, m, mask, rev))
             cm == ClearMasked(m)
             dc == DefaultConfig(default)
             v == IF Live(active) THEN Latest(active) ELSE dc
             q == IF Live(active) THEN Len(active) ELSE 0
             p == IF Live(default) THEN Len(default) ELSE 0
  <2>c. \A at \in {None, q} :
          ActiveOrDefault(active, dc, at) = [err |-> "OK", value |-> v, revision |-> q]
    BY <2>a, LatestConfig
  <2>d. ActiveOrDefault(default, Loader, None) = [err |-> "OK", value |-> dc, revision |-> p]
    <3>1. dc = IF Live(default) THEN Latest(default) ELSE Loader BY DEF DefaultConfig
    <3>2. QED BY <2>a, <3>1, LatestConfig
  <2>e. PutAllowed(active, q) /\ PutAllowed(default, p) BY <2>a, PutLatest
  <2> HIDE DEF v, q, p, dc
  <2>1. CASE op = "Set"
    <3>1. reply = IF DryRunApplies(active, default, cm)
                  THEN [ok |-> TRUE, modified |-> DryRunApply(active, default, cm)]
                  ELSE [ok |-> FALSE, modified |-> Empty]
      BY <2>1 DEF TrackerDryRun, DryRunRequest, BuildRequest
    <3> HIDE DEF reply
    <3>2. DryRunApplies(active, default, cm) /\ reply.modified = DryRunApply(active, default, cm)
      <4>1. reply.ok BY DEF reply
      <4>2. QED BY <3>1, <4>1
    <3>3. rev \in {None, q} /\ ~Discontinuity(cm, v)
      BY <3>2, <2>b, <2>c DEF DryRunApplies, dc
    <3>4. ActiveOrDefault(active, dc, rev) = [err |-> "OK", value |-> v, revision |-> q]
      BY <3>3, <2>c
    <3> HIDE DEF cm
    <3>5. cm.revision = rev BY <2>b DEF cm
    <3>6. ApplySucceeds(active, default, cm)
      BY <3>3, <3>4, <3>5, <2>e DEF ApplySucceeds, dc
    <3>7. ServerLeaves(active, default, op, m, mask) = Applied(v, cm)
      BY <2>1, <2>b, <3>4 DEF ServerLeaves, dc, cm
    <3>8. Redact(Applied(v, cm)).spec = Redact(Merge(v, Unredact(cm, v))).spec
      BY RedactSpec DEF Applied
    <3>9. reply.modified.spec = Redact(Merge(v, Unredact(cm, v))).spec
      BY <3>2, <2>c, RedactSpec DEF DryRunApply, dc
    <3>10. ServerSucceeds(active, default, op, m, mask)
      BY <2>1, <3>6 DEF ServerSucceeds, cm
    <3>11. QED BY <3>7, <3>8, <3>9, <3>10 DEF reply
  <2>2. CASE op = "Reset"
    <3>0. ServerMask(mask) = mask /\ cm = m /\ rev \in {None, Len(active)}
      BY <2>2, <2>b DEF Foreseen
    <3>1. reply = IF DryRunResets(active, mask, m, rev)
                  THEN [ok |-> TRUE, modified |-> DryRunReset(active, default, mask, m, rev)]
                  ELSE [ok |-> FALSE, modified |-> Empty]
      BY <2>2 DEF TrackerDryRun, DryRunRequest, BuildRequest
    <3> HIDE DEF reply
    <3>2. DryRunResets(active, mask, m, rev) /\ reply.modified = DryRunReset(active, default, mask, m, rev)
      <4>1. reply.ok BY DEF reply
      <4>2. QED BY <3>1, <4>1
    <3>3. StoreGet(active, rev) = StoreGet(active, None)
      BY <3>0 DEF StoreGet
    <3>4. Live(active) /\ StoreGet(active, rev).value = Latest(active)
      <4>1. StoreGet(active, None).err = "OK" BY <3>2, <3>3 DEF DryRunResets
      <4>2. QED BY <4>1, <3>3, <2>a, LatestGet
    <3>5. ServerSucceeds(active, default, op, m, mask)
      BY <2>2, <3>0, <3>2, <3>4 DEF ServerSucceeds, DryRunResets
    <3>6. ServerLeaves(active, default, op, m, mask)
            = IF mask = NilMask THEN dc ELSE ResetTo(Latest(active), dc, mask, m)
      BY <2>2, <3>0 DEF ServerLeaves, dc
    <3>7. reply.modified = Redact(IF mask = NilMask THEN dc ELSE ResetTo(Latest(active), dc, mask, m))
      BY <3>2, <3>4 DEF DryRunReset, dc
    <3>8. QED BY <3>5, <3>6, <3>7 DEF reply
  <2>3. CASE op = "SetDefault"
    <3>1. reply = IF DryRunSetsDefault(default, cm)
                  THEN [ok |-> TRUE, modified |-> DryRunSetDefault(default, cm)]
                  ELSE [ok |-> FALSE, modified |-> Empty]
      BY <2>3 DEF TrackerDryRun, DryRunRequest, BuildRequest
    <3> HIDE DEF reply
    <3>2. DryRunSetsDefault(default, cm) /\ reply.modified = DryRunSetDefault(default, cm)
      <4>1. reply.ok BY DEF reply
      <4>2. QED BY <3>1, <4>1
    <3>3. rev # None BY <2>3, <2>b DEF Foreseen
    <3>4. rev = p /\ ~Discontinuity(cm, dc)
      BY <3>2, <3>3, <2>b, <2>d DEF DryRunSetsDefault
    <3> HIDE DEF cm
    <3>5. cm.revision = p BY <2>b, <3>4 DEF cm
    <3>6. SetDefaultSucceeds(default, cm)
      BY <3>3, <3>4, <3>5, <2>e DEF SetDefaultSucceeds, RequestRevision, dc
    <3>7. ServerSucceeds(active, default, op, m, mask)
      BY <2>3, <3>6 DEF ServerSucceeds, cm
    <3>8. ServerLeaves(active, default, op, m, mask) = NewDefault(dc, cm)
      BY <2>3 DEF ServerLeaves, dc, cm
    <3>9. reply.modified.spec = Redact(Unredact(cm, dc)).spec
      BY <3>2, <2>d, RedactSpec DEF DryRunSetDefault
    <3>10. Redact(NewDefault(dc, cm)).spec = Redact(Unredact(cm, dc)).spec
      BY RedactSpec DEF NewDefault
    <3>11. QED BY <3>7, <3>8, <3>9, <3>10 DEF reply
  <2>4. CASE op = "ResetDefault"
    <3>1. reply = IF DryRunResetsDefault(default, None)
                  THEN [ok |-> TRUE, modified |-> DryRunResetDefault]
                  ELSE [ok |-> FALSE, modified |-> Empty]
      BY <2>4 DEF TrackerDryRun, DryRunRequest, BuildRequest
    <3> HIDE DEF reply
    <3>2. DryRunResetsDefault(default, None) /\ reply.modified = DryRunResetDefault
      <4>1. reply.ok BY DEF reply
      <4>2. QED BY <3>1, <4>1
    <3>3. Live(default) BY <3>2, <2>a, LatestGet DEF DryRunResetsDefault
    <3>4. ServerSucceeds(active, default, op, m, mask)
      BY <2>4, <3>3 DEF ServerSucceeds, DeleteAllowed
    <3>5. ServerLeaves(active, default, op, m, mask) = Loader BY <2>4 DEF ServerLeaves
    <3>6. QED BY <3>2, <3>4, <3>5 DEF reply, DryRunResetDefault
  <2>5. QED BY <2>1, <2>2, <2>3, <2>4
<1>2. QED BY <1>1, InductiveInvariant, PTL
=============================================================================
