-------------------------- MODULE Rollback_proofs ---------------------------
(***************************************************************************)
(* For any fields, configs and edits, and whatever other clients write     *)
(* between the command's requests: what the user confirmed is what is      *)
(* stored, and an unedited rollback restores the plain fields.             *)
(***************************************************************************)
EXTENDS Rollback, Configs_proofs

-----------------------------------------------------------------------------
(* Messages that a command makes and reads.                                 *)

LEMMA RedactMessage ==
  ASSUME NEW m \in Message
  PROVE  Redact(m) \in Message
BY DEF Redact, Message

\* A server's reads give out messages, unless of a future revision.
LEMMA FetchMessage ==
  ASSUME active \in Seq(Stored), default \in Seq(Stored), Clean(active), Clean(default),
         NEW t \in {"Active", "Default"}, NEW rev \in Nullable, rev # None => ~Future(t, rev)
  PROVE  Fetch(t, rev) \in Message /\ Fetch(t, rev).revision \in Nat
<1>1. ASSUME NEW log \in Seq(Stored), NEW d \in Message, Clean(log), ~HasPlaceholder(d),
             rev # None => ~(rev > Len(log))
      PROVE  LET got == ActiveOrDefault(log, d, rev)
             IN /\ SetRevision(Redact(got.value), got.revision) \in Message
                /\ got.revision \in Nat
  <2> DEFINE got == ActiveOrDefault(log, d, rev)
  <2>1. got.err = "OK"
    <3>1. CASE rev = None BY <3>1, <1>1, LatestConfig
    <3>2. CASE rev # None
      <4>1. rev \in Nat /\ ~(rev > Len(log)) BY <3>2, <1>1 DEF Nullable
      <4>2. StoreGet(log, rev).err \in {"NotFound", "OK"} BY <3>2, <4>1 DEF StoreGet
      <4>3. QED BY <4>2 DEF ActiveOrDefault
    <3>3. QED BY <3>1, <3>2
  <2>2. got.value \in Message /\ got.revision \in Nat BY <2>1, <1>1, ActiveOrDefaultFacts
  <2> HIDE DEF got
  <2>3. Redact(got.value) \in Message /\ got.revision \in Nullable BY <2>2, RedactMessage DEF Nullable
  <2>4. SetRevision(Redact(got.value), got.revision) \in Message BY <2>3, SetRevisionMessage
  <2>5. QED BY <2>2, <2>4 DEF got
<1>2. DefaultConfig(default) \in Message /\ ~HasPlaceholder(DefaultConfig(default)) BY DefaultConfigFacts
<1>3. Loader \in Message /\ ~HasPlaceholder(Loader) BY LoaderAssumption
<1>4. CASE t = "Active"
  <2>1. Fetch(t, rev) = GetActiveOrDefault(active, default, rev) BY <1>4 DEF Fetch
  <2>2. rev # None => ~(rev > Len(active)) BY <1>4 DEF Future
  <2>3. QED BY <2>1, <2>2, <1>1, <1>2 DEF GetActiveOrDefault, SetRevision
<1>5. CASE t = "Default"
  <2>1. Fetch(t, rev) = GetDefault(default, rev) BY <1>5 DEF Fetch
  <2>2. rev # None => ~(rev > Len(default)) BY <1>5 DEF Future
  <2>3. QED BY <2>1, <2>2, <1>1, <1>3 DEF GetDefault, SetRevision
<1>6. QED BY <1>4, <1>5

\* Once no secret is missing, what the placeholders stand for does not show.
LEMMA RedactUnredacted ==
  ASSUME NEW m \in Message, NEW e \in Message, ~Discontinuity(m, e)
  PROVE  Redact(Unredact(m, e)).spec = Redact(m).spec
<1>1. \A f \in Fields :
        f \in SecretFields /\ m.spec[f] = Placeholder => e.spec[f] \notin {None, Blank}
  BY DEF Discontinuity, HasSecret
<1>2. Unredact(m, e).spec = [f \in Fields |-> IF f \in SecretFields /\ m.spec[f] = Placeholder
                                              THEN e.spec[f] ELSE m.spec[f]]
  BY DEF Unredact
<1>3. \A f \in Fields :
        (IF f \in SecretFields /\ Unredact(m, e).spec[f] \notin {None, Blank} THEN Placeholder
         ELSE Unredact(m, e).spec[f])
          = IF f \in SecretFields /\ m.spec[f] \notin {None, Blank} THEN Placeholder ELSE m.spec[f]
  BY <1>1, <1>2, ValuesAssumption
<1>4. QED BY <1>3 DEF Redact, HasSecret

\* Without masked fields, servers take requests as they come.
LEMMA NothingMasked ==
  ASSUME MaskedFields = {}, NEW m \in Message, NEW mask
  PROVE  ClearMasked(m) = m /\ ServerMask(mask) = mask
<1>1. m = [spec |-> [f \in Fields |-> m.spec[f]], revision |-> m.revision] BY DEF Message
<1>2. QED BY <1>1 DEF ClearMasked, ServerMask

\* What a request stores has the plain fields that are set in its config.
LEMMA PlainFieldsStored ==
  ASSUME NEW m \in Message, NEW e \in Message, NEW d \in Message, NEW f \in PlainFields, Set(m, f)
  PROVE  /\ ResetTo(e, d, ServerMask(ByPresence(m)), ClearMasked(m)).spec[f] = m.spec[f]
         /\ NewDefault(d, ClearMasked(m)).spec[f] = m.spec[f]
<1>1. f \in Fields /\ f \notin SecretFields /\ f \notin MaskedFields BY FieldsAssumption DEF Fields
<1> DEFINE p == ClearMasked(m)
           mask == ServerMask(ByPresence(m))
           kept == Keep(e, mask)
           patch == Keep(Unredact(p, kept), mask)
<1>2. p.spec[f] = m.spec[f] BY <1>1 DEF ClearMasked
<1>3. f \in mask
  <2>1. f \in ByPresence(m) BY <1>1 DEF ByPresence
  <2>2. ByPresence(m) # NilMask BY <2>1, <1>1, FieldsAssumption DEF NilMask
  <2>3. QED BY <2>1, <2>2 DEF ServerMask
<1> HIDE DEF p, mask, kept
<1>4. Unredact(p, kept).spec[f] = m.spec[f] /\ Unredact(p, d).spec[f] = m.spec[f]
  BY <1>1, <1>2 DEF Unredact
<1>5. patch.spec[f] = m.spec[f] BY <1>1, <1>3, <1>4 DEF Keep
<1> HIDE DEF patch
<1>6. \A a, b : Merge(a, b).spec[f] = IF Set(b, f) THEN b.spec[f] ELSE a.spec[f]
  BY <1>1 DEF Merge
<1>7. Merge(kept, patch).spec[f] = m.spec[f] BY <1>5, <1>6 DEF Set
<1>8. Merge(d, Merge(kept, patch)).spec[f] = m.spec[f] BY <1>6, <1>7 DEF Set
<1>9. QED BY <1>4, <1>8 DEF ResetTo, NewDefault, UnsetRevision, SetRevision, p, mask, kept, patch

-----------------------------------------------------------------------------
(* The parts of the invariant, and what a write does to the stores.         *)

StoresOK ==
  /\ active \in Seq(Stored) /\ Len(active) <= MaxActive /\ Clean(active)
  /\ default \in Seq(Stored) /\ Len(default) <= MaxDefault /\ Clean(default)

CommandOK ==
  /\ step \in {"begin", "target", "dryrun", "confirm", "done", "stopped"}
  /\ target \in {"Active", "Default"}
  /\ at \in Nat
  /\ config \in Message /\ shown \in Message
  /\ stored \in Stored
  /\ edited \in BOOLEAN /\ disturbed \in BOOLEAN

LEMMA InductiveParts == Inductive <=> StoresOK /\ CommandOK /\ ShownOK /\ StoredOK
BY DEF Inductive, TypeOK, StoresOK, CommandOK

\* A store is left alone or one clean value longer.
Grows(log, new, bound) ==
  \/ new = log
  \/ /\ Len(log) < bound
     /\ \E m \in Stored : new = Append(log, m) /\ (m # None => ~HasPlaceholder(m))

LEMMA GrownStore ==
  ASSUME NEW log \in Seq(Stored), NEW new, NEW bound \in Nat, Grows(log, new, bound), Clean(log),
         Len(log) <= bound
  PROVE  /\ new \in Seq(Stored) /\ Len(new) <= bound /\ Clean(new)
         /\ Len(log) <= Len(new) /\ \A i \in 1..Len(log) : new[i] = log[i]
<1>1. CASE new = log BY <1>1
<1>2. ASSUME Len(log) < bound, NEW m \in Stored, new = Append(log, m), m # None => ~HasPlaceholder(m)
      PROVE  /\ new \in Seq(Stored) /\ Len(new) <= bound /\ Clean(new)
             /\ Len(log) <= Len(new) /\ \A i \in 1..Len(log) : new[i] = log[i]
  BY <1>2, AppendFacts
<1>3. QED BY <1>1, <1>2 DEF Grows

LEMMA StoresGrow ==
  ASSUME StoresOK, Grows(active, active', MaxActive), Grows(default, default', MaxDefault)
  PROVE  /\ StoresOK'
         /\ Len(active) <= Len(active') /\ \A i \in 1..Len(active) : active'[i] = active[i]
         /\ Len(default) <= Len(default') /\ \A i \in 1..Len(default) : default'[i] = default[i]
<1>1. MaxActive \in Nat /\ MaxDefault \in Nat BY InputsAssumption
<1>2. QED BY <1>1, GrownStore DEF StoresOK

\* The server's Reset and SetDefault, and the other clients' requests.
LEMMA ResetGrows ==
  ASSUME StoresOK, NEW mask, NEW patch \in Message, ServerReset(mask, patch)
  PROVE  /\ default' = default /\ Live(active) /\ Latest(active) \in Message
         /\ Grows(active, active', MaxActive)
         /\ \/ Latest(active') = None
            \/ /\ ServerMask(mask) # NilMask
               /\ Latest(active') = ResetTo(Latest(active), DefaultConfig(default),
                                            ServerMask(mask), ClearMasked(patch))
<1> DEFINE m == ServerMask(mask)
           x == ResetTo(Latest(active), DefaultConfig(default), m, ClearMasked(patch))
<1>1. /\ Live(active) /\ Len(active) < MaxActive /\ default' = default
      /\ active' = Append(active, None) \/ (m # NilMask /\ active' = Append(active, x))
  BY DEF ServerReset
<1>2. Latest(active) \in Message /\ ~HasPlaceholder(Latest(active))
  <2>1. Len(active) \in 1..Len(active) BY <1>1, EmptySeq DEF StoresOK, Live
  <2>2. QED BY <1>1, <2>1 DEF StoresOK, Live, Latest, Stored, Clean
<1>3. DefaultConfig(default) \in Message /\ ~HasPlaceholder(DefaultConfig(default))
  BY DefaultConfigFacts DEF StoresOK
<1>4. ClearMasked(patch) \in Message BY ClearMaskedMessage
<1> HIDE DEF m
<1>5. x \in Message /\ ~HasPlaceholder(x) BY <1>2, <1>3, <1>4, ResetToMessage
<1> HIDE DEF x
<1>6. None \in Stored /\ x \in Stored /\ active \in Seq(Stored) BY <1>5 DEF Stored, StoresOK
<1>7. Latest(Append(active, None)) = None /\ Latest(Append(active, x)) = x BY <1>6, LatestAppend
<1>8. QED BY <1>1, <1>2, <1>5, <1>6, <1>7 DEF Grows, m, x

LEMMA SetDefaultGrows ==
  ASSUME StoresOK, NEW m \in Message, ServerSetDefault(m)
  PROVE  /\ active' = active /\ Grows(default, default', MaxDefault)
         /\ SetDefaultSucceeds(default, ClearMasked(m))
         /\ DefaultConfig(default) \in Message
         /\ Latest(default') = NewDefault(DefaultConfig(default), ClearMasked(m))
<1> DEFINE x == NewDefault(DefaultConfig(default), ClearMasked(m))
<1>1. /\ Len(default) < MaxDefault /\ SetDefaultSucceeds(default, ClearMasked(m))
      /\ default' = Append(default, x) /\ active' = active
  BY DEF ServerSetDefault
<1>2. DefaultConfig(default) \in Message /\ ~HasPlaceholder(DefaultConfig(default))
  BY DefaultConfigFacts DEF StoresOK
<1>3. ClearMasked(m) \in Message BY ClearMaskedMessage
<1>4. x \in Message /\ ~HasPlaceholder(x) BY <1>2, <1>3, NewDefaultMessage
<1> HIDE DEF x
<1>5. x \in Stored /\ default \in Seq(Stored) BY <1>4 DEF Stored, StoresOK
<1>6. Latest(Append(default, x)) = x BY <1>5, LatestAppend
<1>7. QED BY <1>1, <1>2, <1>4, <1>5, <1>6 DEF Grows, x

LEMMA OtherGrows ==
  ASSUME StoresOK, Other
  PROVE  Grows(active, active', MaxActive) /\ Grows(default, default', MaxDefault)
<1>1. PICK m \in OtherSpecs :
       \/ OtherSet(SetRevision(m, GetActiveOrDefault(active, default, None).revision))
       \/ ServerSetDefault(SetRevision(m, GetDefault(default, None).revision))
       \/ OtherResetDefault
       \/ \E mask \in OtherMasks : ServerReset(mask, m)
  BY DEF Other
<1>2. m \in Message BY InputsAssumption
<1>3. /\ GetActiveOrDefault(active, default, None).revision \in Nullable
      /\ GetDefault(default, None).revision \in Nullable
  <2>1. Fetch("Active", None).revision \in Nat /\ Fetch("Default", None).revision \in Nat
    BY FetchMessage DEF StoresOK, Nullable
  <2>2. QED BY <2>1 DEF Fetch, Nullable
<1>4. CASE OtherSet(SetRevision(m, GetActiveOrDefault(active, default, None).revision))
  <2> DEFINE n == SetRevision(m, GetActiveOrDefault(active, default, None).revision)
             req == ClearMasked(n)
             got == ActiveOrDefault(active, DefaultConfig(default), n.revision)
             x == Applied(got.value, req)
  <2>1. /\ Len(active) < MaxActive /\ ApplySucceeds(active, default, req)
        /\ active' = Append(active, x) /\ default' = default
    BY <1>4 DEF OtherSet
  <2>2. n \in Message BY <1>2, <1>3, SetRevisionMessage
  <2> HIDE DEF n
  <2>3. req \in Message BY <2>2, ClearMaskedMessage
  <2>4. req.revision = n.revision BY DEF ClearMasked
  <2>5. got.err = "OK" BY <2>1, <2>4 DEF ApplySucceeds
  <2>6. DefaultConfig(default) \in Message /\ ~HasPlaceholder(DefaultConfig(default))
    BY DefaultConfigFacts DEF StoresOK
  <2>7. n.revision \in Nullable BY <2>2 DEF Message, Nullable
  <2>8. got.value \in Message /\ ~HasPlaceholder(got.value)
    BY <2>5, <2>6, <2>7, ActiveOrDefaultFacts DEF StoresOK
  <2> HIDE DEF got, req
  <2>9. x \in Message /\ ~HasPlaceholder(x) BY <2>3, <2>8, AppliedMessage
  <2>10. QED BY <2>1, <2>9 DEF Grows, Stored
<1>5. CASE ServerSetDefault(SetRevision(m, GetDefault(default, None).revision))
  <2>1. SetRevision(m, GetDefault(default, None).revision) \in Message BY <1>2, <1>3, SetRevisionMessage
  <2>2. QED BY <2>1, <1>5, SetDefaultGrows DEF Grows
<1>6. CASE OtherResetDefault BY <1>6 DEF OtherResetDefault, Grows, Stored
<1>7. CASE \E mask \in OtherMasks : ServerReset(mask, m) BY <1>2, <1>7, ResetGrows DEF Grows
<1>8. QED BY <1>1, <1>4, <1>5, <1>6, <1>7

-----------------------------------------------------------------------------
(* The steps.                                                               *)

LEMMA InitInductive == Init => Inductive
<1> SUFFICES ASSUME Init PROVE Inductive
  OBVIOUS
<1>1. StoresOK BY InputsAssumption DEF Init, StoresOK, Clean
<1>2. CommandOK BY EmptyMessage DEF Init, CommandOK, Stored
<1>3. ShownOK /\ StoredOK BY DEF Init, ShownOK, StoredOK
<1>4. QED BY <1>1, <1>2, <1>3, InductiveParts

\* Another client's write leaves the command what it has read.
LEMMA OtherStep ==
  ASSUME Inductive, Other
  PROVE  Inductive'
<1>1. StoresOK /\ CommandOK /\ ShownOK /\ StoredOK BY InductiveParts
<1>2. disturbed' = TRUE /\ UNCHANGED <<step, target, at, config, shown, stored, edited>>
  BY DEF Other, command
<1>3. StoresOK' BY <1>1, OtherGrows, StoresGrow
<1>4. CommandOK' BY <1>1, <1>2 DEF CommandOK
<1>5. ShownOK' BY <1>1, <1>2 DEF ShownOK, Redact, HasSecret
<1>6. StoredOK' BY <1>1, <1>2 DEF StoredOK, Set
<1>7. QED BY <1>3, <1>4, <1>5, <1>6, InductiveParts, PTL

\* The reads, the user's changes of the config, and what ends the command.
LEMMA ReadStep ==
  ASSUME Inductive,
         \/ \E t \in Targets, rev \in 0..MaxActive + 1 : GetCurrent(t, rev)
         \/ GetTarget \/ Decline
         \/ \E answer \in Answers : Ask(answer)
         \/ \E m \in Edits : Edit(m)
  PROVE  Inductive'
<1>a. StoresOK /\ CommandOK /\ ShownOK /\ StoredOK BY InductiveParts
<1>b. UNCHANGED <<active, default, shown, stored, disturbed>> /\ step \notin {"done"}
      /\ step' \in {"target", "dryrun", "stopped"}
  BY DEF GetCurrent, GetTarget, Decline, Ask, Edit, Stop, stores
<1>c. stored = None BY <1>a, <1>b DEF StoredOK
<1>1. target' \in {"Active", "Default"} /\ at' \in Nat /\ edited' \in BOOLEAN /\ config' \in Message
  <2>1. ASSUME NEW t \in Targets, NEW rev \in 0..MaxActive + 1, GetCurrent(t, rev)
        PROVE  /\ target' \in {"Active", "Default"} /\ at' \in Nat /\ edited' \in BOOLEAN
               /\ config' \in Message
    <3>1. t \in {"Active", "Default"} /\ rev \in Nat BY InputsAssumption
    <3>2. Fetch(t, None) \in Message BY <3>1, <1>a, FetchMessage DEF StoresOK, Nullable
    <3>3. QED BY <2>1, <3>1, <3>2, <1>a DEF GetCurrent, CommandOK
  <2>2. CASE GetTarget
    <3>1. UNCHANGED <<target, at, edited>> BY <2>2 DEF GetTarget
    <3>2. CASE config' = config BY <3>1, <3>2, <1>a DEF CommandOK
    <3>3. CASE ~Future(target, at) /\ config' = SetRevision(Fetch(target, at), config.revision)
      <4>1. target \in {"Active", "Default"} /\ at \in Nullable /\ config.revision \in Nullable
        BY <1>a DEF CommandOK, Nullable, Message
      <4>2. Fetch(target, at) \in Message BY <3>3, <4>1, <1>a, FetchMessage DEF StoresOK
      <4>3. SetRevision(Fetch(target, at), config.revision) \in Message BY <4>1, <4>2, SetRevisionMessage
      <4>4. QED BY <3>1, <3>3, <4>3, <1>a DEF CommandOK
    <3>4. QED BY <2>2, <3>2, <3>3 DEF GetTarget
  <2>3. CASE Decline BY <2>3, <1>a DEF Decline, CommandOK
  <2>4. ASSUME NEW answer \in Answers, Ask(answer)
        PROVE  /\ target' \in {"Active", "Default"} /\ at' \in Nat /\ edited' \in BOOLEAN
               /\ config' \in Message
    <3> DEFINE spec == [f \in Fields |->
                          IF f \in SecretFields /\ config.spec[f] = Placeholder /\ ~HasSecret(Existing, f)
                          THEN answer ELSE config.spec[f]]
    <3>1. answer \in Data /\ config \in Message BY <1>a, InputsAssumption DEF CommandOK
    <3>2. spec \in [Fields -> Data \cup {Placeholder, None}] BY <3>1 DEF Message
    <3>3. config' = [config EXCEPT !.spec = spec] /\ edited' = TRUE /\ UNCHANGED <<target, at>>
      BY <2>4 DEF Ask
    <3> HIDE DEF spec
    <3>4. config' \in Message BY <3>1, <3>2, <3>3 DEF Message
    <3>5. QED BY <3>3, <3>4, <1>a DEF CommandOK
  <2>5. ASSUME NEW m \in Edits, Edit(m)
        PROVE  /\ target' \in {"Active", "Default"} /\ at' \in Nat /\ edited' \in BOOLEAN
               /\ config' \in Message
    <3>1. m \in Message /\ config.revision \in Nullable
      BY <1>a, InputsAssumption DEF CommandOK, Message, Nullable
    <3>2. SetRevision(m, config.revision) \in Message BY <3>1, SetRevisionMessage
    <3>3. QED BY <2>5, <3>2, <1>a DEF Edit, CommandOK
  <2>6. QED BY <2>1, <2>2, <2>3, <2>4, <2>5
<1>2. StoresOK' BY <1>a, <1>b DEF StoresOK, Clean
<1>3. CommandOK' BY <1>1, <1>a, <1>b DEF CommandOK
<1>4. ShownOK' /\ StoredOK' BY <1>b, <1>c DEF ShownOK, StoredOK
<1>5. QED BY <1>2, <1>3, <1>4, InductiveParts, PTL

\* What the dry run answers.
LEMMA DryRunStep ==
  ASSUME Inductive, DryRun
  PROVE  Inductive'
<1>a. StoresOK /\ CommandOK /\ ShownOK /\ StoredOK BY InductiveParts
<1>b. /\ step = "dryrun" /\ ~Missing /\ UNCHANGED <<active, default, target, at, config, stored, edited>>
      /\ disturbed' = FALSE
  BY DEF DryRun, stores
<1>c. stored = None BY <1>a, <1>b DEF StoredOK
<1>2. StoresOK' BY <1>a, <1>b DEF StoresOK, Clean
<1>3. StoredOK' BY <1>b, <1>c DEF StoredOK
<1>4. CASE step' = "stopped" /\ shown' = shown
  <2>1. CommandOK' BY <1>4, <1>a, <1>b DEF CommandOK
  <2>2. ShownOK' BY <1>4 DEF ShownOK
  <2>3. QED BY <2>1, <2>2, <1>2, <1>3, InductiveParts, PTL
<1>5. CASE step' = "confirm" /\ shown' = DryRunReply /\ ~DryRunFails
  <2>0. config \in Message /\ target \in {"Active", "Default"} BY <1>a DEF CommandOK
  <2>1. CASE target = "Active"
    <3> DEFINE e == Latest(active)
               d == DefaultConfig(default)
               x == ResetTo(e, d, ByPresence(config), config)
    <3>1. Live(active) BY <1>5, <2>1 DEF DryRunFails
    <3>2. e \in Message /\ ~HasPlaceholder(e)
      <4>1. Len(active) \in 1..Len(active) BY <3>1, <1>a, EmptySeq DEF StoresOK, Live
      <4>2. QED BY <3>1, <4>1, <1>a DEF StoresOK, Live, Latest, Stored, Clean
    <3>3. d \in Message /\ ~HasPlaceholder(d) BY <1>a, DefaultConfigFacts DEF StoresOK
    <3>4. StoreGet(active, None).value = e BY <3>1, <1>a, LatestGet DEF StoresOK
    <3> HIDE DEF e, d
    <3>5. x \in Message BY <2>0, <3>2, <3>3, ResetToMessage
    <3>6. shown' = Redact(IF ByPresence(config) = NilMask THEN d ELSE x)
      BY <1>5, <2>1, <3>4 DEF DryRunReply, DryRunReset, d
    <3> HIDE DEF x
    <3>7. shown' \in Message BY <3>3, <3>5, <3>6, RedactMessage
    <3>8. CommandOK' BY <1>5, <3>7, <1>a, <1>b DEF CommandOK
    <3>9. DryRunReply' = DryRunReply BY <1>b DEF DryRunReply
    <3>10. ShownOK' BY <1>5, <2>1, <3>1, <3>9, <1>b DEF ShownOK, Live
    <3>11. QED BY <3>8, <3>10, <1>2, <1>3, InductiveParts, PTL
  <2>2. CASE target = "Default"
    <3> DEFINE e == DefaultConfig(default)
    <3>1. ~Discontinuity(config, e) BY <1>5, <1>b, <2>2 DEF Missing, Existing
    <3>2. e \in Message BY <1>a, DefaultConfigFacts DEF StoresOK
    <3>3. /\ ActiveOrDefault(default, Loader, None).value = e
          /\ ActiveOrDefault(default, Loader, None).revision \in Nat
      BY <1>a, LatestConfig DEF StoresOK, DefaultConfig
    <3> HIDE DEF e
    <3>4. shown' = SetRevision(Redact(Unredact(config, e)), ActiveOrDefault(default, Loader, None).revision)
      BY <1>5, <2>2, <3>3 DEF DryRunReply, DryRunSetDefault
    <3>5. Unredact(config, e) \in Message BY <2>0, <3>2, UnredactMessage
    <3>6. Redact(Unredact(config, e)) \in Message BY <3>5, RedactMessage
    <3>7. shown' \in Message BY <3>3, <3>4, <3>6, SetRevisionMessage DEF Nullable
    <3>8. shown'.spec = Redact(config).spec BY <3>1, <3>2, <3>4, <2>0, RedactUnredacted DEF SetRevision
    <3>9. CommandOK' BY <1>5, <3>7, <1>a, <1>b DEF CommandOK
    <3>10. ShownOK' BY <2>2, <3>8, <1>b DEF ShownOK, Redact, HasSecret
    <3>11. QED BY <3>9, <3>10, <1>2, <1>3, InductiveParts, PTL
  <2>3. QED BY <2>0, <2>1, <2>2
<1>6. QED BY <1>4, <1>5 DEF DryRun, Stop

\* The request is made, or fails.
LEMMA PerformStep ==
  ASSUME Inductive, Perform
  PROVE  Inductive'
<1>a. StoresOK /\ CommandOK /\ ShownOK /\ StoredOK BY InductiveParts
<1>b. /\ step = "confirm" /\ step' = "done" /\ UNCHANGED <<target, at, config, shown, edited, disturbed>>
  BY DEF Perform
<1>c. stored = None /\ config \in Message /\ target \in {"Active", "Default"}
  BY <1>a, <1>b DEF StoredOK, CommandOK
<1>1. ShownOK' BY <1>b DEF ShownOK
<1>2. CASE UNCHANGED <<active, default, stored>>
  <2>1. StoresOK' BY <1>2, <1>a DEF StoresOK, Clean
  <2>2. CommandOK' BY <1>2, <1>a, <1>b DEF CommandOK
  <2>3. StoredOK' BY <1>2, <1>c DEF StoredOK
  <2>4. QED BY <1>1, <2>1, <2>2, <2>3, InductiveParts, PTL
<1>3. CASE target = "Active" /\ ServerReset(ByPresence(config), config) /\ stored' = Latest(active')
  <2>1. /\ Grows(active, active', MaxActive) /\ default' = default /\ Latest(active) \in Message
        /\ stored' = None \/ stored' = ResetTo(Latest(active), DefaultConfig(default),
                                               ServerMask(ByPresence(config)), ClearMasked(config))
    BY <1>3, <1>a, <1>c, ResetGrows
  <2>2. StoresOK' BY <2>1, <1>a, StoresGrow DEF Grows
  <2>3. stored' \in Stored
    <3>1. active' # <<>> BY <1>3, <1>a DEF ServerReset, StoresOK
    <3>2. Len(active') \in 1..Len(active') BY <3>1, <2>2, EmptySeq DEF StoresOK
    <3>3. QED BY <1>3, <2>2, <3>2 DEF StoresOK, Latest
  <2>4. CommandOK' BY <2>3, <1>a, <1>b DEF CommandOK
  <2>5. DefaultConfig(default) \in Message BY <1>a, DefaultConfigFacts DEF StoresOK
  <2>6. StoredOK' BY <2>1, <2>5, <1>b, <1>c, PlainFieldsStored DEF StoredOK, Set
  <2>7. QED BY <1>1, <2>2, <2>4, <2>6, InductiveParts, PTL
<1>4. CASE target = "Default" /\ ServerSetDefault(config) /\ stored' = Latest(default')
  <2>1. /\ Grows(default, default', MaxDefault) /\ active' = active
        /\ DefaultConfig(default) \in Message
        /\ stored' = NewDefault(DefaultConfig(default), ClearMasked(config))
    BY <1>4, <1>a, <1>c, SetDefaultGrows
  <2>2. StoresOK' BY <2>1, <1>a, StoresGrow DEF Grows
  <2>3. stored' \in Stored
    <3>1. default' # <<>> BY <1>4, <1>a DEF ServerSetDefault, StoresOK
    <3>2. Len(default') \in 1..Len(default') BY <3>1, <2>2, EmptySeq DEF StoresOK
    <3>3. QED BY <1>4, <2>2, <3>2 DEF StoresOK, Latest
  <2>4. CommandOK' BY <2>3, <1>a, <1>b DEF CommandOK
  <2>6. StoredOK' BY <2>1, <1>b, <1>c, PlainFieldsStored DEF StoredOK, Set
  <2>7. QED BY <1>1, <2>2, <2>4, <2>6, InductiveParts, PTL
<1>5. QED BY <1>2, <1>3, <1>4, <1>c DEF Perform, Request, stores

LEMMA NextInductive ==
  ASSUME Inductive, [Next]_vars
  PROVE  Inductive'
<1>1. CASE UNCHANGED vars
  <2>1. StoresOK /\ CommandOK /\ ShownOK /\ StoredOK BY InductiveParts
  <2>2. UNCHANGED <<active, default, step, target, at, config, shown, stored, edited, disturbed>>
    BY <1>1 DEF vars, stores, command
  <2>3. StoresOK' /\ CommandOK' BY <2>1, <2>2 DEF StoresOK, CommandOK, Clean
  <2>4. ShownOK' BY <2>1, <2>2 DEF ShownOK, DryRunReply
  <2>5. StoredOK' BY <2>1, <2>2 DEF StoredOK, Set
  <2>6. QED BY <2>3, <2>4, <2>5, InductiveParts, PTL
<1>2. QED BY <1>1, OtherStep, ReadStep, DryRunStep, PerformStep DEF Next

LEMMA InductiveInvariant == Spec => []Inductive
BY InitInductive, NextInductive, PTL DEF Spec

-----------------------------------------------------------------------------
(* What follows.                                                            *)

\* The stores hold messages and deletions and the command's variables have
\* their types, whatever other clients write.
THEOREM TypeCorrect == Spec => []TypeOK
<1>1. Inductive => TypeOK BY DEF Inductive
<1>2. QED BY <1>1, InductiveInvariant, PTL

\* The request stores what was shown.
LEMMA PerformStoresShown ==
  ASSUME MaskedFields = {}, Inductive, Perform
  PROVE  ShownIsStored'
<1>a. StoresOK /\ CommandOK /\ ShownOK /\ StoredOK BY InductiveParts
<1>b. step = "confirm" /\ UNCHANGED <<target, config, shown, disturbed>> BY DEF Perform
<1>c. stored = None /\ config \in Message /\ target \in {"Active", "Default"}
  BY <1>a, <1>b DEF StoredOK, CommandOK
<1>d. ClearMasked(config) = config /\ ServerMask(ByPresence(config)) = ByPresence(config)
  BY <1>c, NothingMasked
<1> SUFFICES ASSUME stored' # None, target = "Default" \/ ~disturbed
             PROVE  Redact(stored').spec = shown.spec
  BY <1>b DEF ShownIsStored
<1>1. CASE target = "Active" /\ ServerReset(ByPresence(config), config) /\ stored' = Latest(active')
  <2> DEFINE x == ResetTo(Latest(active), DefaultConfig(default), ByPresence(config), config)
  <2>1. /\ Live(active) /\ ByPresence(config) # NilMask /\ stored' = x
    BY <1>1, <1>a, <1>c, <1>d, ResetGrows
  <2>2. StoreGet(active, None).value = Latest(active) BY <2>1, <1>a, LatestGet DEF StoresOK
  <2>3. shown = Redact(x) BY <1>1, <1>a, <1>b, <2>1, <2>2 DEF ShownOK, DryRunReply, DryRunReset
  <2>4. QED BY <2>1, <2>3
<1>2. CASE target = "Default" /\ ServerSetDefault(config) /\ stored' = Latest(default')
  <2> DEFINE e == DefaultConfig(default)
  <2>1. /\ e \in Message /\ ~Discontinuity(config, e) /\ stored' = UnsetRevision(Unredact(config, e))
    BY <1>2, <1>a, <1>c, <1>d, SetDefaultGrows DEF SetDefaultSucceeds, NewDefault
  <2> HIDE DEF e
  <2>2. Redact(stored').spec = Redact(Unredact(config, e)).spec BY <2>1, RedactSpec
  <2>3. shown.spec = Redact(config).spec BY <1>2, <1>a, <1>b DEF ShownOK
  <2>4. QED BY <2>1, <2>2, <2>3, <1>c, RedactUnredacted
<1>3. QED BY <1>1, <1>2, <1>c DEF Perform, Request

\* If the configs have no masked fields, what the user confirmed is what is
\* stored, unless another client wrote in between; and for the default config
\* even then.  (The dry run, unlike the request, does not clear masked fields.)
THEOREM ShownIsStoredCorrect == MaskedFields = {} => (Spec => []ShownIsStored)
<1> SUFFICES ASSUME MaskedFields = {} PROVE Spec => []ShownIsStored
  OBVIOUS
<1>1. Init => ShownIsStored BY DEF Init, ShownIsStored
<1>2. ASSUME Inductive, ShownIsStored, [Next]_vars PROVE ShownIsStored'
  <2>1. CASE Perform BY <1>2, <2>1, PerformStoresShown
  <2>2. CASE Other \/ UNCHANGED vars
    <3>1. UNCHANGED <<target, shown, stored>> /\ disturbed' \in {TRUE, disturbed}
      BY <2>2 DEF Other, command, vars
    <3>2. QED BY <1>2, <3>1 DEF ShownIsStored
  <2>3. CASE ~Perform /\ ~Other /\ ~UNCHANGED vars
    <3>1. Inductive' BY <1>2, NextInductive
    <3>2. step' # "done"
      BY <1>2, <2>3 DEF Next, GetCurrent, GetTarget, DryRun, Ask, Edit, Decline, Stop
    <3>3. stored' = None BY <3>1, <3>2 DEF Inductive, StoredOK
    <3>4. QED BY <3>3 DEF ShownIsStored
  <2>4. QED BY <2>1, <2>2, <2>3
<1>3. QED BY <1>1, <1>2, InductiveInvariant, PTL DEF Spec

\* The plain fields of a revision that is kept are those read.
LEMMA FetchPlain ==
  ASSUME KeepsAll, StoresOK, NEW t \in {"Active", "Default"}, NEW rev \in Nat, rev # 0, ~Future(t, rev),
         NEW log, log = IF t = "Active" THEN active ELSE default, log[rev] # None
  PROVE  rev <= Len(log) /\ \A f \in PlainFields : Fetch(t, rev).spec[f] = log[rev].spec[f]
<1>1. log \in Seq(Stored) /\ Len(log) <= Retention /\ Retention \in Nat /\ Len(log) \in Nat
  BY RetentionAssumption, InputsAssumption DEF StoresOK, KeepsAll
<1>2. rev <= Len(log) /\ rev # None BY <1>1, ValuesAssumption DEF Future
<1>3. ~(rev > Len(log)) /\ ~(rev <= Len(log) - Retention) BY <1>1, <1>2
<1>4. StoreGet(log, rev) = [err |-> "OK", value |-> log[rev], revision |-> rev]
  BY <1>2, <1>3 DEF StoreGet
<1>5. \A d : ActiveOrDefault(log, d, rev).value = log[rev] BY <1>4 DEF ActiveOrDefault
<1>6. Fetch(t, rev).spec = Redact(log[rev]).spec
  BY <1>5 DEF Fetch, GetActiveOrDefault, GetDefault, SetRevision
<1>7. \A f \in PlainFields : f \in Fields /\ f \notin SecretFields BY FieldsAssumption DEF Fields
<1>8. \A f \in PlainFields : Redact(log[rev]).spec[f] = log[rev].spec[f] BY <1>7 DEF Redact
<1>9. QED BY <1>2, <1>6, <1>8

LEMMA NextConfig ==
  ASSUME KeepsAll, Inductive, ConfigOK, [Next]_vars
  PROVE  ConfigOK'
<1>a. StoresOK /\ CommandOK BY InductiveParts
<1> SUFFICES ASSUME step' \in {"dryrun", "confirm", "done"}, ~edited', at' # 0
             PROVE  /\ at' <= Len(TargetLog')
                    /\ TargetLog'[at'] # None =>
                         \A f \in PlainFields : config'.spec[f] = TargetLog'[at'].spec[f]
  BY DEF ConfigOK
<1>1. CASE GetTarget
  <2>1. /\ step = "target" /\ ~Future(target, at) /\ UNCHANGED <<active, default, target, at>>
        /\ config' = SetRevision(Fetch(target, at), config.revision)
    BY <1>1 DEF GetTarget, Stop, stores
  <2>2. TargetLog' = TargetLog /\ at \in Nat /\ at # 0 /\ target \in {"Active", "Default"}
    BY <2>1, <1>a DEF TargetLog, CommandOK
  <2>3. at <= Len(TargetLog) BY <2>1, <2>2, <1>a DEF Future, TargetLog, StoresOK
  <2>4. TargetLog[at] # None => \A f \in PlainFields : Fetch(target, at).spec[f] = TargetLog[at].spec[f]
    BY <2>1, <2>2, <1>a, FetchPlain DEF TargetLog
  <2>5. QED BY <2>1, <2>2, <2>3, <2>4 DEF SetRevision
<1>2. CASE ~GetTarget
  <2>1. /\ step \in {"dryrun", "confirm", "done"} /\ UNCHANGED <<target, at, config, edited>>
        /\ Grows(active, active', MaxActive) /\ Grows(default, default', MaxDefault)
    <3>1. CASE Other BY <3>1, <1>a, OtherGrows DEF Other, command
    <3>2. CASE Perform
      <4>1. config \in Message /\ target \in {"Active", "Default"} BY <1>a DEF CommandOK
      <4>2. Grows(active, active', MaxActive) /\ Grows(default, default', MaxDefault)
        BY <3>2, <4>1, <1>a, ResetGrows, SetDefaultGrows DEF Perform, Request, Grows, stores
      <4>3. QED BY <3>2, <4>2 DEF Perform
    <3>3. CASE DryRun \/ UNCHANGED vars BY <3>3 DEF DryRun, Grows, vars, stores, command
    <3>4. CASE ~Other /\ ~Perform /\ ~DryRun /\ ~UNCHANGED vars
      BY <3>4, <1>2 DEF Next, GetCurrent, Ask, Edit, Decline, Stop
    <3>5. QED BY <3>1, <3>2, <3>3, <3>4
  <2>2. /\ at <= Len(TargetLog) /\ at \in Nat /\ at # 0
        /\ TargetLog[at] # None => \A f \in PlainFields : config.spec[f] = TargetLog[at].spec[f]
    BY <2>1, <1>a DEF ConfigOK, CommandOK
  <2>3. /\ Len(active) <= Len(active') /\ \A i \in 1..Len(active) : active'[i] = active[i]
        /\ Len(default) <= Len(default') /\ \A i \in 1..Len(default) : default'[i] = default[i]
        /\ StoresOK'
    BY <2>1, <1>a, StoresGrow
  <2>4. /\ Len(TargetLog) \in Nat /\ Len(TargetLog') \in Nat /\ Len(TargetLog) <= Len(TargetLog')
        /\ \A i \in 1..Len(TargetLog) : TargetLog'[i] = TargetLog[i]
    BY <2>1, <2>3, <1>a DEF TargetLog, StoresOK
  <2>5. at \in 1..Len(TargetLog) BY <2>2, <2>4
  <2>6. QED BY <2>1, <2>2, <2>4, <2>5
<1>3. QED BY <1>1, <1>2

\* If the stores keep every revision, an unedited rollback restores every plain
\* field that was set at the revision asked for, although other clients may
\* have written since it was read.
THEOREM RestoresTargetCorrect == KeepsAll => (Spec => []RestoresTarget)
<1> SUFFICES ASSUME KeepsAll PROVE Spec => []RestoresTarget
  OBVIOUS
<1>1. Init => ConfigOK BY DEF Init, ConfigOK
<1>2. Inductive /\ ConfigOK /\ [Next]_vars => ConfigOK' BY NextConfig
<1>3. Inductive /\ ConfigOK => RestoresTarget
  BY DEF Inductive, StoredOK, ConfigOK, RestoresTarget, Set
<1>4. QED BY <1>1, <1>2, <1>3, InductiveInvariant, PTL DEF Spec
=============================================================================
