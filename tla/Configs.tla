------------------------------ MODULE Configs -------------------------------
(***************************************************************************)
(* Configuration messages as server/config.go handles them, and what its   *)
(* stores answer.  A message is a flat function from fields to values; the *)
(* nesting of real messages is left out.  Some fields hold secrets, which  *)
(* leave the server only as the placeholder "***"; some are masked, which  *)
(* the server does not let clients change.  The revision field is apart:   *)
(* it carries the store's revision to clients and back.                    *)
(*                                                                         *)
(* A store is the log of its writes, None for a deletion; module           *)
(* ValueStore shows that the in-memory store serves exactly this.          *)
(***************************************************************************)
EXTENDS Integers, Sequences

CONSTANTS
  PlainFields,   \* fields without any option
  SecretFields,  \* fields with (cli.flag).secret
  MaskedFields,  \* fields with (core.masked)
  Data,          \* the values of a field
  Blank,         \* among them, the empty string
  Placeholder,   \* "***"
  None,          \* an unset field, an absent revision, a deleted value
  Loader,        \* the message that newDefaultSpec() makes
  Retention      \* how many revisions a store keeps

Fields == PlainFields \cup SecretFields \cup MaskedFields

ASSUME FieldsAssumption ==
  /\ PlainFields \cap (SecretFields \cup MaskedFields) = {} /\ SecretFields \cap MaskedFields = {}
  /\ None \notin Fields
ASSUME RetentionAssumption == Retention \in Nat \ {0}

Message ==
  [spec : [Fields -> Data \cup {Placeholder, None}], revision : Nat \cup {None}]
Empty == [spec |-> [f \in Fields |-> None], revision |-> None]
Stored == Message \cup {None}

ASSUME ValuesAssumption ==
  /\ Placeholder # None /\ {Placeholder, None} \cap Data = {}
  /\ Blank \in Data
  /\ None \notin Int /\ None \notin Message

\* A field mask is a set of paths; a request may come without one.
RevisionPath == "revision"
NilMask == {None}
Paths == Fields \cup {RevisionPath, "", None}
ValidMask(mask) == mask \subseteq Fields \cup {RevisionPath}

HasPlaceholder(m) == \E f \in SecretFields : m.spec[f] = Placeholder

ASSUME LoaderAssumption ==
  Loader \in Message /\ Loader.revision = None /\ ~HasPlaceholder(Loader)

Set(m, f) == m.spec[f] # None

\* merge.MergeWithReplace: what is set in src replaces what is in dst.
Merge(dst, src) ==
  [spec     |-> [f \in Fields |-> IF Set(src, f) THEN src.spec[f] ELSE dst.spec[f]],
   revision |-> IF src.revision # None THEN src.revision ELSE dst.revision]

\* fieldmask.ExclusiveKeep
Keep(m, mask) ==
  [spec     |-> [f \in Fields |-> IF f \in mask THEN m.spec[f] ELSE None],
   revision |-> IF RevisionPath \in mask THEN m.revision ELSE None]

\* fieldmask.ByPresence
ByPresence(m) ==
  {f \in Fields : Set(m, f)} \cup (IF m.revision # None THEN {RevisionPath} ELSE {})

SetRevision(m, rev) == [spec |-> m.spec, revision |-> rev]
UnsetRevision(m) == SetRevision(m, None)

\* clearMaskedFields
ClearMasked(m) ==
  [spec     |-> [f \in Fields |-> IF f \in MaskedFields THEN None ELSE m.spec[f]],
   revision |-> m.revision]

\* RedactSecrets and UnredactSecrets, generated for every config type.  A
\* secret that is set to the empty string is no secret: it is not redacted.
HasSecret(m, f) == m.spec[f] \notin {None, Blank}

Redact(m) ==
  [spec     |-> [f \in Fields |-> IF f \in SecretFields /\ HasSecret(m, f) THEN Placeholder
                                  ELSE m.spec[f]],
   revision |-> m.revision]

\* A placeholder for a secret that does not exist: codes.InvalidArgument.
Discontinuity(m, existing) ==
  \E f \in SecretFields : m.spec[f] = Placeholder /\ ~HasSecret(existing, f)

Unredact(m, existing) ==
  [spec     |-> [f \in Fields |-> IF f \in SecretFields /\ m.spec[f] = Placeholder
                                  THEN existing.spec[f] ELSE m.spec[f]],
   revision |-> m.revision]

-----------------------------------------------------------------------------
(* Stores.                                                                  *)

Live(log) == log # <<>> /\ log[Len(log)] # None
Latest(log) == log[Len(log)]

\* No value of the store has a placeholder in place of a secret.
Clean(log) == \A i \in 1..Len(log) : log[i] # None => ~HasPlaceholder(log[i])

\* Get, at a revision if one is given.
StoreGet(log, at) ==
  LET rev == IF at = None THEN Len(log) ELSE at IN
  IF rev > Len(log)
  THEN [err |-> "OutOfRange", value |-> None, revision |-> 0]
  ELSE IF rev = 0 \/ rev <= Len(log) - Retention \/ log[rev] = None
  THEN [err |-> "NotFound", value |-> None, revision |-> 0]
  ELSE [err |-> "OK", value |-> log[rev], revision |-> rev]

\* Mutant of PutAllowed: the revision is not compared.
PutAllowed_unchecked(log, rev) == TRUE

\* Put WithRevision(rev): 0 asks for the value not to exist.
PutAllowed(log, rev) == IF rev = 0 THEN ~Live(log) ELSE rev = Len(log)

\* Delete, WithRevision(rev) if one is given.
DeleteAllowed(log, rev) == Live(log) /\ (rev = None \/ rev = Len(log))

-----------------------------------------------------------------------------
(* The tracker's operations, as functions of the active store `act' and the *)
(* default store `def': what each stores, and whether it succeeds if        *)
(* nothing happens to the stores meanwhile.                                 *)

\* getDefaultConfigLocked, without a revision.
DefaultConfig(def) == IF Live(def) THEN Latest(def) ELSE Loader

\* Mutant of Applied: placeholders are stored as they come.
Applied_redacted(existing, m) == UnsetRevision(Merge(existing, m))

\* What Apply stores, given the config it found.
Applied(existing, m) == UnsetRevision(Merge(existing, Unredact(m, existing)))

\* getConfigOrDefaultLocked: the active config, else `default' at revision 0.
ActiveOrDefault(act, default, at) ==
  LET got == StoreGet(act, at) IN
  IF got.err = "NotFound" THEN [err |-> "OK", value |-> default, revision |-> 0] ELSE got

ApplySucceeds(act, def, m) ==
  LET got == ActiveOrDefault(act, DefaultConfig(def), m.revision) IN
  /\ got.err = "OK"
  /\ ~Discontinuity(m, got.value)
  /\ PutAllowed(act, got.revision)

\* What Reset stores: the default config, under what the mask keeps of the
\* active config, under what it keeps of the patch.
ResetTo(existing, default, mask, patch) ==
  LET kept == Keep(existing, mask) IN
  Merge(default, Merge(kept, Keep(Unredact(patch, kept), mask)))

\* What stops Reset with a mask.
ResetRefuses(existing, mask, patch) ==
  ~ValidMask(mask) \/ Discontinuity(patch, Keep(existing, mask))

\* Mutant of ServerMask: the masked fields are added only to a given mask.
ServerMask_nil(mask) == IF mask = NilMask THEN mask ELSE mask \cup MaskedFields

\* The server passes a mask with the masked fields, if there are any.
ServerMask(mask) ==
  IF MaskedFields = {} THEN mask
  ELSE (IF mask = NilMask THEN {} ELSE mask) \cup MaskedFields

\* Mutant of RequestRevision: a missing revision is passed on.
RequestRevision_nil(m) == m.revision
RequestRevision(m) == IF m.revision = None THEN 0 ELSE m.revision

\* What SetDefault stores, given the default it found.
NewDefault(existing, m) == UnsetRevision(Unredact(m, existing))

SetDefaultSucceeds(def, m) ==
  ~Discontinuity(m, DefaultConfig(def)) /\ PutAllowed(def, RequestRevision(m))

-----------------------------------------------------------------------------
(* Reads and dry runs.                                                      *)

\* Mutant of GetActiveOrDefault: a default config keeps its own revision.
GetActiveOrDefault_revision(act, def, at) ==
  LET got == ActiveOrDefault(act, DefaultConfig(def), at) IN
  SetRevision(Redact(got.value), IF Live(act) THEN got.revision ELSE Len(def))

\* GetActiveOrDefault, which fails only for a future revision.
GetActiveOrDefault(act, def, at) ==
  LET got == ActiveOrDefault(act, DefaultConfig(def), at) IN
  SetRevision(Redact(got.value), got.revision)

\* GetDefault, likewise.
GetDefault(def, at) ==
  LET got == ActiveOrDefault(def, Loader, at) IN
  SetRevision(Redact(got.value), got.revision)

DryRunApplies(act, def, m) ==
  LET current == ActiveOrDefault(act, DefaultConfig(def), None) IN
  /\ m.revision \in {None, current.revision}
  /\ ~Discontinuity(m, current.value)

\* The modified config, which keeps the revision field of the current one.
DryRunApply(act, def, m) ==
  LET current == ActiveOrDefault(act, DefaultConfig(def), None).value IN
  SetRevision(Redact(Merge(current, Unredact(m, current))), current.revision)

DryRunSetsDefault(def, m) ==
  LET current == ActiveOrDefault(def, Loader, None) IN
  m.revision \in {None, current.revision} /\ ~Discontinuity(m, current.value)

DryRunSetDefault(def, m) ==
  LET current == ActiveOrDefault(def, Loader, None) IN
  SetRevision(Redact(Unredact(m, current.value)), current.revision)

\* DryRunReset starts from the active config at the revision of the request.
DryRunResets(act, mask, patch, at) ==
  LET current == StoreGet(act, at) IN
  current.err = "OK" /\ (mask = NilMask \/ ~ResetRefuses(current.value, mask, patch))

DryRunReset(act, def, mask, patch, at) ==
  Redact(IF mask = NilMask THEN DefaultConfig(def)
         ELSE ResetTo(StoreGet(act, at).value, DefaultConfig(def), mask, patch))

\* DryRunResetDefault, of a default config that has been set.
DryRunResetsDefault(def, at) == StoreGet(def, at).err = "OK"

DryRunResetDefault == Redact(Loader)

\* What DryRun answers: whether it succeeds, and the modified config.
TrackerDryRun(act, def, req) ==
  LET refused == [ok |-> FALSE, modified |-> Empty]
      shows(m) == [ok |-> TRUE, modified |-> m]
  IN
  CASE req.target = "Active" /\ req.action = "Set" ->
         IF DryRunApplies(act, def, req.spec) THEN shows(DryRunApply(act, def, req.spec)) ELSE refused
    [] req.target = "Active" /\ req.action = "Reset" ->
         IF DryRunResets(act, req.mask, req.spec, req.revision)
         THEN shows(DryRunReset(act, def, req.mask, req.spec, req.revision)) ELSE refused
    [] req.target = "Default" /\ req.action = "Set" ->
         IF DryRunSetsDefault(def, req.spec) THEN shows(DryRunSetDefault(def, req.spec)) ELSE refused
    [] req.target = "Default" /\ req.action = "Reset" ->
         IF DryRunResetsDefault(def, req.revision) THEN shows(DryRunResetDefault) ELSE refused

\* The request that the builder of dry-run requests makes.
BuildRequest(target, action, spec, mask, revision) ==
  [target |-> target, action |-> action, spec |-> spec, mask |-> mask, revision |-> revision]

\* Mutant of DryRunRequest: the masked fields are not cleared.
DryRunRequest_unmasked(op, m, mask, at) ==
  CASE op = "Set"          -> BuildRequest("Active", "Set", m, NilMask, None)
    [] op = "Reset"        -> BuildRequest("Active", "Reset", m, mask, at)
    [] op = "SetDefault"   -> BuildRequest("Default", "Set", m, NilMask, None)
    [] op = "ResetDefault" -> BuildRequest("Default", "Reset", Empty, NilMask, None)

\* The dry-run client: the request it makes of a call.  It clears the masked
\* fields of a spec, but neither those of a patch nor completes a mask.
DryRunRequest(op, m, mask, at) ==
  CASE op = "Set"          -> BuildRequest("Active", "Set", ClearMasked(m), NilMask, None)
    [] op = "Reset"        -> BuildRequest("Active", "Reset", m, mask, at)
    [] op = "SetDefault"   -> BuildRequest("Default", "Set", ClearMasked(m), NilMask, None)
    [] op = "ResetDefault" -> BuildRequest("Default", "Reset", Empty, NilMask, None)

-----------------------------------------------------------------------------
(* What the server's operations do if nothing happens meanwhile.            *)

ServerSucceeds(act, def, op, m, mask) ==
  CASE op = "Set" -> ApplySucceeds(act, def, ClearMasked(m))
    [] op = "Reset" ->
         Live(act) /\ (ServerMask(mask) = NilMask
                       \/ ~ResetRefuses(Latest(act), ServerMask(mask), ClearMasked(m)))
    [] op = "SetDefault" -> SetDefaultSucceeds(def, ClearMasked(m))
    [] op = "ResetDefault" -> DeleteAllowed(def, None)

\* The config that is active, or the default, thereafter.
ServerLeaves(act, def, op, m, mask) ==
  CASE op = "Set" ->
         Applied(ActiveOrDefault(act, DefaultConfig(def), m.revision).value, ClearMasked(m))
    [] op = "Reset" ->
         IF ServerMask(mask) = NilMask THEN DefaultConfig(def)
         ELSE ResetTo(Latest(act), DefaultConfig(def), ServerMask(mask), ClearMasked(m))
    [] op = "SetDefault" -> NewDefault(DefaultConfig(def), ClearMasked(m))
    [] op = "ResetDefault" -> Loader

-----------------------------------------------------------------------------
(* History.                                                                 *)

\* The revisions a store lists: since the last deletion, as far as it keeps
\* them.
StoreHistory(log) ==
  {r \in 1..Len(log) : r > Len(log) - Retention /\ \A s \in r..Len(log) : log[s] # None}

\* Mutant of ServerHistory: the tracker does not redact secrets.
ServerHistory_plain(log) == {SetRevision(log[r], r) : r \in StoreHistory(log)}

\* The server's entries: without secrets, each with its revision.
ServerHistory(log) == {SetRevision(Redact(log[r]), r) : r \in StoreHistory(log)}
=============================================================================
