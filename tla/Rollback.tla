------------------------------ MODULE Rollback ------------------------------
(***************************************************************************)
(* The rollback command, server/rollback/rollback.go: a client that reads  *)
(* the current config and the one of an older revision, shows the user     *)
(* what a dry run says would change, and on confirmation resets the active *)
(* config with the old one as the patch, or sets it as the default.  Each  *)
(* request is executed by one server, whose tracker's mutex makes it       *)
(* atomic; other clients' requests come between them.                      *)
(***************************************************************************)
EXTENDS Configs

CONSTANTS
  Targets,     \* the --target values used: "Active", "Default"
  Edits,       \* what the user may turn the config into when editing it
  Answers,     \* what the user may answer when asked for a secret
  OtherSpecs,  \* the specs and patches other clients send
  OtherMasks,  \* the masks they send
  MaxActive,   \* bounds of the model: no store is written past these
  MaxDefault   \* revisions

ASSUME InputsAssumption ==
  /\ Targets \subseteq {"Active", "Default"}
  /\ Edits \subseteq Message /\ OtherSpecs \subseteq Message
  /\ Answers \subseteq Data
  /\ OtherMasks \subseteq SUBSET Paths
  /\ MaxActive \in Nat /\ MaxDefault \in Nat

VARIABLES
  active,     \* the active store
  default,    \* the default store
  step,       \* where the command is
  target,     \* --target
  at,         \* --revision
  config,     \* currentConfig, then targetConfig
  shown,      \* the modified config of the last dry run
  stored,     \* history: what the command's last request stored
  edited,     \* history: the user edited or completed the config
  disturbed   \* history: another client wrote since the last dry run

stores  == <<active, default>>
command == <<step, target, at, config, shown, stored, edited>>
vars == <<stores, command, disturbed>>

-----------------------------------------------------------------------------
(* Other clients.                                                           *)

OtherSet(m) ==
  LET req == ClearMasked(m)
      existing == ActiveOrDefault(active, DefaultConfig(default), m.revision).value
  IN
  /\ Len(active) < MaxActive
  /\ ApplySucceeds(active, default, req)
  /\ active' = Append(active, Applied(existing, req))
  /\ UNCHANGED default

\* The server's Reset: Delete without a mask, else Put.
ServerReset(mask, patch) ==
  LET m == ServerMask(mask) IN
  /\ Live(active) /\ Len(active) < MaxActive
  /\ \/ m = NilMask /\ active' = Append(active, None)
     \/ /\ m # NilMask
        /\ ~ResetRefuses(Latest(active), m, ClearMasked(patch))
        /\ active' = Append(active, ResetTo(Latest(active), DefaultConfig(default), m, ClearMasked(patch)))
  /\ UNCHANGED default

ServerSetDefault(m) ==
  /\ Len(default) < MaxDefault
  /\ SetDefaultSucceeds(default, ClearMasked(m))
  /\ default' = Append(default, NewDefault(DefaultConfig(default), ClearMasked(m)))
  /\ UNCHANGED active

OtherResetDefault ==
  /\ DeleteAllowed(default, None) /\ Len(default) < MaxDefault
  /\ default' = Append(default, None)
  /\ UNCHANGED active

\* Other clients write what they have read, at its revision.
Other ==
  /\ \E m \in OtherSpecs :
       \/ OtherSet(SetRevision(m, GetActiveOrDefault(active, default, None).revision))
       \/ ServerSetDefault(SetRevision(m, GetDefault(default, None).revision))
       \/ OtherResetDefault
       \/ \E mask \in OtherMasks : ServerReset(mask, m)
  /\ disturbed' = TRUE
  /\ UNCHANGED command

-----------------------------------------------------------------------------
(* The command.                                                             *)

\* client.Get or client.GetDefault
Fetch(t, rev) ==
  IF t = "Active" THEN GetActiveOrDefault(active, default, rev) ELSE GetDefault(default, rev)
Future(t, rev) == rev > Len(IF t = "Active" THEN active ELSE default)

Stop == step' = "stopped"

GetCurrent(t, rev) ==
  /\ step = "begin"
  /\ target' = t
  /\ at' = rev
  /\ config' = Fetch(t, None)
  /\ step' = "target"
  /\ UNCHANGED <<stores, shown, stored, edited, disturbed>>

\* Mutant of GetTarget: the revision after the one asked for is fetched.
GetTarget_next ==
  /\ step = "target"
  /\ IF Future(target, at + 1) THEN Stop /\ UNCHANGED config
     ELSE /\ config' = SetRevision(Fetch(target, at + 1), config.revision)
          /\ step' = "dryrun"
  /\ UNCHANGED <<stores, target, at, shown, stored, edited, disturbed>>

\* The target takes the current revision, so that it can be written.
GetTarget ==
  /\ step = "target"
  /\ IF Future(target, at) THEN Stop /\ UNCHANGED config
     ELSE IF Fetch(target, at).revision = config.revision THEN Stop /\ UNCHANGED config
     ELSE /\ config' = SetRevision(Fetch(target, at), config.revision)
          /\ step' = "dryrun"
  /\ UNCHANGED <<stores, target, at, shown, stored, edited, disturbed>>

\* What unredacting the target config is done against.
Existing ==
  IF target = "Active" THEN Keep(Latest(active), ByPresence(config))
  ELSE DefaultConfig(default)

DryRunFails ==
  IF target = "Active" THEN ~Live(active)
  ELSE config.revision # ActiveOrDefault(default, Loader, None).revision

\* Secrets of the target that do not exist any more.
Missing == ~DryRunFails /\ Discontinuity(config, Existing)

DryRunReply ==
  IF target = "Active" THEN DryRunReset(active, default, ByPresence(config), config, None)
  ELSE DryRunSetDefault(default, config)
DryRunCurrent ==
  IF target = "Active" THEN Redact(Latest(active)) ELSE GetDefault(default, None)

\* The dry run fails; or shows no changes; or shows some.
DryRun ==
  /\ step = "dryrun"
  /\ ~Missing
  /\ IF ~DryRunFails => DryRunReply = DryRunCurrent
     THEN Stop /\ UNCHANGED shown
     ELSE step' = "confirm" /\ shown' = DryRunReply
  /\ disturbed' = FALSE
  /\ UNCHANGED <<stores, target, at, config, stored, edited>>

\* Secrets are missing: the user gives their values, and the dry run is retried.
Ask(answer) ==
  /\ step = "dryrun"
  /\ Missing
  /\ config' = [config EXCEPT !.spec = [f \in Fields |->
                  IF f \in SecretFields /\ @[f] = Placeholder /\ ~HasSecret(Existing, f)
                  THEN answer ELSE @[f]]]
  /\ edited' = TRUE
  /\ UNCHANGED <<stores, step, target, at, shown, stored, disturbed>>

Edit(m) ==
  /\ step = "confirm"
  /\ config' = SetRevision(m, config.revision)
  /\ step' = "dryrun"
  /\ edited' = TRUE
  /\ UNCHANGED <<stores, target, at, shown, stored, disturbed>>

\* The user answers no, or interrupts a prompt.
Decline ==
  /\ step = "confirm" \/ (step = "dryrun" /\ Missing)
  /\ Stop
  /\ UNCHANGED <<stores, target, at, config, shown, stored, edited, disturbed>>

\* Mutant of Request: the reset keeps nothing.
Request_maskless ==
  IF target = "Active" THEN ServerReset({}, config) ELSE ServerSetDefault(config)

\* The request that performs the rollback.
Request ==
  IF target = "Active" THEN ServerReset(ByPresence(config), config)
  ELSE ServerSetDefault(config)

\* Whether the server accepts it.
RequestSucceeds ==
  IF target = "Active"
  THEN /\ Live(active)
       /\ ~ResetRefuses(Latest(active), ServerMask(ByPresence(config)), ClearMasked(config))
  ELSE SetDefaultSucceeds(default, ClearMasked(config))

\* The user answers yes: the request is made.  Its error is printed, and so
\* is the success message.
Perform ==
  /\ step = "confirm"
  /\ \/ /\ Request
        /\ stored' = IF target = "Active" THEN Latest(active') ELSE Latest(default')
     \/ /\ ~RequestSucceeds
        /\ UNCHANGED <<stores, stored>>
  /\ step' = "done"
  /\ UNCHANGED <<target, at, config, shown, edited, disturbed>>

-----------------------------------------------------------------------------
Init ==
  /\ active = <<>>
  /\ default = <<>>
  /\ step = "begin"
  /\ target = "Active"
  /\ at = 0
  /\ config = Empty
  /\ shown = Empty
  /\ stored = None
  /\ edited = FALSE
  /\ disturbed = FALSE

Next ==
  \/ Other
  \/ \E t \in Targets, rev \in 0..MaxActive + 1 : GetCurrent(t, rev)
  \/ GetTarget
  \/ DryRun
  \/ \E answer \in Answers : Ask(answer)
  \/ \E m \in Edits : Edit(m)
  \/ Decline
  \/ Perform

Spec == Init /\ [][Next]_vars

-----------------------------------------------------------------------------
\* The store the command is about.
TargetLog == IF target = "Active" THEN active ELSE default

\* The stores and the command's variables have their types.
TypeOK ==
  /\ active \in Seq(Stored) /\ Len(active) <= MaxActive
  /\ default \in Seq(Stored) /\ Len(default) <= MaxDefault
  /\ step \in {"begin", "target", "dryrun", "confirm", "done", "stopped"}
  /\ target \in {"Active", "Default"}
  /\ at \in Nat
  /\ config \in Message /\ shown \in Message
  /\ stored \in Stored
  /\ edited \in BOOLEAN /\ disturbed \in BOOLEAN

\* What the user confirmed is what is stored, unless another client wrote in
\* between; and for the default config even then.
ShownIsStored ==
  stored # None /\ (target = "Default" \/ ~disturbed) => Redact(stored).spec = shown.spec

\* rollback.go:59, "Revert the active or default configuration to a previous
\* revision": an unedited rollback restores every plain field that was set at
\* the revision asked for.
RestoresTarget ==
  stored # None /\ ~edited /\ at # 0 /\ TargetLog[at] # None =>
    \A f \in PlainFields : Set(TargetLog[at], f) => stored.spec[f] = TargetLog[at].spec[f]

-----------------------------------------------------------------------------
(* The inductive invariant from which the proofs start.                     *)

\* What the user is shown when asked to confirm is what the dry run makes of
\* the config: for the active config with the stores as they are, unless
\* another client has written; for the default config with any.
ShownOK ==
  step = "confirm" =>
    IF target = "Default" THEN shown.spec = Redact(config).spec
    ELSE ~disturbed => Live(active) /\ shown = DryRunReply

\* What was stored has the plain fields that are set in the config.
StoredOK ==
  stored # None =>
    step = "done" /\ \A f \in PlainFields : Set(config, f) => stored.spec[f] = config.spec[f]

\* The config has the plain fields of the revision asked for.
ConfigOK ==
  step \in {"dryrun", "confirm", "done"} /\ ~edited /\ at # 0 =>
    /\ at <= Len(TargetLog)
    /\ TargetLog[at] # None => \A f \in PlainFields : config.spec[f] = TargetLog[at].spec[f]

Inductive ==
  /\ TypeOK
  /\ Clean(active) /\ Clean(default)
  /\ ShownOK
  /\ StoredOK

\* The stores keep every revision that is written.
KeepsAll == MaxActive <= Retention /\ MaxDefault <= Retention
=============================================================================
