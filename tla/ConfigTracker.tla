--------------------------- MODULE ConfigTracker ----------------------------
(***************************************************************************)
(* DefaultingConfigTracker (server/config.go) behind BaseConfigServer      *)
(* (server/server.go).  A tracker's mutex makes the operations of one      *)
(* process exclusive; the stores it works on are shared with other         *)
(* replicas of the server, so each access of a store is a step of its own  *)
(* and what was read may be stale when it is used.  Only the revision      *)
(* given to Put and Delete protects against that.                          *)
(*                                                                         *)
(* "Apply" and "TrackerReset" are the tracker's methods called by the      *)
(* application itself; "Set" and "Reset" are the server's, which do not    *)
(* let clients change the masked fields.                                   *)
(***************************************************************************)
EXTENDS Configs

CONSTANTS
  Replicas,     \* processes, each with a tracker of its own
  Specs,        \* the specs and patches requests carry
  Masks,        \* the masks reset requests carry
  Ops,          \* the operations that are called
  MaxActive,    \* bounds of the model: no store is written past these
  MaxDefault    \* revisions

ASSUME RequestsAssumption ==
  /\ Specs \subseteq Message
  /\ \A m \in Specs : \A f \in Fields \ SecretFields : m.spec[f] # Placeholder
  /\ Masks \subseteq SUBSET Paths
  /\ MaxActive \in Nat /\ MaxDefault \in Nat

VARIABLES
  active,   \* the active store
  default,  \* the default store
  calls     \* per replica, the operation its tracker is executing

vars == <<active, default, calls>>

NoCall == [op |-> "none", step |-> "none", in |-> Empty, mask |-> {},
           existing |-> Empty, def |-> Empty, rev |-> 0]

Idle(r) == calls[r] = NoCall
Finish(r) == calls' = [calls EXCEPT ![r] = NoCall]

\* The revisions a request may name.
Revisions == {None} \cup 0..MaxActive + 1

ServerOps == {"Set", "Reset", "SetDefault"}

-----------------------------------------------------------------------------
(* Apply.                                                                   *)

\* The request arrives and the first half of getConfigOrDefaultLocked runs.
BeginApply(r, op, m) ==
  /\ Idle(r)
  /\ calls' = [calls EXCEPT ![r] =
       [NoCall EXCEPT !.op = op, !.step = "active", !.existing = DefaultConfig(default),
                      !.in = IF op = "Set" THEN ClearMasked(m) ELSE m]]
  /\ UNCHANGED <<active, default>>

\* The active config at the revision the request names, else the default.
ApplyReadActive(r) ==
  LET c == calls[r]
      got == ActiveOrDefault(active, c.existing, c.in.revision)
  IN
  /\ c.step = "active"
  /\ IF got.err # "OK" \/ Discontinuity(c.in, got.value)
     THEN Finish(r)
     ELSE calls' = [calls EXCEPT ![r] =
            [c EXCEPT !.step = "put", !.existing = got.value, !.rev = got.revision]]
  /\ UNCHANGED <<active, default>>

-----------------------------------------------------------------------------
(* Reset.                                                                   *)

\* The server drops the revision of the request.
BeginReset(r, op, mask, patch, at) ==
  LET got == StoreGet(active, IF op = "Reset" THEN None ELSE at)
      m == IF op = "Reset" THEN ServerMask(mask) ELSE mask
  IN
  /\ Idle(r)
  /\ got.err = "OK"
  /\ calls' = [calls EXCEPT ![r] =
       [NoCall EXCEPT !.op = op, !.step = IF m = NilMask THEN "delete" ELSE "default",
                      !.in = IF op = "Reset" THEN ClearMasked(patch) ELSE patch,
                      !.mask = m, !.existing = got.value, !.rev = got.revision]]
  /\ UNCHANGED <<active, default>>

ResetReadDefault(r) ==
  LET c == calls[r] IN
  /\ c.step = "default"
  /\ IF ResetRefuses(c.existing, c.mask, c.in)
     THEN Finish(r)
     ELSE calls' = [calls EXCEPT ![r] = [c EXCEPT !.step = "put", !.def = DefaultConfig(default)]]
  /\ UNCHANGED <<active, default>>

\* activeStore.Delete(ctx, WithRevision(revision))
ResetDelete(r) ==
  /\ calls[r].step = "delete"
  /\ \/ /\ DeleteAllowed(active, calls[r].rev) /\ Len(active) < MaxActive
        /\ active' = Append(active, None)
     \/ ~DeleteAllowed(active, calls[r].rev) /\ UNCHANGED active
  /\ Finish(r)
  /\ UNCHANGED default

-----------------------------------------------------------------------------
\* The message a call at step "put" is about to store, made from `existing'.
ToStore(c, existing) ==
  IF c.op \in {"Set", "Apply"} THEN Applied(existing, c.in)
  ELSE ResetTo(existing, c.def, c.mask, c.in)

\* activeStore.Put(ctx, ..., WithRevision(rev)), the end of Apply and Reset.
PutActive(r) ==
  LET c == calls[r] IN
  /\ c.step = "put"
  /\ \/ /\ PutAllowed(active, c.rev) /\ Len(active) < MaxActive
        /\ active' = Append(active, ToStore(c, c.existing))
     \/ ~PutAllowed(active, c.rev) /\ UNCHANGED active
  /\ Finish(r)
  /\ UNCHANGED default

-----------------------------------------------------------------------------
(* SetDefault and ResetDefault.                                             *)

\* The existing default is read, for its secrets only.
BeginSetDefault(r, op, m) ==
  /\ Idle(r)
  /\ ~Discontinuity(m, DefaultConfig(default))
  /\ calls' = [calls EXCEPT ![r] =
       [NoCall EXCEPT !.op = op, !.step = "putDefault", !.existing = DefaultConfig(default),
                      !.in = IF op = "SetDefault" THEN ClearMasked(m) ELSE m,
                      !.rev = RequestRevision(m)]]
  /\ UNCHANGED <<active, default>>

PutDefault(r) ==
  LET c == calls[r] IN
  /\ c.step = "putDefault"
  /\ \/ /\ PutAllowed(default, c.rev) /\ Len(default) < MaxDefault
        /\ default' = Append(default, NewDefault(c.existing, c.in))
     \/ ~PutAllowed(default, c.rev) /\ UNCHANGED default
  /\ Finish(r)
  /\ UNCHANGED active

ResetDefault(r, at) ==
  /\ Idle(r)
  /\ DeleteAllowed(default, at) /\ Len(default) < MaxDefault
  /\ default' = Append(default, None)
  /\ UNCHANGED <<active, calls>>

-----------------------------------------------------------------------------
Init ==
  /\ active = <<>>
  /\ default = <<>>
  /\ calls = [r \in Replicas |-> NoCall]

Next ==
  \E r \in Replicas :
    \/ \E m \in Specs, rev \in Revisions :
         \/ \E op \in Ops \cap {"Set", "Apply"} : BeginApply(r, op, SetRevision(m, rev))
         \/ \E op \in Ops \cap {"SetDefault", "TrackerSetDefault"} :
              BeginSetDefault(r, op, SetRevision(m, rev))
         \/ \E op \in Ops \cap {"Reset", "TrackerReset"}, mask \in Masks :
              BeginReset(r, op, mask, m, rev)
    \/ \E rev \in Revisions : ResetDefault(r, rev)
    \/ ApplyReadActive(r) \/ ResetReadDefault(r)
    \/ PutActive(r) \/ ResetDelete(r) \/ PutDefault(r)

Spec == Init /\ [][Next]_vars

-----------------------------------------------------------------------------
(* Invariants.                                                              *)

\* The stores hold messages and deletions, and calls are well formed.
TypeOK ==
  /\ active \in Seq(Stored) /\ Len(active) <= MaxActive
  /\ default \in Seq(Stored) /\ Len(default) <= MaxDefault
  /\ calls \in [Replicas ->
       [op : {"none"} \cup Ops,
        step : {"none", "active", "default", "put", "delete", "putDefault"},
        in : Message, mask : SUBSET Paths,
        existing : Message, def : Message, rev : Nat]]

\* No replica ever stores the placeholder in place of a secret, whatever
\* clients send back and whatever happens between reading and writing.
NoPlaceholderStored == Clean(active) /\ Clean(default)

\* What a client sends back to the server as it got it, redacted, is accepted.
\* Set changes nothing: secrets and masked fields survive, and the config
\* becomes or stays the active one.  SetDefault keeps the secrets but does not
\* merge: it drops the masked fields of the default, and changes nothing else.
RoundTrip ==
  LET got == GetActiveOrDefault(active, default, None)
      current == ActiveOrDefault(active, DefaultConfig(default), None).value
      def == GetDefault(default, None)
  IN
  /\ ServerSucceeds(active, default, "Set", got, NilMask)
  /\ ServerLeaves(active, default, "Set", got, NilMask).spec = current.spec
  /\ ServerSucceeds(active, default, "SetDefault", def, NilMask)
  /\ ServerLeaves(active, default, "SetDefault", def, NilMask).spec
       = ClearMasked(DefaultConfig(default)).spec

\* The requests whose outcome the dry-run client can foretell.  A default
\* config must come with a revision: a dry run takes a missing one for the
\* latest, SetDefault for 0.  A reset must be one that the server does not add
\* masked fields to, and of the latest revision: a dry run looks at the
\* revision, Reset does not.
Foreseen(op, m, mask) ==
  CASE op = "Set" -> TRUE
    [] op = "Reset" -> /\ ServerMask(mask) = mask /\ ClearMasked(m) = m
                       /\ m.revision \in {None, Len(active)}
    [] op = "SetDefault" -> m.revision # None
    [] op = "ResetDefault" -> TRUE

Quiet == \A r \in Replicas : Idle(r)

\* When no call is under way, a request that the dry-run client accepts
\* succeeds if nothing intervenes, and leaves the config the dry run showed.
DryRunPredicts ==
  Quiet =>
  \A op \in {"Set", "Reset", "SetDefault", "ResetDefault"}, spec \in Specs :
  \A rev \in Revisions, mask \in Masks :
    LET m == SetRevision(spec, rev)
        reply == TrackerDryRun(active, default, DryRunRequest(op, m, mask, rev))
    IN
    Foreseen(op, m, mask) /\ reply.ok =>
      /\ ServerSucceeds(active, default, op, m, mask)
      /\ reply.modified.spec = Redact(ServerLeaves(active, default, op, m, mask)).spec

\* Every entry of the server's history is what Get answers at its revision,
\* secrets redacted, and the latest config is among them.
HistoryIsGettable ==
  Quiet =>
  /\ \A e \in ServerHistory(active) : GetActiveOrDefault(active, default, e.revision) = e
  /\ \A e \in ServerHistory(default) : GetDefault(default, e.revision) = e
  /\ Live(active) => GetActiveOrDefault(active, default, None) \in ServerHistory(active)

-----------------------------------------------------------------------------
(* The inductive invariant from which the proofs start.                     *)

Reading(c) == c.step \in {"default", "put", "delete"}

\* A call that has read a revision of the active store holds its value.
ReadsAreRevisions ==
  \A r \in Replicas :
    LET c == calls[r] IN
    /\ Reading(c) /\ c.rev # 0 => c.rev <= Len(active) /\ c.existing = active[c.rev]
    /\ c.step = "put" => c.op \in {"Set", "Apply", "Reset", "TrackerReset"}
    /\ c.step \in {"default", "delete"} => c.rev # 0
    /\ c.step = "put" /\ c.rev = 0 => c.op \in {"Set", "Apply"}
    /\ c.step = "active" => c.op \in {"Set", "Apply"}
    /\ c.step \in {"default", "delete"} => c.op \in {"Reset", "TrackerReset"}

\* What calls have read, and write back, has no placeholder.
ReadsAreUnredacted ==
  \A r \in Replicas : ~HasPlaceholder(calls[r].existing) /\ ~HasPlaceholder(calls[r].def)

\* A request to the server has no masked field, and its mask has them all.
RequestsAreMasked ==
  \A r \in Replicas :
    LET c == calls[r] IN
    /\ c.op \in ServerOps => \A f \in MaskedFields : c.in.spec[f] = None
    /\ c.op = "Reset" => MaskedFields \subseteq c.mask
    /\ c.op = "Reset" /\ c.step = "delete" => MaskedFields = {}

Inductive ==
  TypeOK /\ NoPlaceholderStored /\ ReadsAreRevisions /\ ReadsAreUnredacted /\ RequestsAreMasked

-----------------------------------------------------------------------------
(* What a step may never do.                                                *)

\* Replica r's step has written the active store.
Writes(r) == Len(active') > Len(active) /\ calls'[r] # calls[r]

BuildsOnLatest(r) ==
  Writes(r) /\ calls[r].step = "put" =>
    IF Live(active)
    THEN Latest(active') = ToStore(calls[r], Latest(active))
    ELSE calls[r].op \in {"Set", "Apply"}

KeepsMasked(r, f) ==
  Writes(r) /\ calls[r].op \in ServerOps /\ Live(active) /\ Set(Latest(active), f) =>
    Live(active') /\ Latest(active').spec[f] = Latest(active).spec[f]

\* Apply and Reset that succeed build on the very config they replace: an
\* update made by another replica in between is never lost.
NoLostUpdate == [][\A r \in Replicas : BuildsOnLatest(r)]_vars

\* No request to the server changes a masked field that is set, or deletes
\* the config that holds it.
MaskedKept == [][\A r \in Replicas, f \in MaskedFields : KeepsMasked(r, f)]_vars
=============================================================================
