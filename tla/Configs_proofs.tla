--------------------------- MODULE Configs_proofs ---------------------------
(***************************************************************************)
(* What the operators of module Configs make of messages and of stores, for *)
(* any fields, values and retention.                                       *)
(***************************************************************************)
EXTENDS Configs, TLAPS, SequenceTheorems

Nullable == Nat \cup {None}

-----------------------------------------------------------------------------
(* Messages: what merging, masking and unredacting make of them.            *)

\* MergeWithReplace makes a message, without placeholders if there are none.
LEMMA MergeMessage ==
  ASSUME NEW a \in Message, NEW b \in Message
  PROVE  /\ Merge(a, b) \in Message
         /\ ~HasPlaceholder(a) /\ ~HasPlaceholder(b) => ~HasPlaceholder(Merge(a, b))
<1>1. Merge(a, b) \in Message BY DEF Merge, Message
<1>2. \A f \in Fields : Merge(a, b).spec[f] \in {a.spec[f], b.spec[f]} BY DEF Merge
<1>3. SecretFields \subseteq Fields BY DEF Fields
<1>4. QED BY <1>1, <1>2, <1>3 DEF HasPlaceholder

\* ExclusiveKeep keeps what the mask names.
LEMMA KeepMessage ==
  ASSUME NEW a \in Message, NEW mask
  PROVE  /\ Keep(a, mask) \in Message
         /\ ~HasPlaceholder(a) => ~HasPlaceholder(Keep(a, mask))
<1>1. Keep(a, mask) \in Message BY DEF Keep, Message
<1>2. \A f \in Fields : Keep(a, mask).spec[f] \in {a.spec[f], None} BY DEF Keep
<1>3. SecretFields \subseteq Fields BY DEF Fields
<1>4. QED BY <1>1, <1>2, <1>3, ValuesAssumption DEF HasPlaceholder

\* UnredactSecrets leaves no placeholder if the existing config has none.
LEMMA UnredactMessage ==
  ASSUME NEW a \in Message, NEW b \in Message
  PROVE  /\ Unredact(a, b) \in Message
         /\ ~HasPlaceholder(b) => ~HasPlaceholder(Unredact(a, b))
<1>1. Unredact(a, b) \in Message BY DEF Unredact, Message
<1>2. \A f \in SecretFields :
        Unredact(a, b).spec[f] = IF a.spec[f] = Placeholder THEN b.spec[f] ELSE a.spec[f]
  BY DEF Unredact, Fields
<1>3. QED BY <1>1, <1>2 DEF HasPlaceholder

\* Setting and unsetting the revision changes no field.
LEMMA SetRevisionMessage ==
  ASSUME NEW a \in Message, NEW rev \in Nullable
  PROVE  /\ SetRevision(a, rev) \in Message /\ UnsetRevision(a) \in Message
         /\ SetRevision(a, rev).spec = a.spec /\ UnsetRevision(a).spec = a.spec
BY DEF SetRevision, UnsetRevision, Message, Nullable

\* clearMaskedFields leaves no masked field.
LEMMA ClearMaskedMessage ==
  ASSUME NEW a \in Message
  PROVE  /\ ClearMasked(a) \in Message
         /\ \A f \in MaskedFields : ClearMasked(a).spec[f] = None
BY DEF ClearMasked, Message, Fields

\* The zero request of a call that is not being executed.
LEMMA EmptyMessage == Empty \in Message /\ ~HasPlaceholder(Empty)
BY ValuesAssumption DEF Empty, Message, HasPlaceholder, Fields

\* What Apply stores has no placeholder if what it found has none.
LEMMA AppliedMessage ==
  ASSUME NEW e \in Message, NEW m \in Message, ~HasPlaceholder(e)
  PROVE  Applied(e, m) \in Message /\ ~HasPlaceholder(Applied(e, m))
<1>1. Unredact(m, e) \in Message /\ ~HasPlaceholder(Unredact(m, e)) BY UnredactMessage
<1> DEFINE n == Merge(e, Unredact(m, e))
<1>2. n \in Message /\ ~HasPlaceholder(n) BY <1>1, MergeMessage
<1>3. UnsetRevision(n) \in Message /\ UnsetRevision(n).spec = n.spec
  BY <1>2, SetRevisionMessage DEF Nullable
<1>4. QED BY <1>2, <1>3 DEF Applied, HasPlaceholder

\* Nor has what SetDefault stores.
LEMMA NewDefaultMessage ==
  ASSUME NEW e \in Message, NEW m \in Message, ~HasPlaceholder(e)
  PROVE  NewDefault(e, m) \in Message /\ ~HasPlaceholder(NewDefault(e, m))
<1> DEFINE n == Unredact(m, e)
<1>1. n \in Message /\ ~HasPlaceholder(n) BY UnredactMessage
<1>2. UnsetRevision(n) \in Message /\ UnsetRevision(n).spec = n.spec
  BY <1>1, SetRevisionMessage DEF Nullable
<1>3. QED BY <1>1, <1>2 DEF NewDefault, HasPlaceholder

\* Nor has what Reset stores.
LEMMA ResetToMessage ==
  ASSUME NEW e \in Message, NEW d \in Message, NEW mask, NEW p \in Message,
         ~HasPlaceholder(e), ~HasPlaceholder(d)
  PROVE  ResetTo(e, d, mask, p) \in Message /\ ~HasPlaceholder(ResetTo(e, d, mask, p))
<1> DEFINE kept == Keep(e, mask)
           patch == Keep(Unredact(p, kept), mask)
<1>1. kept \in Message /\ ~HasPlaceholder(kept) BY KeepMessage
<1>2. Unredact(p, kept) \in Message /\ ~HasPlaceholder(Unredact(p, kept))
  BY <1>1, UnredactMessage
<1>3. patch \in Message /\ ~HasPlaceholder(patch) BY <1>2, KeepMessage
<1> HIDE DEF patch, kept
<1>4. Merge(kept, patch) \in Message /\ ~HasPlaceholder(Merge(kept, patch))
  BY <1>1, <1>3, MergeMessage
<1>5. Merge(d, Merge(kept, patch)) \in Message /\ ~HasPlaceholder(Merge(d, Merge(kept, patch)))
  BY <1>4, MergeMessage
<1>6. QED BY <1>5 DEF ResetTo, kept, patch

-----------------------------------------------------------------------------
(* Stores.                                                                  *)

\* Get answers OK only with the value of a revision it names.
LEMMA StoreGetFacts ==
  ASSUME NEW log \in Seq(Stored), NEW at \in Nullable, Clean(log),
         StoreGet(log, at).err = "OK"
  PROVE  LET got == StoreGet(log, at) IN
         /\ got.revision \in 1..Len(log) /\ got.value = log[got.revision]
         /\ got.value \in Message /\ ~HasPlaceholder(got.value)
<1> DEFINE rev == IF at = None THEN Len(log) ELSE at
<1>1. rev \in Nat BY DEF Nullable
<1> DEFINE missing == rev = 0 \/ rev <= Len(log) - Retention \/ log[rev] = None
<1> HIDE DEF rev, missing
<1>a. StoreGet(log, at) =
        IF rev > Len(log) THEN [err |-> "OutOfRange", value |-> None, revision |-> 0]
        ELSE IF missing THEN [err |-> "NotFound", value |-> None, revision |-> 0]
        ELSE [err |-> "OK", value |-> log[rev], revision |-> rev]
  BY Zenon DEF StoreGet, rev, missing
<1>b. ~(rev > Len(log)) /\ ~missing BY <1>a
<1>2. /\ rev <= Len(log) /\ rev # 0 /\ log[rev] # None
      /\ StoreGet(log, at) = [err |-> "OK", value |-> log[rev], revision |-> rev]
  BY <1>1, <1>a, <1>b DEF missing
<1>3. rev \in 1..Len(log) BY <1>1, <1>2
<1>4. log[rev] \in Message BY <1>2, <1>3 DEF Stored
<1>5. ~HasPlaceholder(log[rev]) BY <1>2, <1>3 DEF Clean
<1>6. QED BY <1>2, <1>3, <1>4, <1>5

\* The default config is a message without placeholders.
LEMMA DefaultConfigFacts ==
  ASSUME NEW def \in Seq(Stored), Clean(def)
  PROVE  DefaultConfig(def) \in Message /\ ~HasPlaceholder(DefaultConfig(def))
<1>1. CASE Live(def)
  <2>1. Len(def) \in 1..Len(def) BY <1>1 DEF Live
  <2>2. def[Len(def)] \in Message BY <1>1, <2>1 DEF Live, Stored
  <2>3. QED BY <1>1, <2>1, <2>2 DEF DefaultConfig, Live, Latest, Clean
<1>2. CASE ~Live(def) BY <1>2, LoaderAssumption DEF DefaultConfig
<1>3. QED BY <1>1, <1>2

\* getConfigOrDefaultLocked: a revision of the store, or the default at 0.
LEMMA ActiveOrDefaultFacts ==
  ASSUME NEW log \in Seq(Stored), NEW d \in Message, NEW at \in Nullable,
         Clean(log), ~HasPlaceholder(d), ActiveOrDefault(log, d, at).err = "OK"
  PROVE  LET got == ActiveOrDefault(log, d, at) IN
         /\ got.value \in Message /\ ~HasPlaceholder(got.value)
         /\ got.revision \in Nat
         /\ got.revision # 0 => got.revision <= Len(log) /\ got.value = log[got.revision]
<1>1. CASE StoreGet(log, at).err = "NotFound"
  <2>1. ActiveOrDefault(log, d, at) = [err |-> "OK", value |-> d, revision |-> 0]
    BY <1>1 DEF ActiveOrDefault
  <2>2. QED BY <2>1
<1>2. CASE StoreGet(log, at).err # "NotFound"
  <2>1. ActiveOrDefault(log, d, at) = StoreGet(log, at) BY <1>2 DEF ActiveOrDefault
  <2>2. StoreGet(log, at).err = "OK" BY <2>1
  <2>3. QED BY <2>1, <2>2, StoreGetFacts
<1>3. QED BY <1>1, <1>2

\* Appending to a store keeps its earlier revisions.
LEMMA AppendFacts ==
  ASSUME NEW log \in Seq(Stored), NEW m \in Stored
  PROVE  /\ Append(log, m) \in Seq(Stored) /\ Len(Append(log, m)) = Len(log) + 1
         /\ \A i \in 1..Len(log) : Append(log, m)[i] = log[i]
         /\ Append(log, m)[Len(log) + 1] = m
         /\ Clean(log) /\ (m # None => ~HasPlaceholder(m)) => Clean(Append(log, m))
<1>1. /\ Append(log, m) \in Seq(Stored) /\ Len(Append(log, m)) = Len(log) + 1
      /\ \A i \in 1..Len(log) : Append(log, m)[i] = log[i]
      /\ Append(log, m)[Len(log) + 1] = m
  OBVIOUS
<1>2. ASSUME Clean(log), m # None => ~HasPlaceholder(m), NEW i \in 1..Len(Append(log, m)),
             Append(log, m)[i] # None
      PROVE  ~HasPlaceholder(Append(log, m)[i])
  <2>1. CASE i = Len(log) + 1 BY <1>1, <1>2, <2>1
  <2>2. CASE i # Len(log) + 1
    <3>1. i \in 1..Len(log) BY <1>1, <1>2, <2>2
    <3>2. QED BY <1>1, <1>2, <3>1 DEF Clean
  <2>3. QED BY <2>1, <2>2
<1>3. QED BY <1>1, <1>2 DEF Clean

\* What a write appends is the latest.
LEMMA LatestAppend ==
  ASSUME NEW log \in Seq(Stored), NEW m \in Stored
  PROVE  Latest(Append(log, m)) = m /\ (m # None => Live(Append(log, m)))
<1>1. Len(Append(log, m)) = Len(log) + 1 /\ Append(log, m)[Len(log) + 1] = m
  BY AppendFacts
<1>2. Append(log, m) # <<>> BY <1>1
<1>3. QED BY <1>1, <1>2 DEF Latest, Live

\* Get without a revision, and at the revision that answer carries: the latest
\* value, if there is one.
LEMMA LatestGet ==
  ASSUME NEW log \in Seq(Stored), NEW at,
         at = None \/ at = IF Live(log) THEN Len(log) ELSE 0
  PROVE  StoreGet(log, at) =
           IF Live(log) THEN [err |-> "OK", value |-> Latest(log), revision |-> Len(log)]
           ELSE [err |-> "NotFound", value |-> None, revision |-> 0]
<1> DEFINE rev == IF at = None THEN Len(log) ELSE at
           missing == rev = 0 \/ rev <= Len(log) - Retention \/ log[rev] = None
<1>a. StoreGet(log, at) =
        IF rev > Len(log) THEN [err |-> "OutOfRange", value |-> None, revision |-> 0]
        ELSE IF missing THEN [err |-> "NotFound", value |-> None, revision |-> 0]
        ELSE [err |-> "OK", value |-> log[rev], revision |-> rev]
  BY Zenon DEF StoreGet
<1>b. Len(log) \in Nat /\ (Len(log) = 0 <=> log = <<>>) BY EmptySeq
<1>1. CASE Live(log)
  <2>1. rev = Len(log) BY <1>1
  <2> HIDE DEF rev
  <2>2. ~(rev > Len(log)) /\ rev # 0 /\ ~(rev <= Len(log) - Retention) /\ log[rev] # None
    BY <1>1, <1>b, <2>1, RetentionAssumption DEF Live
  <2>3. QED BY <1>1, <1>a, <2>1, <2>2 DEF Latest
<1>2. CASE ~Live(log)
  <2>1. rev \in {0, Len(log)} BY <1>2
  <2> HIDE DEF rev
  <2>2. ~(rev > Len(log)) BY <1>b, <2>1
  <2>3. missing BY <1>2, <1>b, <2>1 DEF Live
  <2>4. QED BY <1>2, <1>a, <2>2, <2>3
<1>3. QED BY <1>1, <1>2

\* The same of the tracker's reads.
LEMMA LatestConfig ==
  ASSUME NEW log \in Seq(Stored), NEW d, NEW at,
         at = None \/ at = IF Live(log) THEN Len(log) ELSE 0
  PROVE  ActiveOrDefault(log, d, at) =
           [err |-> "OK", value |-> IF Live(log) THEN Latest(log) ELSE d,
            revision |-> IF Live(log) THEN Len(log) ELSE 0]
<1>1. CASE Live(log) BY <1>1, LatestGet DEF ActiveOrDefault
<1>2. CASE ~Live(log) BY <1>2, LatestGet DEF ActiveOrDefault
<1>3. QED BY <1>1, <1>2

\* A config that comes back to the server as it was given out: every
\* placeholder in it stands for a secret that exists, and unredacting restores
\* all but the masked fields, which the server has cleared.
LEMMA RedactUnredact ==
  ASSUME NEW v \in Message, NEW got, got.spec = Redact(v).spec
  PROVE  /\ ~Discontinuity(ClearMasked(got), v)
         /\ Unredact(ClearMasked(got), v).spec = ClearMasked(v).spec
<1> DEFINE m == ClearMasked(got)
<1>1. \A f \in Fields :
        m.spec[f] = IF f \in MaskedFields THEN None
                    ELSE IF f \in SecretFields /\ HasSecret(v, f) THEN Placeholder ELSE v.spec[f]
  BY DEF Redact, ClearMasked
<1> HIDE DEF m
<1>2. SecretFields \subseteq Fields /\ SecretFields \cap MaskedFields = {}
  BY FieldsAssumption DEF Fields
<1>3. ~Discontinuity(m, v) BY <1>1, <1>2, ValuesAssumption DEF Discontinuity, HasSecret
<1>4. \A f \in Fields :
        (IF f \in SecretFields /\ m.spec[f] = Placeholder THEN v.spec[f] ELSE m.spec[f])
          = (IF f \in MaskedFields THEN None ELSE v.spec[f])
  BY <1>1, <1>2, ValuesAssumption
<1>5. Unredact(m, v).spec = ClearMasked(v).spec BY <1>4 DEF Unredact, ClearMasked
<1>6. QED BY <1>3, <1>5 DEF m

\* Merging a config with its own fields but the masked ones changes nothing.
LEMMA MergeSelf ==
  ASSUME NEW v \in Message, NEW w, w.spec = ClearMasked(v).spec
  PROVE  Merge(v, w).spec = v.spec
<1>1. v.spec = [f \in Fields |-> v.spec[f]] BY DEF Message
<1>2. Merge(v, w).spec = [f \in Fields |-> v.spec[f]] BY DEF Merge, ClearMasked, Set
<1>3. QED BY <1>1, <1>2

\* The revision an answer carries is one that Put accepts.
LEMMA PutLatest ==
  ASSUME NEW log \in Seq(Stored)
  PROVE  PutAllowed(log, IF Live(log) THEN Len(log) ELSE 0)
<1>1. Live(log) => Len(log) # 0 BY EmptySeq DEF Live
<1>2. QED BY <1>1 DEF PutAllowed

\* Redacting does not look at the revision.
LEMMA RedactSpec ==
  ASSUME NEW m, NEW rev
  PROVE  /\ SetRevision(Redact(m), rev).spec = Redact(m).spec
         /\ Redact(UnsetRevision(m)).spec = Redact(m).spec
BY DEF Redact, SetRevision, UnsetRevision, HasSecret
=============================================================================
