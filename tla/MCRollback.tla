----------------------------- MODULE MCRollback -----------------------------
EXTENDS Rollback, TLC

CONSTANTS plain, secret, masked, d1, d2

SpecOf(p, s, k) ==
  [spec |-> [f \in Fields |-> CASE f = plain -> p [] f = secret -> s [] f = masked -> k],
   revision |-> None]

\* The type's secret is the empty string.
PlainLoader == SpecOf(None, Blank, None)
SecretOthers == {SpecOf(d1, d1, None), SpecOf(d2, Placeholder, None)}
SecretEdits == {SpecOf(d2, d2, None)}
SecretMasks == {NilMask, {plain}}
=============================================================================
