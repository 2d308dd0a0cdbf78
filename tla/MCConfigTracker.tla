-------------------------- MODULE MCConfigTracker ---------------------------
EXTENDS ConfigTracker, TLC

CONSTANTS plain, secret, masked, d1, d2

Symmetry == Permutations(Replicas)

SpecOf(p, s, k) ==
  [spec |-> [f \in Fields |-> CASE f = plain -> p [] f = secret -> s [] f = masked -> k],
   revision |-> None]

\* The type sets the masked field, and the secret to the empty string; requests
\* set the secret and the masked field, or send back the placeholder.
ReplicaLoader == SpecOf(None, Blank, d1)
ReplicaSpecs == {SpecOf(d2, d1, d2), SpecOf(None, Placeholder, None)}

\* No mask, one the server has nothing to add to, and an invalid one.
ReplicaMasks == {NilMask, {secret, masked}, {"", masked}}
=============================================================================
