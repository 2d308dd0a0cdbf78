----------------------------- MODULE MCMessages -----------------------------
(* Messages for TLC: a config with two scalars of which one's name begins the *)
(* other's, a nested message, a list, a map and a duration.                   *)
EXTENDS Messages

Field(kind, type) == [kind |-> kind, type |-> type]
Scalar == Field("scalar", "")

MCSchema ==
  [Config |-> [a |-> Scalar, ab |-> Scalar, n |-> Field("message", "Pair"),
               l |-> Field("list", ""), m |-> Field("map", ""),
               d |-> Field("message", "Duration")],
   Pair |-> [x |-> Scalar, y |-> Scalar],
   Duration |-> [seconds |-> Scalar, nanos |-> Scalar]]

MCNameBegins == {<<"a", "ab">>}

\* The messages of one field of a given name and value.
One(f, V) == {[g \in {f} |-> v] : v \in V}

MCSources ==
  {Empty, [a |-> 1], [ab |-> 1], [l |-> <<1>>]}
  \cup One("n", {Empty, [y |-> 1]} \cup One("x", {1, 2}))
  \cup One("m", {[k |-> 1], [j |-> 1], [j |-> 2]})
  \cup One("d", UNION {[G -> {1}] : G \in SUBSET {"seconds", "nanos"}})

MCOptions == [lists : BOOLEAN, maps : BOOLEAN]

MCMaskPaths == AllPaths
=============================================================================
