------------------------------- MODULE MCEtcd -------------------------------
(* Etcd for TLC: two keys of which the first is a prefix of the second, each *)
(* watched alone or with the other.                                          *)
EXTENDS Etcd

CONSTANTS a, ab

MCKeys == {a, ab}

MCRequests ==
  {[keys |-> {a}, extending |-> {a, ab}],
   [keys |-> {ab}, extending |-> {ab}],
   [keys |-> {a, ab}, extending |-> {a, ab}]}
=============================================================================
