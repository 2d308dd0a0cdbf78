----------------------------- MODULE MCKVStore ------------------------------
(* KVStore for TLC: a prefix that matches every key, and one key alone.      *)
EXTENDS KVStore

MCSelections == {Keys, {CHOOSE k \in Keys : TRUE}}
=============================================================================
