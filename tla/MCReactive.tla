----------------------------- MODULE MCReactive -----------------------------
(* Reactive for TLC: a message with one field next to a scalar.             *)
EXTENDS Reactive

MCPaths == {"root", "msg", "msg.x", "s"}
MCBelow == [p \in MCPaths |->
              CASE p = "root" -> MCPaths \ {"root"}
                [] p = "msg" -> {"msg.x"}
                [] OTHER -> {}]

Config(msg, x, s) ==
  [p \in MCPaths |-> CASE p = "root" -> 1 [] p = "msg" -> msg [] p = "msg.x" -> x [] OTHER -> s]

\* The scalar and the field of the message change together.
MCConfigs == {Config(1, 1, 0), Config(1, 0, 1)}
Singles    == {<<"s">>}
Pairs      == {<<"msg.x", "s">>}
MCBindings == Singles \cup Pairs
=============================================================================
