----------------------------- MODULE MCPipeline -----------------------------
(* Small instances of Pipeline for TLC. *)
EXTENDS Pipeline, TLC

\* The gate and the tests on; either of them switched off at will; any of this.
Strict == {[gate |-> TRUE, tests |-> TRUE]}
OneOff == {c \in Cfg : c.gate \/ c.tests}
AnyCfg == Cfg

Streams == Permutations(Sess)
=============================================================================
