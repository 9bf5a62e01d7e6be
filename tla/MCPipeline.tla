----------------------------- MODULE MCPipeline -----------------------------
(***************************************************************************)
(* Overrides for TLC: negative, zero, below and above the defaults.               *)
(***************************************************************************)
EXTENDS Pipeline

MCCpuCores == {-5, 0, 6999, 20000}
MCMemoryMB == {-1, 64, 512}
=============================================================================
