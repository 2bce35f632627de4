-------------------------- MODULE MC_Connections --------------------------
(* Instances of Connections for TLC.                                        *)
EXTENDS Connections, TLC

Symmetric == Permutations(Refs) \cup Permutations(Properties) \cup Permutations(Handlers)
=============================================================================
