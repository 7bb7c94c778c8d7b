------------------------------ MODULE MCAgentFS ------------------------------
(* Instance of AgentFS for TLC.                                             *)
EXTENDS AgentFS, TLC

\* Names are interchangeable: no operation orders or inspects them.
NameSymmetry == Permutations(Names)
=============================================================================
