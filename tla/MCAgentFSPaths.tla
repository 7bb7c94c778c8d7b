--------------------------- MODULE MCAgentFSPaths ---------------------------
(* Instance of AgentFSPaths for TLC.                                        *)
EXTENDS AgentFSPaths

\* Symlinks point at the root's entries.
TopLevel == {<<n>> : n \in Names}

\* Names are interchangeable: no operation orders or inspects them.
NameSymmetry == Permutations(Names)
=============================================================================
