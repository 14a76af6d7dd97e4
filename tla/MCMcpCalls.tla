----------------------------- MODULE MCMcpCalls -----------------------------
EXTENDS McpCalls, TLC
\* Requests the gateway handles at a time are interchangeable, and so are identities.
Symmetry == Permutations(Calls) \cup Permutations(Ids)
=============================================================================
