---------------------------- MODULE MCMcpUpstream ---------------------------
EXTENDS McpUpstream, TLC
=============================================================================
