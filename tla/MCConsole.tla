----------------------------- MODULE MCConsole ------------------------------
EXTENDS AgentConsole, TLC
=============================================================================
