-------------------------- MODULE MCPendingActions --------------------------
EXTENDS PendingActions
=============================================================================
