--------------------------- MODULE MCPollDeadline ---------------------------
EXTENDS PollDeadline
=============================================================================
