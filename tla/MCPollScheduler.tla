--------------------------- MODULE MCPollScheduler ---------------------------
EXTENDS PollScheduler
CONSTANTS f1, g1, g2
EveryResult == [ok : BOOLEAN, some : BOOLEAN]
\* Enough where only the end of a poll matters, not what it stored.
CleanOrFailed == {[ok |-> TRUE, some |-> TRUE], [ok |-> FALSE, some |-> FALSE]}
=============================================================================
