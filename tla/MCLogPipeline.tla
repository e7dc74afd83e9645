---------------------------- MODULE MCLogPipeline ---------------------------
EXTENDS LogPipeline
MCKey(r) == r % 2
=============================================================================
