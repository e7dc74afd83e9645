----------------------------- MODULE MCOTLPSink -----------------------------
EXTENDS OTLPSink
MCKeyOf(r) == IF r <= 2 THEN 1 ELSE r - 1
=============================================================================
