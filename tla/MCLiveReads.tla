----------------------------- MODULE MCLiveReads -----------------------------
EXTENDS LiveReads
=============================================================================
