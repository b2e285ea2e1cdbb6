--------------------------- MODULE MC_ResultsCache --------------------------
EXTENDS ResultsCache
=============================================================================
