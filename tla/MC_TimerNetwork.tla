--------------------------- MODULE MC_TimerNetwork --------------------------
EXTENDS TimerNetwork
=============================================================================
