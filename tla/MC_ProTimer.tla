----------------------------- MODULE MC_ProTimer ----------------------------
EXTENDS ProTimer
=============================================================================
