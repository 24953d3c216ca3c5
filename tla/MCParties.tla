------------------------------- MODULE MCParties -------------------------------
EXTENDS PartiesProperties
=============================================================================
