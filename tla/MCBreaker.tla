------------------------------- MODULE MCBreaker -------------------------------
EXTENDS BreakerProperties
=============================================================================
