------------------------------ MODULE MCSessions ------------------------------
EXTENDS SessionsProperties
=============================================================================
