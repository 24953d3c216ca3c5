-------------------------------- MODULE MCServer --------------------------------
EXTENDS ServerProperties, TLC

\* One request of each bucket passes in a window.
OneEach == [b \in Buckets |-> 1]
=============================================================================
