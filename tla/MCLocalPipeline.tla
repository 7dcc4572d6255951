--------------------------- MODULE MCLocalPipeline ---------------------------
\* TLC instances of LocalPipeline.
EXTENDS LocalPipeline
=============================================================================
