--------------------------- MODULE MCRegisterPool ---------------------------
EXTENDS RegisterPool

=============================================================================
