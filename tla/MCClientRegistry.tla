--------------------------- MODULE MCClientRegistry ---------------------------
EXTENDS ClientRegistry

=============================================================================
