--------------------------- MODULE MCVaclabSystem ---------------------------
EXTENDS VaclabSystem, MCBase
=============================================================================
