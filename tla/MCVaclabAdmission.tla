-------------------------- MODULE MCVaclabAdmission --------------------------
EXTENDS VaclabAdmission, MCBase
=============================================================================
