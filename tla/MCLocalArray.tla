---------------------------- MODULE MCLocalArray ----------------------------
EXTENDS LocalArray
=============================================================================
