----------------------------- MODULE MCLocalPtr -----------------------------
EXTENDS LocalPtr
=============================================================================
