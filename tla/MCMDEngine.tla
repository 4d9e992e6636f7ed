---------------------------- MODULE MCMDEngine ----------------------------
EXTENDS MDEngine
=============================================================================
