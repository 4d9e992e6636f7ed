---------------------------- MODULE MCTDLogin ----------------------------
EXTENDS TDLogin
=============================================================================
