------------------------------- MODULE MCAuth -------------------------------
EXTENDS AuthSession
=============================================================================
