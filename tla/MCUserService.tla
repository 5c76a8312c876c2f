---------------------------- MODULE MCUserService ----------------------------
\* A finite instance of UserService for TLC.
EXTENDS UserService
=============================================================================
