---------------------------- MODULE MCAdminRoles ----------------------------
\* A finite instance of AdminRoles for TLC.
EXTENDS AdminRoles, TLC

HandlerSymmetry == Permutations(Handlers)
=============================================================================
