------------------------ MODULE MCCommandRateLimiter ------------------------
\* A finite instance of CommandRateLimiter for TLC.
EXTENDS CommandRateLimiter, TLC

CommandSymmetry == Permutations(Keys) \cup Permutations(Callers)
=============================================================================
