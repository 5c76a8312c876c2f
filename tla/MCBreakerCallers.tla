-------------------------- MODULE MCBreakerCallers --------------------------
\* A finite instance of BreakerCallers for TLC.
EXTENDS BreakerCallers, TLC

CallerSymmetry == Permutations(Callers)
=============================================================================
