----------------------------- MODULE MCCommands -----------------------------
\* A finite instance of Commands for TLC.
EXTENDS Commands, TLC

GoroutineSymmetry == Permutations(Goroutines)
=============================================================================
