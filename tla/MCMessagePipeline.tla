------------------------- MODULE MCMessagePipeline -------------------------
\* A finite instance of MessagePipeline for TLC.
EXTENDS MessagePipeline, TLC

MessageSymmetry == Permutations(Msgs)
=============================================================================
