--------------------------- MODULE MCStreamKeys ---------------------------
EXTENDS StreamKeys, TLC

MCTTLs == {NoExpiry, 0, 1}
MCHandlerSymmetry == Permutations(Handlers)
=============================================================================
