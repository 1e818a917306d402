---------------------------- MODULE MCAnalytics ----------------------------
EXTENDS Analytics, TLC

MCViewerSymmetry == Permutations(Viewers)
=============================================================================
