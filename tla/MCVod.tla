------------------------------- MODULE MCVod -------------------------------
EXTENDS Vod, TLC

MCDurations == {2}
=============================================================================
