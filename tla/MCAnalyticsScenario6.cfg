\* Spec scenario 6: two viewers, one record, four joins.  CurrentViewers is
\* compared with the open sessions.
CONSTANTS
    Viewers = {alice, bob}
    MaxTimeline = 2
    MaxJoins = 4
    MaxLoops = 1
    MaxSamples = 1
SPECIFICATION Spec
SYMMETRY MCViewerSymmetry
INVARIANT CurrentCountsOpenSessions
