\* Counters and timeline: two viewers, four joins per record, up to two
\* sampling goroutines and four samples per record, over a 2-point timeline.
CONSTANTS
    Viewers = {alice, bob}
    MaxTimeline = 2
    MaxJoins = 4
    MaxLoops = 2
    MaxSamples = 4
SPECIFICATION Spec
SYMMETRY MCViewerSymmetry
INVARIANTS
    SpecCounterInvariant
    TimelineKeepsNewest
    TypeOK
