SPECIFICATION FairSpec
CONSTANTS
    Combinations = 2
    Expand = TRUE
INVARIANTS TypeOK RunsWhatIsRecorded RestoredMeansRestored SelectedIsMeasured
PROPERTY TunerEnds
