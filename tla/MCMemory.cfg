SPECIFICATION Spec
CONSTANTS
    Ext <- MCExt
    Contents <- MCContents
    Divergence <- MCDivergence
    Recorders = {r1, r2}
    Creators = {c1, c2}
    FactIds = {1, 2, 3}
    Substrate = "sqlite"
    BatchLimit = 2
    SweepBatch = 1
    MaxRetries = 1
    Crashes = 1
    Casts = {{"source"}, {"human", "sweeper", "reader"}, {"linker", "curator"}, {"human", "linker"}, {"sweeper", "linker"}}
CHECK_DEADLOCK FALSE
INVARIANTS ExtractedOnce 
PROPERTIES SweepMissesNothing BatchEnds
