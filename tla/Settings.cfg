SPECIFICATION SettingsSpec
CHECK_DEADLOCK FALSE
CONSTANTS
    q1 = q1
    q2 = q2
    good1 = good1
    good2 = good2
    bad = bad
    None = None
    Garbled = Garbled
    Requests <- TwoRequests
    Services <- SomeServices
    Values <- ThreeValues
    Preset <- OnePreset
    Sound <- SoundValues
SYMMETRY Symmetries
INVARIANTS
    SettingsTypeOK
    UsesWhatIsInForce
    TestedKeyWorks
    PutsKept
