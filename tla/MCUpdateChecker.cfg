CONSTANTS
    m_CurVersion <- MCCurVersion
    Published <- MCPublished
    Nothing = Nothing
SPECIFICATION Spec
INVARIANTS
    TypeOK
    FindsNewest
PROPERTIES
    NothingMissed
    InstallsWhatWasOffered
