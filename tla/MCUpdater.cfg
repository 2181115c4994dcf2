CONSTANTS
    z1 = z1
    z2 = z2
    c1 = c1
    c2 = c2
    Request = {z1, z2, c1, c2}
    ListRequest = {c1, c2}
    NoRequest = NoRequest
    NoTask = NoTask
SPECIFICATION UFairSpec
INVARIANTS
    UTypeOK
    RequestsDoNotOverlap
    PhasesAgree
    CleanUpIsSafe
PROPERTIES
    ExtractsOwnDownload
    InstallationEnds
    QuitAfterInstallation
