CONSTANTS
    dat = dat
    dll = dll
    cfg = cfg
    v1 = v1
    v2 = v2
    File = {dat, dll, cfg}
    PlatFile = {dll}
    SpecialFile = {dll}
    MayBeModifiable = {cfg}
    Release = {v1, v2}
    Edited = Edited
    Broken = Broken
    Absent = Absent
SPECIFICATION Spec
INVARIANTS
    TypeOK
    OnlyAsksAboutChangedFiles
    UpdatedUnlessFailed
PROPERTIES
    EditsNeedConsent
