\* Three requests: one answered, one in the worker's hands, one queued.
\* No symmetry: liveness is checked.
CONSTANTS
    r1 = r1
    r2 = r2
    r3 = r3
    Request = {r1, r2, r3}
    NoRequest = NoRequest
SPECIFICATION FairSpec
INVARIANTS
    TypeOK
    NoLostWakeup
    AbortHitsItsTarget
PROPERTIES
    ChannelSpec
    ShutdownCompletes
    EveryRequestAnswered
