SPECIFICATION Spec
CONSTANTS
    a = a
    b = b
    c = c
    e1 = e1
    Monsters <- MCMonsters
    Enemies <- MCEnemies
    NULL = NULL
    EngageSlots <- MCEngageSlots
    GrenadeSlots <- MCGrenadeSlots
    bits_NO_SLOT = 0
    bits_SLOT_SQUAD_SPLIT = 10
    MAX_SQUAD_MEMBERS = 3
SYMMETRY Symmetry
INVARIANTS
    TypeOK
    SquadsAgree
    OneHolder
PROPERTIES
    LeaderDeathDisbands
CHECK_DEADLOCK FALSE
