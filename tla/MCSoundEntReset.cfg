SPECIFICATION Spec
CONSTANTS
    MAX_WORLD_SOUNDS = 4
    maxClients = 2
    Monsters = {a}
    MaxDuration = 1
    ThinkInterval = 1
PROPERTIES
    StaysLinked
