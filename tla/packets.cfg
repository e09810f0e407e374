\* Four ways a set may lie on disk, damaged twice.
SPECIFICATION Spec
CONSTANTS
    Sets <- MCSets
    Stored <- MCStored
    Lengths = {0, 3, 60}
    MaxDamage = 2
INVARIANTS TypeOK DamageIsLocal ParsedFromSurvivors FailsForAReason EachFileIsEnough
