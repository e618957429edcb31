SPECIFICATION TokensSpec
CONSTANTS
    Ops = {1, 2, 3}
INVARIANTS RevokedFamilyIsDead
CHECK_DEADLOCK FALSE
