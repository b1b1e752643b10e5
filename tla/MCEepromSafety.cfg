SPECIFICATION Spec
CONSTANTS
    NBSTATIONS = 2
    PER_SECTOR = 2
    ERASED = 2
    Web = {w}
    Ws = {}
    Console = {u}
    Value = {v}
    Blank = Blank
    Zero = Zero
    Mixed = Mixed
    Lost = Lost
INVARIANTS FlashIsMeant
