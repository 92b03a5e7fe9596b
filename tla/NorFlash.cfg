SPECIFICATION Spec
CONSTANTS
    PageSize = 2
    SectorSize = 4
    BlockSize = 8
    Capacity = 16
    WrapMask = 2
    Addresses = {0, 1, 3, 4, 6, 8}
    Lengths = {0, 1, 3, 4, 8, 12, 16}
INVARIANTS ResultHonest ChangesPrefix
