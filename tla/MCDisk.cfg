CONSTANTS
    ByteBase = 4
    Permuted <- MCPermuted
    Restored <- MCRestored
    Swapped <- MCSwapped
    Crc <- MCCrc
    ExclusiveOr <- MCExclusiveOr
    NodeBase = 512
    IndexBase = 16
    PageBase = 8
    AreaSize = 9
    DensityMax = 9
    DensityListIndex = 52
    MaxLevel = 3
    Alignment = 8
    MaxBlockSize = 24
    MaxFileSize = 110
    Places <- MCPlaces
    Disks <- MCDisks
SPECIFICATION DiskSpec
INVARIANTS StoredIsRead AcceptedLiesInside
