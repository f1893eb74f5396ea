SPECIFICATION Spec
CONSTANTS
    Byte = {"a", "b"}
    Content <- SomeContents
    BlockSize = 2
    Writer = {w1, w2}
    Reader = {r1}
    MaxBlocks = 3
INVARIANTS
    FileStoreTypeOK
    ReadBack
    RangesApart
PROPERTIES
    FilesKept
CHECK_DEADLOCK FALSE
