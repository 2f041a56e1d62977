\* Archives opened PAKKA_OPEN_READ_WRITE or made by pakka_create; every write
\* after the first and the last close may fail.
SPECIFICATION FairSpec
CONSTANTS
    n1 = n1
    n2 = n2
    b1 = b1
    b2 = b2
    Name = {n1, n2}
    Byte = {b1, b2}
    Payload <- MCPayloadSmall
    CRC <- MCCRC
    Source = {}
    Unusable = Unusable
    NoFile = NoFile
    Absent = Absent
    Torn = Torn
    InitialFiles <- PlainFiles
    MaxOffset = 6
    AllowDuplicates = FALSE
    OpenModes = {"plain", "new"}
    Faults = {"directory", "scratch", "rename", "reopen", "close"}
    EntryBound = 2
INVARIANTS
    FitsIn32Bits
PROPERTIES
    CloseEnds
    CommitWritesTheList
    ImplementsArchive
