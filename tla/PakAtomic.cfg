\* An archive opened PAKKA_OPEN_READ_WRITE_ATOMIC; every step may fail.
SPECIFICATION Spec
CONSTANTS
    n1 = n1
    n2 = n2
    b1 = b1
    b2 = b2
    Name = {n1, n2}
    Byte = {b1, b2}
    Payload <- MCPayload
    CRC <- MCCRC
    Source = {s1}
    Unusable = Unusable
    NoFile = NoFile
    Absent = Absent
    Torn = Torn
    InitialFiles <- AtomicFiles
    MaxOffset = 6
    AllowDuplicates = FALSE
    OpenModes = {"atomic"}
    Faults = {"scratch", "rename", "reopen", "nomem"}
    EntryBound = 2
INVARIANTS
    TypeOK
    PayloadEndBounds
    NoDuplicateNames
PROPERTIES
    CommitWritesTheList
    ImplementsArchive
