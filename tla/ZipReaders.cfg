\* Two readers of a ZIP that is created, published and edited again, small
\* enough for the 4 GiB limit to be met.
SPECIFICATION SharedFairSpec
CONSTANTS
    n1 = n1
    n2 = n2
    b1 = b1
    z = z
    Name = {n1, n2}
    Byte = {b1, z}
    Payload <- MCPayload
    CRC <- MCCRC
    Deflated <- MCDeflated
    Methods = {"stored", "deflate"}
    Source = {}
    Unusable = Unusable
    NoFile = NoFile
    Absent = Absent
    Torn = Torn
    InitialFiles = {NoFile}
    MaxOffset = 5
    MaxCount = 4
    OpenModes = {"existing", "new"}
    Faults = {"scratch", "original", "rename", "reopen", "close"}
    EntryBound = 2
    Reader = {r1, r2}
    ReadLengths = {1, 2}
    ReadFaults = TRUE
INVARIANTS
    ReadersReturnTheEntry
    
PROPERTIES
    CloseEnds
