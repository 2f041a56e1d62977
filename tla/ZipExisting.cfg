\* An archive of another tool or a created one, changing sources, both compression
\* settings, small enough for the 4 GiB limit to be met.
SPECIFICATION Spec
CONSTANTS
    n1 = n1
    n2 = n2
    b1 = b1
    b2 = b2
    z = z
    f = f
    Name = {n1, n2}
    Byte = {b1, b2, z}
    Payload <- MCPayload
    CRC <- MCCRC
    Deflated <- MCDeflated
    Methods = {"stored", "deflate"}
    Source = {f}
    Unusable = Unusable
    NoFile = NoFile
    Absent = Absent
    Torn = Torn
    InitialFiles <- AnyFiles
    MaxOffset = 6
    MaxCount = 4
    OpenModes = {"existing", "new"}
    Faults = {"scratch", "original", "rename", "reopen", "close"}
    EntryBound = 2
INVARIANTS
    TypeOK
    OffsetsMatchTheFile
    AlwaysRebuilds
    CrcMatchesPayload
PROPERTIES
    HeadersAgree
    ImplementsArchive
