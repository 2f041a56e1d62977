\* Two readers of an archive that is created, published and edited again.
SPECIFICATION SharedSpec
CONSTANTS
    n1 = n1
    n2 = n2
    b1 = b1
    b2 = b2
    Name = {n1, n2}
    Byte = {b1, b2}
    Payload <- MCPayload
    CRC <- MCCRC
    Source = {s1}
    Unusable = Unusable
    NoFile = NoFile
    Absent = Absent
    Torn = Torn
    InitialFiles <- InitialSet
    MaxOffset = 6
    AllowDuplicates = FALSE
    OpenModes = {"plain", "atomic"}
    Faults = {"append", "directory", "scratch", "rename", "reopen"}
    EntryBound = 2
    r1 = r1
    r2 = r2
    Reader = {r1, r2}
    ReadLengths = {1, 2}
    ReadFaults = TRUE
SYMMETRY Symmetry
INVARIANTS
    SharedTypeOK
    ReadersReturnTheEntry
    

    
