\* A WAD, where lump names repeat and copies share a payload, under rebuilds.
SPECIFICATION Spec
CONSTANTS
    n1 = n1
    n2 = n2
    b1 = b1
    b2 = b2
    Name = {n1, n2}
    Byte = {b1, b2}
    Payload <- MCPayloadOne
    CRC <- MCCRC
    Source = {}
    Unusable = Unusable
    NoFile = NoFile
    Absent = Absent
    Torn = Torn
    InitialFiles <- WadFiles
    MaxOffset = 6
    AllowDuplicates = TRUE
    OpenModes = {"plain"}
    Faults = {"append", "rename"}
    EntryBound = 3
PROPERTIES
    RebuildKeepsSharing
    ImplementsArchive
