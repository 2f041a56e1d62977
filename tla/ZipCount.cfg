\* As many entries as the 16-bit count of the end record can hold.
SPECIFICATION Spec
CONSTANTS
    n1 = n1
    n2 = n2
    b1 = b1
    b2 = b2
    z = z
    f = f
    Name = {n1, n2}
    Byte = {b1, b2, z}
    Payload <- MCPayloadSmall
    CRC <- MCCRC
    Deflated <- MCDeflated
    Methods = {"stored"}
    Source = {}
    Unusable = Unusable
    NoFile = NoFile
    Absent = Absent
    Torn = Torn
    InitialFiles <- NoFiles
    MaxOffset = 9
    MaxCount = 2
    OpenModes = {"new"}
    Faults = {}
    EntryBound = 2
PROPERTIES
    CommittedArchiveOpens
