\* A created archive whose adds may fail after writing a part of the payload.
SPECIFICATION Spec
CONSTANTS
    n1 = n1
    n2 = n2
    b1 = b1
    b2 = b2
    Name = {n1, n2}
    Byte = {b1, b2}
    Payload <- MCPayload
    CRC <- MCCRC
    Source = {}
    Unusable = Unusable
    NoFile = NoFile
    Absent = Absent
    Torn = Torn
    InitialFiles <- NoFiles
    MaxOffset = 6
    AllowDuplicates = FALSE
    OpenModes = {"new"}
    Faults = {"append"}
    EntryBound = 2
PROPERTY
    BrokenCreateNotPublished
