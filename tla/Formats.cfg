\* The Daikatana codec on short texts and codes; the PAK-class directories.
SPECIFICATION Spec
CONSTANTS
    W = 6
    Texts <- MCTexts
    Codes <- MCCodes
    Sizes <- MCSizes
    NameWords <- MCNameWords
    Letter = 4
    Letters = 1000
    MaxEntries = 3
    Archives <- MCArchives
INVARIANTS
    EncodingFits
    StaysInBuffers
    RoundTrip
    WrittenIsReadBack
\* A decoding ends; an archive is opened once.
CHECK_DEADLOCK FALSE
