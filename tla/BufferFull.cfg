\* One header that fills the page but for its last byte, and a payload.
SPECIFICATION Spec
CONSTANTS
    PageSize = 6
    Char <- SmallChars
    Urls <- SmallUrls
    Headers <- SmallHeaders
    Payloads <- SmallPayloads
    Tables <- SmallTables
    MaxHeaders = 2
INVARIANTS
    ToldIsWritten
