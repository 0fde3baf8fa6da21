\* Two headers and one payload at most in a page of six bytes.
SPECIFICATION Spec
CONSTANTS
    PageSize = 6
    Char <- SmallChars
    Urls <- SmallUrls
    Headers <- SmallHeaders
    Payloads <- SmallPayloads
    Tables <- SmallTables
    MaxHeaders = 2
INVARIANTS
    TypeOK
    WrittenIsRead
    NothingStale
    NoRequestLost
    MostSpecial
