\* The build, and a request for /index2.htm (11 bytes): strcat puts 16 bytes
\* into the 15 of fullpath.
SPECIFICATION Spec
CONSTANTS
    FILE_HUGE_SIZE = 4
    FILE_CACHE_SIZE = 0
    FILE_CACHE_NR = 2
    FILE_NAME_MAX_SIZE = 10
    Files <- FilesSmall
    Names <- NamesLong
    NameLen <- NameLenLong
    NotFoundPage = "404.htm"
    NUL = NUL
    Junk = Junk
    Other = Other
    NULL = NULL
    NoName = NoName
    MallocMayFail = TRUE
    ReadMayFail = FALSE
INVARIANTS
    NoNameOverflow
