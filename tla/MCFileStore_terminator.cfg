\* The build (FILE_CACHE_SIZE 0): a 3-byte page then a 1-byte one in huge.
SPECIFICATION Spec
CONSTANTS
    FILE_HUGE_SIZE = 4
    FILE_CACHE_SIZE = 0
    FILE_CACHE_NR = 2
    FILE_NAME_MAX_SIZE = 10
    Files <- FilesSmall
    Names <- NamesSmall
    NameLen <- NameLenSmall
    NotFoundPage = "404.htm"
    NUL = NUL
    Junk = Junk
    Other = Other
    NULL = NULL
    NoName = NoName
    MallocMayFail = TRUE
    ReadMayFail = FALSE
INVARIANTS
    FileTerminated
