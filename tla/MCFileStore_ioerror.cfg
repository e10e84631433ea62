\* The build, with card read errors: the 404 fallback fails too.
SPECIFICATION Spec
CONSTANTS
    FILE_HUGE_SIZE = 4
    FILE_CACHE_SIZE = 0
    FILE_CACHE_NR = 2
    FILE_NAME_MAX_SIZE = 10
    Files <- FilesSmall
    Names <- NamesSmall
    NameLen <- NameLenSmall
    NotFoundPage = "404.htm"
    NUL = NUL
    Junk = Junk
    Other = Other
    NULL = NULL
    NoName = NoName
    MallocMayFail = TRUE
    ReadMayFail = TRUE
INVARIANTS
    StreamsWholeFile
