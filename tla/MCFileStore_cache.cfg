\* The cache configuration of httpd-fs.c (FILE_CACHE_SIZE > 0), scaled: a
\* 4-byte huge, two 2-byte entries; pages that fit an entry, one that does
\* not, and a missing name; malloc and the card work.
SPECIFICATION Spec
CONSTANTS
    FILE_HUGE_SIZE = 4
    FILE_CACHE_SIZE = 2
    FILE_CACHE_NR = 2
    FILE_NAME_MAX_SIZE = 10
    Files <- FilesSmall
    Names <- NamesSmall
    NameLen <- NameLenSmall
    NotFoundPage = "404.htm"
    NUL = NUL
    Junk = Junk
    Other = Other
    NULL = NULL
    NoName = NoName
    MallocMayFail = FALSE
    ReadMayFail = FALSE
INVARIANTS
    TypeOK
    StreamsWholeFile
