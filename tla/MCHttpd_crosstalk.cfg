\* Two connections from one peer: the second request's httpd_fs_open()
\* refills file_fs.huge while the first response is still being sent.
SPECIFICATION Spec
CONSTANTS
    Conns = {c1, c2}
    Addrs = {a1}
    LuaIds = {l1}
    Content <- StoreSmall
    Names <- NamesSmall
    Kind <- KindSmall
    IndexPage = "i.pht"
    NotFoundPage = "a.htm"
    Queries = {}
    NoQuery = NoQuery
    NoFile = NoFile
    Garbage = Garbage
    BadReq = BadReq
    MaxPolls = 1
    WEB_MAX_CLIENT = 1
    NoAddr = NoAddr
    NULL = NULL
    c1 = c1
    c2 = c2
    a1 = a1
    a2 = a2
    a3 = a3
    q1 = q1
    l1 = l1
    l2 = l2
INVARIANT
    BodyFaithful
