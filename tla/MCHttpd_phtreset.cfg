\* One connection slot, one peer, .pht and .lua pages: the requests of
\* one peer in sequence, so no other connection touches its state.
SPECIFICATION Spec
CONSTANTS
    Conns = {c1}
    Addrs = {a1}
    LuaIds = {l1, l2}
    Content <- StoreTwoScripts
    Names <- NamesAll
    Kind <- KindOf
    IndexPage = "i.pht"
    NotFoundPage = "404.htm"
    Queries = {}
    NoQuery = NoQuery
    NoFile = NoFile
    Garbage = Garbage
    BadReq = BadReq
    MaxPolls = 1
    WEB_MAX_CLIENT = 1
    NoAddr = NoAddr
    NULL = NULL
    c1 = c1
    c2 = c2
    a1 = a1
    a2 = a2
    a3 = a3
    q1 = q1
    l1 = l1
    l2 = l2
INVARIANT
    PhtResetOnlyAtPageStart
