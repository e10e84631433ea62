\* One connection slot, two peers, a client table of one slot: the second
\* peer evicts the first.
SPECIFICATION Spec
CONSTANTS
    Conns = {c1}
    Addrs = {a1, a2}
    LuaIds = {l1, l2}
    Content <- StoreSmall
    Names <- NamesSmall
    Kind <- KindSmall
    IndexPage = "i.pht"
    NotFoundPage = "a.htm"
    Queries = {}
    NoQuery = NoQuery
    NoFile = NoFile
    Garbage = Garbage
    BadReq = BadReq
    MaxPolls = 1
    WEB_MAX_CLIENT = 1
    NoAddr = NoAddr
    NULL = NULL
    c1 = c1
    c2 = c2
    a1 = a1
    a2 = a2
    a3 = a3
    q1 = q1
    l1 = l1
    l2 = l2
INVARIANT
    NoLeakedState
