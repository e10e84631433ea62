\* Two uIP connection slots and three peers sharing a client table of two
\* slots: evictions, reinsertion of an evicted peer, two connections from
\* one peer, and a Lua heap that runs out.
SPECIFICATION Spec
SYMMETRY ConnSymmetry
VIEW TableView
CONSTANTS
    Conns = {c1, c2}
    Addrs = {a1, a2, a3}
    LuaIds = {l1, l2}
    Content <- StoreSmall
    Names <- NamesSmall
    Kind <- KindSmall
    IndexPage = "i.pht"
    NotFoundPage = "a.htm"
    Queries = {}
    NoQuery = NoQuery
    NoFile = NoFile
    Garbage = Garbage
    BadReq = BadReq
    MaxPolls = 1
    WEB_MAX_CLIENT = 2
    NoAddr = NoAddr
    NULL = NULL
    c1 = c1
    c2 = c2
    a1 = a1
    a2 = a2
    a3 = a3
    q1 = q1
    l1 = l1
    l2 = l2
INVARIANTS
    UniqueAddr
    TableStatesLive
    StateOwnedByPeer
PROPERTIES
    ImplementsIdentityTable
