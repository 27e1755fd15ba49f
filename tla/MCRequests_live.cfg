CONSTANTS
    Ref = {1, 2}
    Id = {a}
    None = None
    AnyOld = AnyOld
    Keep = Keep
    Writer = {w1}
    Packer = {p1}
    Reader = {q1}
    Requests <- LiveRequests
SPECIFICATION FairSpec
PROPERTY EveryCallReturns
