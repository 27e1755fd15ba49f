CONSTANTS
    Ref = {1, 2}
    Id = {a, b}
    None = None
    AnyOld = AnyOld
    Keep = Keep
    Writer = {w1, w2}
    Packer = {p1}
    Reader = {q1}
    Requests <- EveryRequest
SPECIFICATION MCSpec
SYMMETRY Symmetric
INVARIANTS IInv ListingTrue
PROPERTIES PackingIsInvisible ImplementsAtomicRefs
