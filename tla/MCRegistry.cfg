SPECIFICATION FairSpec
CONSTANTS
    p1 = p1
    p2 = p2
    p3 = p3
    tool = tool
    policy = policy
    id1 = id1
    fa = fa
    fb = fb
    None = None
    Procs = {p1, p2, p3}
    Kinds = {tool, policy}
    IDs = {id1}
    Factories = {fa, fb}
    FactoryKind <- MCKindOf
    FactoryID <- MCIDOf
INVARIANTS OutcomeHolds
PROPERTIES FrozenIsFinal WriteOnce Atomic CallsReturn
