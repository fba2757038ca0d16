SPECIFICATION FairSpec
CONSTANTS
    Refs = {a, b, c, d}
    MaxList = 2
    ExtendsLists <- MCLists
    MaxExtendsDepth = 2
    None = None
INVARIANTS RootFirst ChainComplete ErrorChainIsPath DepthRespected
PROPERTIES LoadedOnce Terminates
