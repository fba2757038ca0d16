SPECIFICATION Spec
CONSTANTS
    v = v
    w = w
    bad = bad
    None = None
    Absent = Absent
    Nil = Nil
    Null = Null
    Malformed = Malformed
    RefLists = {"tools"}
    ExpectedAPIVersion = v
    Empty = Empty
    Slots = {"apiVersion", "provider", "tools", "skills"}
    OverlaySlots = {"provider", "tools"}
    Required = {"apiVersion", "provider"}
    Stages = {"preLLM", "preTool"}
    Values = {v, w, bad, Empty}
    Valid = {v, w}
    SpecLayers <- MCSpecLayers
    OverlayLayers <- MCOverlayLayers
    MaxParents = 2
    MaxOverlayCount = 2
INVARIANTS ProvenanceExact ValueOfLastSetter OverlaysKeepIdentity DocumentsDecide
