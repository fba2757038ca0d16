SPECIFICATION ExpandSpec
CONSTANTS
    s = s
    t = t
    n = n
    c1 = c1
    c1b = c1b
    c2 = c2
    nan = nan
    nil = nil
    NoName = NoName
    None = None
    Unencodable = Unencodable
    Names = {s, t, n}
    Versions = {1, 2}
    Configs = {c1, c1b, c2, nan, nil}
    NoConfig = nil
    Canon <- MCCanon
    Contributions <- MCContributions
    Compositions <- MCCompositions
    Registries <- MCRegistries
INVARIANTS AttributionExact RequirementsMet
