SPECIFICATION Spec
CONSTANTS
    n = n
    s = s
    u = u
    c = c
    nan = nan
    x = x
    y = y
    mcpx = mcpx
    NoName = NoName
    None = None
    Unencodable = Unencodable
    Malformed = Malformed
    Names = {n, s, u}
    Versions = {1}
    Configs = {c, nan}
    NoConfig = c
    Canon <- MCCanon
    Contributions <- MCContributions
    Compositions <- MCCompositions
    Registries <- MCRegistries
    Registrable <- MCRegistrable
    ToolNames = {x, y, mcpx}
    Reserved = {mcpx}
    ToolPacks <- MCToolPacks
    BudgetDefaults <- MCBudgetDefaults
    Bindings <- MCBindings
INVARIANTS NotFoundIsFinal RequirementsBuilt CapabilitiesMatch InjectionTraceable
INVARIANTS ToolsRouted
