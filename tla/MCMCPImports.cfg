CONSTANTS
  Absent = Absent
  Wrong = Wrong
  ImportLists <- MCImportLists
  Factories = {"generic"}
  PolicyPacks = {"p1"}
  Resolvers = {"c1"}
  IDs = {"p1", "p2", "c1", "c2"}
  Globs = {"g"}
SPECIFICATION Spec
CHECK_DEADLOCK FALSE
INVARIANTS UniqueBindings RestrictionsKept ValidateCoversFactory RoundTrip
