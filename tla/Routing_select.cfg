CONSTANTS
  Names = {"a", "b"}
  Namespaced = {"pods"}
  Cluster = {"namespaces"}
  Any = ""
  Phases = {"Pending", "Running"}
  MaxFiles = 3
SPECIFICATION Spec
INVARIANTS
  ListExact
  CacheTracksSelection
