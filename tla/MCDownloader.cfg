SPECIFICATION Spec
CONSTANTS
  EntityCount = 2
  MaxAttempts = 3
INVARIANTS
  FinalIsVerified
  VersionIsWhole
PROPERTIES
  NoPartialLeft
  DownloadEnds
  EntityIsAtomic
