SPECIFICATION Spec
CONSTANTS
  Files <- MCFiles
  DataTypes <- MCDataTypes
  Artists = "artists"
  Images <- OneImage
  SaveInterval = 1
  MaxRuns = 3
INVARIANTS
  CompletedIsDelivered
  CompletedIsAnnounced
  PurgeSparesDelivered
  OutcomeContract
  IInv
PROPERTIES
  MarkerReopenedBeforeDelivery
  ForcedRunRedelivers
  AnnouncedCountsAreDelivered
  SuccessIsDurable
  ReportedProgressIsTotal
  KeepsPromise
