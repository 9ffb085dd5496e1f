SPECIFICATION Spec
CONSTANTS
  Files <- MCFiles
  DataTypes <- MCDataTypes
  Artists = "artists"
  Images <- TwoImages
  SaveInterval = 2
  MaxRuns = 2
PROPERTIES
  SuccessCoversCurrentBytes
