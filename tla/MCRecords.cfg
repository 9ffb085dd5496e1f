SPECIFICATION Spec
CONSTANTS
  None = None
  Bare = Bare
  Malformed = Malformed
  Mbids <- MCMbids
  DataTypes <- MCDataTypes
  Dumps <- MCDumps
  Vocabularies <- MCVocabularies
  Step = 2
  MaxDumps = 2
INVARIANTS
  TargetsFollowTheDump
  HashTracksData
  NothingStatedIsLost
  ItemsAreClassified
  AliasesUnite
PROPERTIES
  ProgressNeverFalls
CHECK_DEADLOCK FALSE
