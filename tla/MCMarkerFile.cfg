SPECIFICATION Spec
CONSTANTS
  Markers <- MCMarkers
INVARIANTS
  NeverTorn
PROPERTIES
  SaveIsAtomic
