CONSTANTS
  Lists = {l1, l2}
  Segments = {s1, s2}
  Installed <- MCInstalled
  Loadable <- MCLoadable
  Configs <- MCConfigs
  MaxOpens = 2
SPECIFICATION Spec
SYMMETRY Symmetry
CHECK_DEADLOCK FALSE
INVARIANTS
  ConfigApplied
  SegmentsCounted
  ProcessesOwned
  LibrariesOpen
