SPECIFICATION FairScanSpec
CONSTANTS
  r = r a = a o = o
  Dirs <- TheDirs
  Root = r
  Names <- TheNames
  Trees <- TheTrees
  Permissions <- ThePermissions
  Patterns <- ThePatterns
  Inclusions <- TheInclusions
  Rejected <- TheRejected
  Recorded <- TheRows
INVARIANTS ScanInv ListedOnce WalkIsExact KeepsWhatExists
PROPERTIES WalkEnds
