SPECIFICATION Spec
CONSTANTS
  Version <- OneVersion
  Platform = "macos"
  Host = "arm64"
  NoVersion = NoVersion
  Requests <- MCRequests
INVARIANTS
  TypeOK
  ForcedBuildIsInstalled
  ConsentBeforeDownload
PROPERTIES
  MergeKeepsTheOther
