SPECIFICATION Spec
CONSTANTS
  Platform = "macos"
  Arch <- BothArchs
  Library <- MCLibrary
  Archive <- MCArchive
  Config <- Arm
  BuildSystem <- UnixSystem
  Deps <- MCDeps
  Installs <- UnixInstalls
  ReleaseTwins <- MCTwins
  Content <- MacContent
  Absent = Absent
  Requests <- FullOnly
  Linked <- LinkAll
INVARIANTS
  SuccessMeansValidated
