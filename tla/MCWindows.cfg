SPECIFICATION Spec
CONSTANTS
  Platform = "windows"
  Arch <- X86
  Library <- MCLibrary
  Archive <- MCArchive
  Config <- DebugAndRelease
  BuildSystem <- WindowsSystem
  Deps <- MCDeps
  Installs <- WindowsInstalls
  ReleaseTwins <- MCTwins
  Content <- WindowsContent
  Absent = Absent
  Requests <- MCRequests
  Linked <- LinkAll
INVARIANTS
  TypeOK
  FreshRunIsValidated
  DepsInPlace
  TestLacksThePurged
ACTION_CONSTRAINT OneDirectory
