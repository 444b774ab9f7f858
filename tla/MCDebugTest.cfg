SPECIFICATION Spec
CONSTANTS
  Platform = "windows"
  Arch <- X86
  Library <- MCLibrary
  Archive <- MCArchive
  Config <- Debug
  BuildSystem <- WindowsSystem
  Deps <- MCDeps
  Installs <- WindowsInstalls
  ReleaseTwins <- MCTwins
  Content <- WindowsContent
  Absent = Absent
  Requests <- FullOnly
  Linked <- LinkAll
INVARIANTS
  TestFindsLibraries
