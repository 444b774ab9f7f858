SPECIFICATION Spec
CONSTANTS
  Path <- Gcc
  Version <- Upgrade
  NoBanner = NoBanner
  Arch <- TwoArchs
  BuildType <- Release
  Tag <- OneTag
  Object = {o1}
  Makefile = Makefile
  Absent = Absent
  Torn = Torn
INVARIANTS
  TypeOK
  StampIdentifiesArtifacts
  MakeSeesOneToolchain
  OutputKeepsArch
