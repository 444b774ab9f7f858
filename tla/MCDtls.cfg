CONSTANTS
  Modes <- SoundModes
  Window = 64
  TmoAlertCount = 12
  Writers = {"server"}
  MaxFaults = 2
SPECIFICATION Spec
INVARIANTS
  TypeOK
  LossIsTolerated
  TranscriptsAgree
  EpochsKept
  SomeoneRetransmits
  DataReadOnce
  CcsInOrder
PROPERTY HandshakeCompletes
