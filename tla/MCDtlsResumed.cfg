CONSTANTS
  Modes <- HitModes
  Window = 64
  TmoAlertCount = 12
  Writers = {}
  MaxFaults = 1
SPECIFICATION Spec
INVARIANT LossIsTolerated
