SPECIFICATION Spec
CONSTANTS
  Revision = {r1, r2}
  NoTarget = NoTarget
SYMMETRY RevisionSymmetry
INVARIANTS
  TypeOK
  MarkerMeansApplied
  CompiledPatched
PROPERTIES
  AppliedAtTarget
