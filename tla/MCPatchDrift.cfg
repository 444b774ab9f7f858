SPECIFICATION Spec
CONSTANTS
  Revision = {r1, r2}
  NoTarget = NoTarget
INVARIANTS
  CompiledAtTarget
