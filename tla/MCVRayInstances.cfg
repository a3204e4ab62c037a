CONSTANTS
  Null = Null
  Modules = {plugin, ipr}
  Renderers = {r1, r2, r3}
  MaxInstances = 2
SPECIFICATION Spec
INVARIANT NoDanglingSlot
SYMMETRY Symmetry
CHECK_DEADLOCK FALSE
