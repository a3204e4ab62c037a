SPECIFICATION Spec
CONSTANTS
  Shaders <- MCShaders
  Materials <- MCMaterials
  Links <- MCLinks
  Rewirings <- MCRewirings
  Sky = "sky"
  Sun = "sun"
  MaxEdits = 1
INVARIANTS
  RewiredMaterialShown
CHECK_DEADLOCK FALSE
