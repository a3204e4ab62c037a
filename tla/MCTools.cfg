SPECIFICATION AllSpec
CONSTANTS
  Shaders <- MCShaders
  ShadingMaterials <- MCMaterials
  ShadingLinks <- MCLinks
  Rewirings <- MCRewirings
  Sky = "sky"
  Sun = "sun"
  MaxShaderEdits = 2
  SessionTypes = {"still", "animation", "rt", "ipr"}
  MaxChanges = 3
  PreviewPrims = {"p", "q"}
  PreviewFiles <- MCPreviewFiles
  PreviewOptions <- MCPreviewOptions
  MaxVersions = 2
  MaxSteps = 4
  OverrideMaterials <- MCOverrideMaterials
  OverrideLevels <- MCOverrideLevels
  MaxDepth = 2
  MaxReads = 2
  MeshDetails <- MCMeshDetails
  MeshContexts <- MCMeshContexts
  MaxExports = 3
  ProxySops = {"s", "t"}
  ProxyCommands <- MCProxyCommands
  MaxCalls = 2
  OslCodes <- MCOslCodes
  OslValues = {"u"}
  OslNodes = {"n"}
  MaxOslInputs = 2
  MaxOslEdits = 5
  SetSops = {"s", "t"}
  SetFiles <- MCSetFiles
  SetMaterials = {"m"}
  MaxSockets = 2
  MaxSetEdits = 4
  LayerBase <- MCLayerBase
  LayerInputs <- MCLayerInputs
  BrokenInputs = {"u"}
  LayerWeights = {1, 2}
  MaxLayers = 2
  MaxLayerEdits = 4
INVARIANTS LinksAreGraphs NodesAreWatched SkyHasItsSun ViewIsCurrent DetailIsOwn
  EqualsAreInstances HighestSourceWins ContextIsCurrent MeshIsDetail FacesAreOfPrims ProxyIsWhole
  SeenIsExported SavedIsKept LayersAreOwn
CHECK_DEADLOCK FALSE
