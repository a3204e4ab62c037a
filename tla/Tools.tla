-------------------------------- MODULE Tools --------------------------------
(***************************************************************************)
(* The exporters and nodes that keep their state to themselves, each       *)
(* alone: a behaviour is one of the system "which" names, and the          *)
(* variables of the others do not change.                                  *)
(***************************************************************************)

CONSTANTS
  Shaders, ShadingMaterials, ShadingLinks, Sky, Sun, Rewirings, MaxShaderEdits,
  SessionTypes, MaxChanges,  \* ViewExport
  PreviewPrims, PreviewFiles, PreviewOptions, MaxVersions, MaxSteps,
  OverrideMaterials, OverrideLevels, MaxDepth, MaxReads,
  MeshDetails, MeshContexts, MaxExports,
  ProxySops, ProxyCommands, MaxCalls,
  OslCodes, OslValues, OslNodes, MaxOslInputs, MaxOslEdits,
  SetSops, SetFiles, SetMaterials, MaxSockets, MaxSetEdits,
  LayerBase, LayerInputs, BrokenInputs, LayerWeights, MaxLayers, MaxLayerEdits

VARIABLES
  which,  \* the system of this behaviour
  shadingPhase, link, shadersAlive, shaderVersion, callbacks, shaderEdits, shaderCache,
  matCache, shaderPlugins, watched, delayed, unseen,  \* ShaderExport
  viewSession, gpu, headlight, want, told, changes, first, last, view, camera, size, region,
  light, since, regions,  \* ViewExport
  previewKind, options, detail, bounded, cache, fileVersion, steps,  \* PreviewCache
  stack, initialized, overrideCurrent, reads,  \* MaterialOverride
  polyMaterial, polyMapChannels, meshPrim, hashCache, item, exports,  \* MeshExport
  dir, proxyFiles, scenes, rop, proxyResult, calls,  \* ProxyExport
  mtl, code, osl, oslLinks, oslExported, oslEdits,  \* OslNode
  parm, sopPath, filePath, shaderSets, needRebuildShadersSets, file, disk, setLinks,
  saved, loaded, setEdits,  \* MeshSets
  layerKind, count, weights, layerLinks, layerExported, layerEdits  \* LayerNodes

Shading == INSTANCE ShaderExport WITH
  Materials <- ShadingMaterials, Links <- ShadingLinks, MaxEdits <- MaxShaderEdits,
  phase <- shadingPhase, alive <- shadersAlive, version <- shaderVersion,
  pending <- callbacks, edits <- shaderEdits, plugins <- shaderPlugins
View == INSTANCE ViewExport WITH session <- viewSession
Preview == INSTANCE PreviewCache WITH
  Prims <- PreviewPrims, Files <- PreviewFiles, Options <- PreviewOptions,
  kind <- previewKind, version <- fileVersion
Override == INSTANCE MaterialOverride WITH
  Materials <- OverrideMaterials, Levels <- OverrideLevels, current <- overrideCurrent
Mesh == INSTANCE MeshExport WITH Details <- MeshDetails, Contexts <- MeshContexts
Proxy == INSTANCE ProxyExport WITH
  Sops <- ProxySops, Commands <- ProxyCommands, files <- proxyFiles, result <- proxyResult
Osl == INSTANCE OslNode WITH
  Codes <- OslCodes, Values <- OslValues, Nodes <- OslNodes, MaxInputs <- MaxOslInputs,
  MaxEdits <- MaxOslEdits, links <- oslLinks, exported <- oslExported, edits <- oslEdits
Sets == INSTANCE MeshSets WITH
  Sops <- SetSops, Files <- SetFiles, Nodes <- SetMaterials, MaxEdits <- MaxSetEdits,
  links <- setLinks, edits <- setEdits
Layer == INSTANCE LayerNodes WITH
  Base <- LayerBase, Nodes <- LayerInputs, Broken <- BrokenInputs, Weights <- LayerWeights,
  MaxEdits <- MaxLayerEdits,
  kind <- layerKind, links <- layerLinks, exported <- layerExported, edits <- layerEdits

ASSUME Assumptions ==
  /\ Shading!NetworkAssumption /\ View!SessionAssumption /\ Preview!OptionsAssumption
  /\ Override!LevelsAssumption
  /\ Mesh!DetailsAssumption /\ Proxy!CommandsAssumption /\ Osl!CodesAssumption
  /\ Sets!FilesAssumption /\ Layer!LayerAssumption

-----------------------------------------------------------------------------
(* A system that is not the one of this behaviour. *)

Off == "off"
ShadingVars == <<shadingPhase, link, shadersAlive, shaderVersion, callbacks, shaderEdits,
      shaderCache, matCache, shaderPlugins, watched, delayed, unseen>>
ViewVars == <<viewSession, gpu, headlight, want, told, changes, first, last, view, camera, size,
      region, light, since, regions>>
PreviewVars == <<previewKind, options, detail, bounded, cache, fileVersion, steps>>
OverrideVars == <<stack, initialized, overrideCurrent, reads>>
MeshVars == <<polyMaterial, polyMapChannels, meshPrim, hashCache, item, exports>>
ProxyVars == <<dir, proxyFiles, scenes, rop, proxyResult, calls>>
OslVars == <<mtl, code, osl, oslLinks, oslExported, oslEdits>>
SetsVars == <<parm, sopPath, filePath, shaderSets, needRebuildShadersSets, file, disk, setLinks,
      saved, loaded, setEdits>>
LayerVars == <<layerKind, count, weights, layerLinks, layerExported, layerEdits>>
ShadingOff ==
  /\ shadingPhase = Off /\ link = Off /\ shadersAlive = Off /\ shaderVersion = Off
  /\ callbacks = Off /\ shaderEdits = Off /\ shaderCache = Off /\ matCache = Off
  /\ shaderPlugins = Off /\ watched = Off /\ delayed = Off /\ unseen = Off
ViewOff ==
  /\ viewSession = Off /\ gpu = Off /\ headlight = Off /\ want = Off /\ told = Off
  /\ changes = Off /\ first = Off /\ last = Off /\ view = Off /\ camera = Off /\ size = Off
  /\ region = Off /\ light = Off /\ since = Off /\ regions = Off
PreviewOff ==
  /\ previewKind = Off /\ options = Off /\ detail = Off /\ bounded = Off /\ cache = Off
  /\ fileVersion = Off /\ steps = Off
OverrideOff ==
  /\ stack = Off /\ initialized = Off /\ overrideCurrent = Off /\ reads = Off
MeshOff ==
  /\ polyMaterial = Off /\ polyMapChannels = Off /\ meshPrim = Off /\ hashCache = Off
  /\ item = Off /\ exports = Off
ProxyOff ==
  /\ dir = Off /\ proxyFiles = Off /\ scenes = Off /\ rop = Off /\ proxyResult = Off /\ calls = Off
OslOff ==
  /\ mtl = Off /\ code = Off /\ osl = Off /\ oslLinks = Off /\ oslExported = Off
  /\ oslEdits = Off
SetsOff ==
  /\ parm = Off /\ sopPath = Off /\ filePath = Off /\ shaderSets = Off
  /\ needRebuildShadersSets = Off /\ file = Off /\ disk = Off /\ setLinks = Off
  /\ saved = Off /\ loaded = Off /\ setEdits = Off
LayerOff ==
  /\ layerKind = Off /\ count = Off /\ weights = Off /\ layerLinks = Off
  /\ layerExported = Off /\ layerEdits = Off

AllInit ==
  /\ which \in {"Shading", "View", "Preview", "Override", "Mesh", "Proxy", "Osl", "Sets", "Layer"}
  /\ IF which = "Shading" THEN Shading!Init ELSE ShadingOff
  /\ IF which = "View" THEN View!Init ELSE ViewOff
  /\ IF which = "Preview" THEN Preview!Init ELSE PreviewOff
  /\ IF which = "Override" THEN Override!Init ELSE OverrideOff
  /\ IF which = "Mesh" THEN Mesh!Init ELSE MeshOff
  /\ IF which = "Proxy" THEN Proxy!Init ELSE ProxyOff
  /\ IF which = "Osl" THEN Osl!Init ELSE OslOff
  /\ IF which = "Sets" THEN Sets!Init ELSE SetsOff
  /\ IF which = "Layer" THEN Layer!Init ELSE LayerOff

AllNext ==
  /\ UNCHANGED which
  /\ \/ which = "Shading" /\ Shading!Next
        /\ UNCHANGED <<ViewVars, PreviewVars, OverrideVars, MeshVars, ProxyVars, OslVars,
                      SetsVars, LayerVars>>
     \/ which = "View" /\ View!Next
        /\ UNCHANGED <<ShadingVars, PreviewVars, OverrideVars, MeshVars, ProxyVars,
                      OslVars, SetsVars, LayerVars>>
     \/ which = "Preview" /\ Preview!Next
        /\ UNCHANGED <<ShadingVars, ViewVars, OverrideVars, MeshVars, ProxyVars, OslVars,
                      SetsVars, LayerVars>>
     \/ which = "Override" /\ Override!Next
        /\ UNCHANGED <<ShadingVars, ViewVars, PreviewVars, MeshVars, ProxyVars, OslVars,
                      SetsVars, LayerVars>>
     \/ which = "Mesh" /\ Mesh!Next
        /\ UNCHANGED <<ShadingVars, ViewVars, PreviewVars, OverrideVars, ProxyVars,
                      OslVars, SetsVars, LayerVars>>
     \/ which = "Proxy" /\ Proxy!Next
        /\ UNCHANGED <<ShadingVars, ViewVars, PreviewVars, OverrideVars, MeshVars,
                      OslVars, SetsVars, LayerVars>>
     \/ which = "Osl" /\ Osl!Next
        /\ UNCHANGED <<ShadingVars, ViewVars, PreviewVars, OverrideVars, MeshVars,
                      ProxyVars, SetsVars, LayerVars>>
     \/ which = "Sets" /\ Sets!Next
        /\ UNCHANGED <<ShadingVars, ViewVars, PreviewVars, OverrideVars, MeshVars,
                      ProxyVars, OslVars, LayerVars>>
     \/ which = "Layer" /\ Layer!Next
        /\ UNCHANGED <<ShadingVars, ViewVars, PreviewVars, OverrideVars, MeshVars,
                      ProxyVars, OslVars, SetsVars>>

allVars ==
  <<which, ShadingVars, ViewVars, PreviewVars, OverrideVars, MeshVars, ProxyVars, OslVars,
    SetsVars, LayerVars>>
AllSpec == AllInit /\ [][AllNext]_allVars

-----------------------------------------------------------------------------
(* The properties, of the system that is on. *)

\* What the plugins of a material show is the network that there is now, but for what a
\* node without a plugin of its own decides and that was edited since: a subnet, what is
\* inside it, a parameter of the network, a transform (ShaderExport).
LinksAreGraphs == which = "Shading" => Shading!LinksFollowGraph

\* A node that has been exported in an interactive session is watched, so that its
\* edits reach the renderer (ShaderExport).
NodesAreWatched == which = "Shading" => Shading!ExportedAreWatched

\* A sky sees the sun that is in the scene, in whatever order the two are exported
\* (ShaderExport).
SkyHasItsSun == which = "Shading" => Shading!SkySeesItsSun

\* The view in the renderer is that of the camera, the ROP and the session there are, or
\* for what exportView() leaves alone that of the last reset (vfh_export_view).
ViewIsCurrent == which = "View" => View!ViewIsCurrent

\* A primitive shows what its own options ask for, whoever had it built and cached
\* (the previews of packed primitives).
DetailIsOwn == which = "Preview" => Preview!DetailIsOwn

\* Primitives that ask for the same show the same detail and are drawn as instances
\* of it (the previews of packed primitives).
EqualsAreInstances == which = "Preview" => Preview!EqualsAreInstances

\* What a primitive gets for its material and overrides comes from the source of the
\* highest priority that has it (PrimMaterial).
HighestSourceWins == which = "Override" => Override!HighestSourceWins

\* The material read in a nested level of primitives is that of the levels there are
\* now (PrimContextStack).
ContextIsCurrent == which = "Override" => Override!ContextIsCurrent

\* The mesh that is exported has the faces, edges and channels of the detail it is
\* exported from (MeshExporter).
MeshIsDetail == which = "Mesh" => Mesh!MeshIsDetail

\* Each face of a mesh has the material and the overrides of its own primitive
\* (MeshExporter).
FacesAreOfPrims == which = "Mesh" => Mesh!FacesAreOfPrims

\* An export of proxies that reports success has left files with all frames of all
\* nodes they are for (vfh_export_vrayproxy and its ROP).
ProxyIsWhole == which = "Proxy" => Proxy!ProxyIsWhole

\* An OSL node that was asked for its sockets since its code changed exports each
\* parameter with the value or the plugin the user sees for it (vop_node_osl).
SeenIsExported == which = "Osl" => Osl!SeenIsExported

\* A scene saved with the shader sets of a proxy exports the same materials for the
\* same sets when it is loaded again, whatever became of the proxy (vop_MtlVRayMesh).
SavedIsKept == which = "Sets" => Sets!SavedIsKept

\* The lists of a layered node hold, side by side, what is on the socket of each
\* layer and that layer's own id, weight or mode (MtlMulti, BRDFLayered and others).
LayersAreOwn == which = "Layer" => Layer!LayersAreOwn
=============================================================================
