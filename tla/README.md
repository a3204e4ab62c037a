# V-Ray for Houdini: specifications

TLA+ models of the stateful and concurrent parts of V-Ray for Houdini, the TLC
configurations that check them, and proofs for TLAPS. Paths are relative to the
repository's source root (`src/src/...` for C++, `src/deploy/...` for scripts
and dialogs). `PROJECT.json` maps every definition to the lines it stands for.

## 1. The system

V-Ray for Houdini is a Houdini plugin in C++ (about 37 000 lines) that exports a
Houdini scene to the V-Ray AppSDK. It is built as two shared modules, the plugin
proper and the IPR Python module; both may be loaded into one Houdini.

| Component | State it keeps | Operations | Hard behaviour |
|---|---|---|---|
| Exporter `export/vfh_exporter.cpp` | session type, work mode, `m_exportedFrames`, `m_isAborted`, `m_error`, registered callbacks, saved take | `initExporter`, `exportFrame`, `renderFrame`, `exportEnd`, `reset`, `addOpCallback`, ... | overlapping motion blur intervals, key frames that are cleared and skipped, aborts from the renderer's thread, RT callbacks against `exportEnd` |
| Plugin renderer `export/vfh_plugin_exporter.cpp` | the V-Ray renderer, its key frames | `initRenderer`, `exportPlugin`, `clearFrames`, `exportScene`, `startRender`, `reset` | renderers shared between modules, failure to create one |
| Renderer registry `lib/vfh_vray_instances.cpp` | a `QSharedMemory` segment: `VRayInit`, a table of renderers | `newVRayInit`, `newVRayRenderer`, `deleteVRayRenderer`, `deleteVRayInit` | two modules and two threads on one table, a full table, unload in any order |
| Image writer `ipr/python/vfh_ipr_imdisplay_viewer.cpp` | message queue, `isRunning`, the imdisplay device | `add`, `clear`, `restart`, `run`, destructor | UI, renderer and worker threads on one queue, restart and close in the middle of a run |
| IPR module `ipr/python/vfh_ipr.cpp` with `soho/python2.7/vfh_ipr.py` | the exporter and its mutex, signal connections | `vfhInit`, `vfhExportView`, `vfhIsRopValid`, `vfhSetTime`, `freeExporter` | a lock that is released between scopes, slots that run on the worker, lock order |
| Cloud upload `export/vfh_vray_cloud.cpp` | the upload window, its command queue, the client process, the job file | `submitJob`, `closeEvent`, process slots, abort | a fixed file name, events inside a question, a client that crashes or hangs |
| Log thread `utils/vfh_log.cpp` | queue, working flag | `valog`, `add`, `run`, start, stop | an unlocked test of the queue, stop against a late message |
| ROP `rop/vfh_rop.cpp` | session type, frame range | `startRender`, `renderFrame`, `endRender`, `startRenderRT` | RT and production sessions on one exporter |
| RT callbacks `vfh_export_{object,light,material,view}.cpp` | Houdini interests, the list of entries | one callback per node kind | node deletion, events during an export, the renderer's thread |
| Object exporter `export/vfh_export_geom.cpp` | caches of plugins per object, per primitive and per geometry; the instancer items collected so far, the context stack, the export mode | `exportObject`, `exportGeometry`, `processPrimitives`, `exportPointInstancer`, `exportDetailInstancer`, `exportLight`, `removeObject` | recursion that shares one set of fields, caches cleared in part by each callback |
| Mesh exporter `export/vfh_export_mesh.cpp` | the detail it packs, map channels | `asPluginDesc`, `getFaces`, `getMaterial`, `getMapChannels` | index arithmetic over mixed primitives, lists of materials cached apart from the meshes |
| Shader, material and texture exporters `export/vfh_export_{vop,op,texture}.cpp`, `vfh_export_material.cpp` | processed shaders, finished materials, delayed items | `exportShaderNode`, `exportConnectedSocket`, `exportMaterial`, `exportDelayed` | two caches, links through subnets, order of delayed items |
| View `export/vfh_export_view.cpp` | the parameters exported last | `fillViewParams...`, `exportView`, `onCameraChange` | what to export again after several changes |
| Material overrides `export/vfh_material_override.cpp` | the material of a primitive, the context stack | `appendMaterialOverrides`, `getPrimMaterial` | five sources with priorities, a joined context that is kept |
| V-Ray proxies `export/vfh_export_vrayproxy.cpp`, `rop/rop_vrayproxyrop.cpp`, `cmd/` | options, the frame of the context | `doExport`, `convertData`, the ROP's calls | files, frames and nodes that fail |
| Packed primitives `gu/`, `sop/vfh_vrayproxyutils.cpp` | options, a detail, caches shared by all primitives | `updateFrom`, `detailRebuild`, `getDetail` | keys of caches, files that change |
| Nodes that compute their sockets `vop/` | OSL parameters, shader sets, layers | asked for sockets, cooked, saved and loaded, exported | sockets that are rebuilt when somebody asks |
| Other SOP, VOP and OBJ nodes, parameter descriptions, utilities, I/O translators | almost none | cook, parse, convert | data conversion |
| Deployment | none | dialogs, shelf tools, build files | none |

How they interact: the ROP and the IPR module own an exporter and call it on
Houdini's UI thread. The exporter owns a plugin renderer, which takes its V-Ray
renderer from the registry. V-Ray calls back on its own threads
(`onStateChanged`, bucket and image callbacks); in an IPR session these queue
messages for the image writer, whose `finished()` signal frees the exporter, on
the writer's thread. A cloud session ends in `exportEnd()`, which writes a scene
file and hands it to the upload window. Everything logs to the log thread.

What makes each part correct is stated as the properties of section 3; what is
hard to test is listed under `hazards` in `PROJECT.json`, each at its line.

## 2. Modules and the code

| Module | Models | Correspondence |
|---|---|---|
| `ImdisplayThread` | the image writer | `Add`, `ClearQueue`, `RestartSet/Clear/Start`, `Stop` are the public calls; `Worker...`, `Process...`, `NextBucket`, `ProbeDevice`, `WriteTile` are the steps of `run()`. A message is a record of type and number; how many writes a tile takes is the constant `Buckets` |
| `TileMailbox` | what the queue promises | one mailbox per kind of message, which keeps the newest; a header is delivered before anything that waits and discards what was put before it. Abstract specification of `ImdisplayThread`'s queue |
| `ImdisplaySystem` | the writer with the threads that call it | UI calls of `vfh_ipr.cpp`/`vfh_ipr_viewer.cpp`, the renderer's callbacks, the viewer that goes away |
| `IprSession` | the IPR module | `vfh_ipr.py`'s generate and update calls as sequences of `WithExporter` scopes; the mutex; `finished()` with one slot per `vfhInit`; instantiates the writer's actions |
| `VRayInstances` | the registry | the shared table, `VRayInit`, the dummy renderer; clients are the modules that map the segment |
| `CloudUpload` | the cloud upload | `exportEnd()`'s cloud branch, `submitJob`, the window, its question, the client process |
| `LogThread` | the log thread | producers in `valog`/`add`, the thread in `run`, the UI thread in `startLogging`/`stopLogging` |
| `FrameExport` | production and cloud sessions of the exporter | `initExporter`, `exportFrame` split where an abort can come in between, `renderFrame`, `exportEnd`; the renderer's key frames are the set of times it has values for |
| `RtSession` | RT, production and cloud sessions of one ROP as the callbacks see them | `interests` is what Houdini knows, `entries` is `m_opRegCallbacks`; `addOpCallback`, the handlers on changed and deleted nodes, `applyTake`, `restoreCurrentTake`, `initSession`; `exportEnd` on V-Ray's thread is split into `EndReset`, `EndClear`, `EndTake`, `EndUnbind` |
| `ObjectExport` | the object exporter in a production, RT or IPR session | `work` is the stack of calls of the recursion, one step a call; `opCache`, `geoCache` are its caches, `items` the instancer items, `ctx` the context stack, `modes` the export mode and `doExportGeometry`; `Rt...Changed`, `IprUpdate`, `DeleteObject` are the handlers. A plugin's name is its kind, a set of IDs and an object. A detail is a geometry or a fragment of one, which has primitives of its own but the ID and the points (`gdp`) of the geometry |
| `ShaderExport` | shaders, materials, textures, and their callbacks | `link` is the network, `shaderCache` and `matCache` the two caches, `delayed` the items that wait, `plugins` what the renderer has; `Export` follows a connection and exports what it leads to, `RtCallbackVop`, `RtCallbackSurfaceShop`, `ObjectChanged` are the handlers |
| `ViewExport` | the view | `want` is what the user set, `ViewParams` what `fillViewParams` makes of it, `last` what was exported last, `view`, `camera`, `size`, `region`, `light` what the renderer has; `ResetView`, `UpdatePhysCam`, `UpdateRenderView` are the branches of `exportView` |
| `MeshExport` | the mesh exporter and the caches around it | `GetFaces`, `GetEdgeVisibility`, `GetNormals`, `GetMapChannels`, `GetMaterial` compute what the functions of these names do; `ExportPolyMesh` is the call with its four caches |
| `MaterialOverride` | materials and overrides of primitives | `AppendMaterialOverrides`, `AddAttributes` build what a level has from its sources, `PushContext`, `PopContext`, `GetPrimMaterial` are the stack |
| `PreviewCache` | packed primitives that show a file, their caches | `Update`, `Copy`, `FileChanges`; `Key`, `GetDetail`, `Store` are the proxies' and scenes' ways to a detail |
| `ProxyExport` | the proxy command, the proxy ROP and the exporter they share | `Vrayproxy`, `StartRender`, `RenderFrame`; `DoExport` is the exporter with its frame loop |
| `OslNode` | the OSL nodes | `Updated` is `updateParamsIfNeeded`, which `Ask` stands for every query of a socket; `StartExport`, `ExportParam`, `EndExport` are `asPluginDesc` with queries between them |
| `MeshSets` | MtlVRayMesh | `OrderedInputs`, `ParmChanged`, `Reload`, `Save`, `Load` |
| `LayerNodes` | MtlMulti, TexMulti, TexLayeredMax, BRDFLayered over the sockets of `vop_node_base` | socket names and indices, the lists that `asPluginDesc` makes |
| `Tools` | the nine modules from `ShaderExport` on, without `ObjectExport`, as one specification | see below |
| `...Proofs` | theorems about the module of that name (`ImdisplayProofs` about `ImdisplaySystem`; `SceneProofs` about `FrameExport` and the nodes `MeshSets`, `LayerNodes`, `OslNode`; `ObjectProofs` about `ObjectExport`; `CloudLogProofs` about `CloudUpload` and `LogThread`; `ExportProofs` about the exporters `ShaderExport`, `ViewExport`, `MaterialOverride`, `PreviewCache`, `ProxyExport` and about `VRayInstances`; `MeshProofs` about `MeshExport`) | section 4 |
| `MC...` | instances for TLC | `MCFrame` defines the motion blur settings, `MCObjects` the scene, `MCNetwork` the shader network, `MCShading` the small one of shading_rewire, `MCTools` the inputs of the systems of `Tools` |

Definitions whose comment starts with "Mutant" are variants with a bug a
programmer could make; no specification uses them. `PROJECT.json` says which
property each of them must break.

`Tools` composes the exporters and nodes that keep their state to themselves: the
variable `which` names the system of a behaviour, and the variables of the others
keep the value "off". One run and one assumption then serve all of them, and each
property and theorem is about one of them, whatever `which` is. `TypeOK` of each
module is an invariant that the theorems prove, or that documents the variables;
the runs check the deeper properties.

What is external and modelled only from its use: `QThread` (`start()` of a
running thread does nothing, `start()` of one that is emitting `finished()`
waits, `wait()`), `QProcess` (kills its process when it is destroyed, emits
`errorOccurred` before `finished`), the TIL device and the viewer, the cloud
client, the AppSDK renderer (`clearAllPropertyValuesUpToTime` removes values at
times less than its argument, as `vfh_plugin_exporter.h:208` says; a plugin that
is exported again keeps the attributes the new description does not mention),
Houdini (the ROP driver, events of nodes, style sheets, multiparms) and the user.

Data is abstracted to what the properties distinguish: pixels, transforms,
attribute values and texts are absent, or known by where they come from: a value
of a mesh by its vertex, of a shader by the version of the node, of an override by
its source; a scene file by the session or the key frames it holds. Time in
`FrameExport` is counted in ticks, so floating point rounding is outside the model:
that the sum of increments may step over the end of the interval, and lose the last
subframe, is not seen.
Data races are kept where the code has them (the log queue's `isEmpty`,
`vfhIsRopValid`'s unguarded pointer) as a choice over what the reader may see.

## 3. What the runs check

Passing runs (invariants and temporal properties):

- **imdisplay** (`MCImdisplay.cfg`) - `OwnedOnce`: a message is deleted exactly
  once, and not while the worker holds it. `NoStaleTiles`: the tiles being written
  were queued after the header of the open device and before any waiting header.
  `ImplementsMailbox`: the queue refines `TileMailbox`. `DestructorReturns`.
- **ipr** (`MCIpr.cfg`) - `GuardedUse`: while the UI thread restarts the writer it
  holds the mutex and the exporter is there. `FirstSlotFreesItsSession`: freed only
  after `run()`, and the first slot frees the session that was current at
  `finished()`. `CallsReturn`, `SessionFreed`: calls return and ended sessions are
  freed, save in the wait cycle that `ipr_restart` exhibits.
- **instances** (`MCVRayInstances.cfg`) - `NoDanglingSlot`: the shared table never
  names a deleted renderer.
- **cloud** (`MCCloud.cfg`) - `NoOrphanClient`, `NeverAnOlderScene`,
  `NothingStartsAfterClose`.
- **log** (`MCLog.cfg`) - `ThreadKeepsOrder`, `LoggedIsPrinted`, `CallsReturn`.
- **frame** (`MCFrame.cfg`) - `RenderedWithKeys`: a frame is rendered at its own
  time with a key frame at each of its time points. `FilesComplete`: so is every
  frame of a written file, also when the session was aborted. `FrameReturns`:
  `exportFrame` returns, save in an interval of no duration, where nothing but an
  abort ends its loop, and nothing can abort the first frame.
- **rt** (`MCRt.cfg`) - `NoStrayInterest`: between sessions no node calls the
  exporter. `SceneIsFollowed`: an RT session follows the objects of its scene, the
  camera and the ROP. Both assume that the UI thread did not use the exporter
  during `exportEnd()` on V-Ray's thread (`raced`): the code has no lock that would
  keep it away, and the model lets such a use crash or leave interests behind.
- **scene** (`MCObjects.cfg`) - over one scene in every kind of session with edits
  and deletions: `InstancerComplete`, the instancer of an object shows each of its
  instances and geometries once per occurrence, however exports nest. A fragment counts
  as a showing of its geometry's mesh, because the code gives all fragments of one
  geometry the mesh of the first; an object that mixes kinds may show less after a cached
  or updated export, and how often it shows particles is left open where it also packs
  geometry (section 6). `CurrentInIpr`, an update of an IPR session finds nothing old in the caches;
  `LightPerInstance`, the XOR of IDs keeps the names of instances of a light apart;
  `VolumesTracked`, `MaskedObjectsLinked`, `ExportReturns`.
- **tools** (`MCTools.cfg`) - `LinksAreGraphs`: what the plugin of a node has for each
  of its sockets, and the user texture of a parameter, is the network there is, after any
  edits of nodes with plugins. Edits of the others (links of a subnet or inside it, the
  parameters of a builder, a transform) notify nobody or are only logged, so a socket
  whose route has had one since its node was exported is the exception the formula
  states (`DecidedBy`, `unseen`). `NodesAreWatched`, `SkyHasItsSun`: exported nodes have
  their callbacks, deleted ones none, and a sky that no longer waits has its sun.
  `ViewIsCurrent`:
  after any changes between two exports the render view, the physical camera, the
  settings and the size are those of the camera and the ROP; the parts that
  `exportView` updates only with the whole view are those of its last reset or an
  update since, and a region that was set is never taken back. `DetailIsOwn`, `EqualsAreInstances`: cached previews are what each
  primitive asked for, and shared by those that ask for the same.
  `HighestSourceWins`, `ContextIsCurrent`: the material is that of the highest source
  that names one there is (a primitive's style that names a missing one sets its
  object's aside), a parameter is overridden by its highest source, and the joined context is that of the levels there are.
  `MeshIsDetail`, `FacesAreOfPrims`: corners, edges, normals, channels, overrides and
  materials of a mesh are those of the polygons of the detail, stated over the polygons
  and not over indices; the materials are those of the context in which their list was
  made, which a cache may keep for another. Of a soup exported apart the polygons and
  edges are its own, its normals if they are of vertices and only soups come before it,
  and its material is the context's or the object's. `ProxyIsWhole`, `SeenIsExported`, `SavedIsKept`, `LayersAreOwn`.

Runs that end in a violation, each a disagreement between the code and what the
repository says of it (details under `findings`):

- **ipr_restart**: `restart()` is called with `exporterMtx` held, and the thread it
  may wait for frees the exporter under that mutex: both wait for ever.
- **scene_rt**: the callback of a SOP clears the caches of primitives but not that
  of the object, so the geometry that changed is not exported.
- **shading_rewire**: the callback of a material whose input is rewired finds the
  finished material in its cache and exports nothing.

### Bounds

Every bound is a constant that a guard names. The point of each choice is that
the interesting case happens inside it:

| Run | Bounds | Why they suffice |
|---|---|---|
| imdisplay | 2 buckets, 4 messages, 2 restarts | a header, tiles of two headers and a progress message can be in the queue at once and be coalesced; a restart can meet every step of `run()` |
| ipr | 3 messages, 3 SOHO calls, 1 bucket | generate, update, generate again covers an exporter that is freed and allocated anew with two connections |
| instances | 2 modules, 3 addresses of renderers, a table of 2 | the table fills up while both modules are loaded |
| cloud | 3 sessions | one uploads, one is dropped, one follows the deletion of the window |
| log | 2 producers, 3 messages, 2 starts | two messages of one thread around a start and a stop |
| frame | 3 frames, 2 sessions, four blur settings, start at 0 and 4 | touching, overlapping, late and empty intervals, a clamp at frame 0, and a second session over the same times |
| rt | 3 sessions, a geometry, a light, a shader, 2 takes | an RT session, a production session on top of it and a session after both; every kind of node can be deleted in each |
| scene | 7 objects, a light, 9 details, 2 edits | every kind of primitive; two fragments of one geometry with different primitives; an instancer of instancers that meets a tree, a lamp and an object without a render SOP by two paths; particles with polygons, without, and with a packed primitive at offset 0 that has the same ID; an edit that follows another's update; light masks. No two objects have the same render SOP |
| tools: shading | 18 nodes, 5 materials, 2 edits | a shared BRDF and texture, a subnet that is rewired at its input and inside, a builder with parameters of a colour, a number and a path, a transform, a switch, a conversion; a texture that is unlinked and then deleted; an edit that nothing is exported for and one that exports past it |
| tools: view | 4 kinds of session, 3 changes of 13 parameters | two changes between two exports, and one after |
| tools: previews | 2 primitives, 3 files of 2 versions, 6 options, 4 steps | two primitives with the same key around a change of their file |
| tools: overrides | every combination of 4 styles, 3 paths and 2 sets of attributes as a level, 2 levels, 2 reads | each pair of sources meets, in one level and in two |
| tools: meshes | 4 details, 5 contexts, 3 exports | soups and polygons in one detail, also apart, with normals of points, of vertices and without; a polygon of 13 vertices, whose 11 triangles need two words of edge bits; all contexts after each other |
| tools: proxies | 5 commands, 2 nodes, 2 calls, one node that fails at any frame | a range forwards and backwards, one file and several, an ROP that exports the range at each of its frames |
| tools: OSL | 3 codes, 5 edits | a code, items, another code with some of the names, a broken one and back |
| tools: shader sets | 2 SOPs, files of 0 to 2 sets, 4 edits | save, change of the file and the path, load |
| tools: layers | 4 kinds, 2 layers, 4 edits | a layer without a link, with one that fails, with a linked weight |

The addresses of renderers in `instances` are symmetric: the registry compares
them for equality only, and the run checks invariants. No other run uses symmetry.
`CHECK_DEADLOCK FALSE` stands where the system may really stop: all bounded calls
are used up, or (in `IprSession` and `RtSession`) a modelled crash ended the
process. Wait cycles are found by properties, not by TLC's deadlock check.

### Fairness

Weak fairness is given to steps a running thread takes by itself: the worker, the
log thread, a call that has begun, `exportFrame()`'s loop, the end of a render, and
the recursion of the object exporter (`ExportStep`). `FreeExporter` has strong
fairness: it waits for a mutex that is free again and again, and `QMutex` does not
starve a waiter for ever. Nothing makes users, Houdini, the renderer or the cloud
client act. The other modules have no fairness and only safety properties: what
they model is a sequence of calls that each return, or a client and a user who may
take for ever.

## 4. What is proved

TLAPS checks, for every value of the constants that satisfies the stated
assumptions. `TypeCorrect` of six modules is `Spec => []TypeOK`; the properties
that no run checks any more because a theorem states them are marked (*).

- **ImdisplayProofs** - `Coalesced` (*) (at most one message of a type waits, none
  before a header); `MessagesOwnedOnce` for `OwnedOnce`;
  `TilesFollowHeader` for `NoStaleTiles`; `QueueImplementsMailbox` for
  `ImplementsMailbox`, the whole refinement (`TileMailbox` states no fairness). The
  argument: message numbers grow, so the queue is ordered by
  number (`add` appends the newest), and a header empties it; hence whatever the
  worker takes is older than what waits. `OwnedOnce` needs that the numbers in the
  queue, held by the worker and freed are disjoint and below the next number.
- **ExportProofs**, registry - `TableIsSafe` for `NoDanglingSlot`;
  `HeldRenderersLive` (*): nobody's delete takes a renderer another holds;
  `RenderersNeedInit` (*); `LastUnloadCleansUp` (*). The strengthening
  adds that a live renderer has one owner and that a client that finished
  `newVRayInit` implies `VRayInit`.
- **SceneProofs**, frames - `FramesAreKeyed` for `RenderedWithKeys`; `FilesHoldKeys`
  for `FilesComplete`; `FrameFilesStayLean` (*): a file for one frame holds nothing
  older than the frame's interval. The invariant `KeyInv` says that
  `m_exportedFrames` never names a time point without key frames (both are cut at
  the same `mb_start`), that the loop has exported the time points it passed, and
  that key frames of finished frames stay when one file is written at the end;
  `LeanInv` says that where files are written per frame nothing older than the
  frame's interval survives its start. The assumption `SettingsAssumption` is that
  ticks are fine enough: the increment divides the duration.
- **IprSessionProofs** - `ScopesAreGuarded` for `GuardedUse`;
  `ScopesFindTheirExporter` (*): no scope of `vfhInit` finds an exporter that is half
  initialised; `FirstSlotFreesItsOwn` for `FirstSlotFreesItsSession`, an action
  property. The exporter has two owners, and
  the invariant says how they alternate: the mutex is held exactly in the scopes
  that restart the writer, a running worker has an exporter (it is started in such
  a scope, and only the end of a worker frees one), and until the first slot of a
  `finished()` is called the exporter is the one of the emission. The lemmas about
  the thread's steps are separate from those about the session's.
- **RtSessionProofs** - `NoInterestLeft` for `NoStrayInterest`; `LiveSceneFollowed`
  for `SceneIsFollowed`; `UsersTakeReturns` (*): the saved take is the user's, and
  is restored; `DeletedAreForgotten` (*): no entry of a deleted object. The
  invariant has four parts: which session is in which phase (a new session stops
  the render, so no old one ends while it exports), every interest is listed,
  the saved take is the user's, and in an RT session whatever is listed or in the
  scene of an object is followed by that object's own callback, the only one that
  forgets it.
- **CloudLogProofs**, cloud - `ClientsHaveWindows` for `NoOrphanClient`;
  `ScenesAreNotOlder` for `NeverAnOlderScene`; `CloseIsFinal` for
  `NothingStartsAfterClose`, an action property; `ProjectsComeFirst` (*): a job is
  submitted after its project was created; `ScenesAreRemoved` (*): no scene file
  outlives the session and its window. The invariant has three parts: the queue is
  what is left of create and submit after the running command (`QueueInv`), a
  close is accepted only of a window, with an empty queue (`CloseInv`), and the
  file, where there is one, is of the session the window or the UI thread is busy
  with, or of a later one (`SceneInv`).
- **CloudLogProofs**, log - `PrintedInOrder` for `ThreadKeepsOrder`: what is printed,
  taken and queued is one line, and a producer's message in hand is newer than all
  of its own in that line. The sequences are unbounded.
- **SceneProofs**, nodes - `LoadedAsSaved` for `SavedIsKept`: a loaded node that had
  sets waits for no rebuild, and only a user's reload or another path makes it wait.
  `LayersAreTheirOwn` for `LayersAreOwn`: the names of sockets, made of a prefix and a
  number, are found again (`NamesFind`, `SocketOfLayer`), and the loop of
  `asPluginDesc` puts each layer that works into the lists once (`LayersAreEntries`).
  `OslShowsSeen` for `SeenIsExported`: parameters and inputs are those of the
  declarations read so far (`ParsedIs`), the hash is that of the code they come from
  (`HashHolds`), and the description being written is that of the parameters before
  the next one (`ExportHolds`).
- **ExportProofs**, exporters that stand alone -
  `DetailsAreOwn` for `DetailIsOwn` and `EqualDetails` for `EqualsAreInstances`: two
  keys are equal only for the same file, object and level less than a thousandth of
  a frame apart (`KeysTellApart`), and each cached detail is one its key asks for.
  `ViewsAreCurrent` for `ViewIsCurrent`: what was exported last is what the renderer
  shows (`Shows`, `Sized`, `CropShown`), in every branch of `exportView`, and what a
  branch leaves alone is of an export since the last reset (the history `since`).
  `HighestSourcesWin` for `HighestSourceWins`, source by source in the order in which
  they are applied, the material (`LevelNode`) as well as the overrides (`LevelOver`); `ContextsAreCurrent` for `ContextIsCurrent`, the joined context as
  a fold over a stack of any depth.
  `ProxiesAreWhole` for `ProxyIsWhole`: each frame of the range is in one file, or the
  failing node is the only one that lacks.
- **ObjectProofs** - `VolumesAreTracked` for `VolumesTracked`, for any scene: every call
  on the stack is for an object of the scene (`GoodCalls`), and a volume is put into
  the renderer and its object's list in one step. `IprIsCurrent` for `ShapesCurrent`,
  which is `CurrentInIpr` without particles, for any scene, nesting and edits: a mesh or
  hair is found in the cache by the ID of its geometry, particles by an ID of the
  context that packed geometry may share, so what they show depends on the order of
  primitives and stays with TLC. Its invariant `IprInv` has six parts. `CallsInv`
  lays the stack of calls beside the context stack (`Stack`): each call was made at a
  level of the context, inside the detail of the call below it. `ModesInv` ties the export mode and `doExportGeometry` to the calls that
  set them and says what the caches can hold meanwhile. `SourceInv` and `FreshInv`
  say that a mesh or hair was exported for the geometry whose ID it has (`NameFor`), and
  one in a cache since the last edit; `ItemInv` that an object's items are of its details. `ShowsInv` is
  the property itself during an export: what is shown of an object is fresh, or an
  event of it is pending, or a call that will make a mesh or hair anew is still on the
  stack (`Due`), and with it the object's items. `MaskedAreLinked` for `MaskedObjectsLinked`, for any scene, up to the first
  edit (`FirstInv`). Its invariant `LinkInv` follows the objects no instancer leads to
  (`Outer`): their calls are on the stack once and follow one another, and no call of
  a cached object or of a point comes after them (`OuterInv`), so their export is a
  full one and stores the wrappers under the object itself. By the time the call that
  caches the object is over, the lists of the lights in its mask hold those wrappers
  (`MaskInv`); the lists only grow, and the linker has them as they are at the end
  (`LinkerInv`).
- **MeshProofs** - `MeshesAreDetails` for `MeshIsDetail` and `FacesHaveTheirOwn` for
  `FacesAreOfPrims`, for any details and contexts. A mesh is made of flattened sequences,
  which `IsOffsets` and `Flattened` take apart: an element of a flattening is one of the
  sequence whose offset is before it (`Covered`). So a corner is one of a triangle of a
  polygon (`CornersAre`), and an edge of a face is visible exactly if its ends are
  neighbours in that polygon (`EdgesAre`; its vertices are distinct). A channel has the
  values of its corners (`AttrChannelIs`), a welded one where every primitive has one
  polygon at most (`WeldedAre`), and the geometry of a soup alone is a span of the points
  (`SoupIs`). As vertices are counted in order, the vertices of a soup before which there
  are only soups follow those of the others (`VerticesFollow`), so its part of the list of
  normals of vertices is its own (`SoupNormalsAre`). For `FacesHaveTheirOwn`, a value per primitive repeated for its faces is the
  value of each face's primitive (`FacesOf`), and the list of materials has each of them
  at its rank (`ListedOf`). `MeshInv` says that every cache holds what was made of the
  detail it is asked for.
- **ExportProofs**, shaders - `NodesWatched` for `NodesAreWatched` and `SkiesSeeSuns` for
  `SkyHasItsSun`. `NetworkInv` says that existing nodes lead only to existing ones, so
  an export meets no deleted node, through subnets, builders, conversions and
  parameters (`Sound...`); whatever an export makes is the plugin of a node it met,
  and watches, or a wrapper with a longer name (`ExportGrows`); deleted nodes are
  watched only until their event (`WatchInv`); and a sky waits as a delayed item
  unless the sun is set (`SkyInv`).

Induction. The library's induction theorems take operators the provers can not
instantiate, but the existence of a least element of a set of numbers is first
order (`WFMin`, `LeastNumber`). `Induction` states the principle for a set of
numbers, and every loop, fold or recursive function above is shown to exist, and to
be what is claimed, by putting the statement into such a set. tlapm reads
`UNION A \cup B` otherwise than TLC does; the modules put such a `UNION` last.

Assumptions on constants, which TLC evaluates for the instances (`Assumptions` in
`Tools`), and why they hold of the program:

| Assumption | Says | Because |
|---|---|---|
| `SettingsAssumption` | the increment divides the duration | ticks can be made fine enough |
| `SceneAssumption` | the bundle is a list without duplicates, lights are finitely many and no geometry, light masks name lights of the scene; the primitives and points of a detail are lists; packed primitives name details there are, as does the root of an object that has one; fragments of one geometry have its points and particles | a bundle holds a node once; an `OBJ_Node` has one type; masks are resolved to the lights there are; `GU_Detail`; a `GU_PackedFragment` is a range of primitives of a detail |
| `NodesAssumption` | geometry, lights, shaders, camera and ROP differ | an `OP_Node` has one type |
| `NetworkAssumption` | finitely many nodes; links, before and after a rewiring, are of inputs that exist and lead to a node; builders and material outputs have the input they export, null and switch nodes theirs, a parameter its creator | inputs of an `OP_Node` |
| `SessionAssumption` | the kinds of session there are | `VfhSessionType` |
| `OptionsAssumption` | options name a file there is, or was, and a frame | a missing file is version 0 of a file; frames are counted in ten thousandths |
| `LevelsAssumption` | a level has the five sources and channels | the five calls of `appendMaterialOverrides` |
| `DetailsAssumption` | the primitives and points of a detail are lists, points are numbers; a polygon that is no soup is one; vertices are counted in order; an attribute of vertices has a value for each | `GU_Detail` |
| `CommandsAssumption` | a command's frames are integers; the range of the ROP goes forwards | Houdini renders a ROP from its first frame to its last |
| `CodesAssumption` | declarations of a code have different names that are not blank | the OSL compiler rejects others |
| `FilesAssumption` | shader sets of a file have different names | `tokenToIndex` has one index for a name |
| `LayerAssumption` | the sockets of a plugin description have different names | they are keys of the description |

Only model-checked:

- all liveness properties (`DestructorReturns`, `CallsReturn`, `SessionFreed`,
  `LoggedIsPrinted`, `FrameReturns`, `ExportReturns`), which are beyond the prover;
- `LinksAreGraphs`: it compares what a plugin had been given with what a recursion over
  the changed network gives now, and its proof needs that recursion to depend on nothing
  but the route of a socket (`DecidedBy`);
- the particles of `CurrentInIpr`;
- `InstancerComplete`, `LightPerInstance`: they count the results of a recursion over
  the scene, which needs a scene without cycles and the injectivity of the XOR of IDs
  along its paths.

## 5. What is not modelled

Parsing of parameter and plugin descriptions, hashing, GPU selection and error
texts, file translators, dialogs and scripts: data conversion or I/O without state
that outlives a call. The LRU cache is compiled out. Settings plugins other than
the view's, render channels, the VFB's state, distributed rendering, image
contents, hair and volume attributes, the values of transforms and attributes, and
Houdini's undo are out of scope, and so is floating point: the physical camera's
exposure and lens are opaque values. `RtSession` leaves out events that arrive
inside an export or another event (the code drops them), and the creation of nodes,
whose handlers are compiled out. `ObjectExport` delivers one event before the next
edit. Components and reasons are in `PROJECT.json`.

## 6. Behaviour worth knowing

Met while modelling and part of the models, though no run is spent on it:

- IPR: `writeTile()` takes a device that is not open yet for a viewer that was
  closed (`vfh_ipr_imdisplay_viewer.cpp:287`): a tile dequeued before the first
  header stops the session. A `restart()` that meets the end of `run()` starts
  nothing. Objects deleted during an IPR session are never reported
  (`vfh_ipr.py:200`).
- Cloud: every session writes the same file (`vfh_vray_cloud.cpp:136`), so a second
  session replaces the scene a running upload has still to read. `NeverAnOlderScene`
  is what remains true. The client's exit code is not looked at.
- Frames: with `mb_duration` 0, which the dialog offers, the increment is 0 and the
  loop of `exportFrame()` does not end (`vfh_exporter.cpp:2182`): the second half of
  `FrameReturns`.
- Callbacks: `delOpCallback()` of a deleted shader or camera leaves its entry in the
  list, and `resetOpCallbacks()` asks the deleted node (`vfh_exporter.cpp:1330`).
- Objects: the fragments of one geometry all show the mesh and hair of the first that
  was exported, because these are cached by the ID of the whole geometry
  (`vfh_export_geom.cpp:1262-1321`, 1842); particles are cached by the ID of the context
  (1230-1250), which a packed primitive at offset 0 shares with the detail it is in, so
  that its object may show them twice or not at all; an object whose geometry mixes
  kinds loses the items that the mode of a cached or updated export leaves out
  (`InstancerComplete` exempts all three); the light
  mask of an object that an instancer exports first is not linked
  (`MaskedObjectsLinked` exempts it); the export
  mode is reset to full, not restored, by a nested cached object; an instancer that
  instances itself recurses without a guard.
- Shaders: a plugin keeps attributes that the new description does not mention; a
  material that failed once is cached as the default and never watched. An edit of a
  subnet, or inside it, is only logged (`vfh_export_vop.cpp:482-486`), and an edit of a
  builder's parameter or of a `makexform` node calls nobody, as neither is watched; a
  switch between two shaders is followed but not watched. The user texture made for a
  parameter that is no colour is linked to nothing (`vfh_export_material.cpp:165-215`).
- View: a change of the focal units puts a physical camera in place of a default one;
  a camera made orthographic keeps its `CameraDefault` and depth of field; the vertical
  offset of a physical camera is for the width of the image it was exported with;
  switching the doubling of a stereo image is not exported; a crop back to the full
  image keeps the region (`vfh_export_view.cpp:615-653`). `ViewIsCurrent` says so.
  An IPR never doubles the image of a stereo view (`vfh_ipr.cpp:224-229`).
- Previews: a proxy item of a missing file is cached for ever, and files that change
  are not noticed; frames closer than a thousandth share a detail.
- Overrides: the fourth channel of a colour is written past the vector of the override
  (`vfh_material_override.cpp:308`), into the padding before its string, and is lost. Of
  nested levels the outermost material wins but the innermost
  overrides.
- Meshes: the welding of a soup of several polygons reads the vertices of the first
  one (`vfh_export_mesh.cpp:1238`); a primitive without a material gets the first of
  the list. Of soups exported apart (`vfh_export_mesh.cpp:286-378`) normals of points are
  asked for by vertices, and every polygon before a soup moves its part of the list of
  normals by the whole attribute, past its end; a polygon asks a normal attribute that
  may not be there for its entries, and a soup without faces copies a negative number of
  points: both end the program (`ExportFails`). Such soups get neither the list of
  materials nor overrides. Readings: the points of a soup are counted once per vertex, an
  internal normal attribute of Houdini's is left out, and the list of edge bits of a soup
  starts with zeros.
- Proxies: an animation is written over an existing file without being asked to,
  because the check reads the time of the last frame
  (`vfh_export_vrayproxy.cpp:182`); errors of a node are not told to the caller; a
  backward range loses its frames; the ROP exports the whole range at every frame.
- Nodes: an OSL node that nobody asked exports new code with old parameters
  (`vop_node_osl.cpp:756`); removing items by a growing index leaves every other
  one; a rebuild of shader sets that is pending when the scene is saved is lost.

## 7. Plan

1. Done: the modules of section 2, with the theorems of section 4.
2. Next: `InstancerComplete` and `LightPerInstance` for scenes without cycles.
3. Events inside an export (`inSceneExport`, `csect`) in `RtSession`; settings and
   render channels as one more part of `Tools`.
