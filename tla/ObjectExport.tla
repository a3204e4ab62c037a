----------------------------- MODULE ObjectExport -----------------------------
(***************************************************************************)
(* The object exporter (vfh_export_geom): objects, the primitives of their *)
(* geometry, packed geometry inside geometry, point instancers and lights  *)
(* become V-Ray plugins.  The UI thread walks this tree by recursion; here *)
(* `work' is its stack of calls still to make, next first, so that every   *)
(* call is a step that finds the caches, the context stack, the collected  *)
(* instancer items and the export mode as the calls before it left them.   *)
(*                                                                         *)
(* A session exports the scene once and then follows the user's edits:     *)
(* through vfhExportOpNode() in an IPR session, through the callbacks of   *)
(* the nodes in an RT session.  One edit is delivered before the next.     *)
(*                                                                         *)
(* Materials, transforms and attributes of a plugin are abstracted; so are *)
(* displacement (one more plugin around the geometry) and a poly soup that *)
(* is partitioned by an attribute.                                         *)
(***************************************************************************)
EXTENDS Integers, Sequences, FiniteSets, SequencesExt

CONSTANTS
  Bundle,      \* geometry objects in the order of the active geometry bundle
  Lights,      \* light objects, exported after the geometry
  Root,        \* Root[o]: the detail of an object's render SOP, or None
  Contents,    \* Contents[d]: [gdp, prims, particles, points] of a detail, see Prim
  RenderPoints,\* RenderPoints[o]: "none", "unconnected" or "all" points as particles
  LightMask,   \* LightMask[o]: lights of an object's light mask, or {} for "*"
  None,        \* no plugin, no detail, and the null OBJ_Node
  MaxEdits     \* bound: edits in a session

Geometry == Range(Bundle)
Objects  == Geometry \cup Lights
Details  == DOMAIN Contents

\* A detail is a geometry, or a packed fragment of one: fragments have primitives of
\* their own, but the ID and the points of the geometry they are cut from.
SameGdp(d, e) == Contents[d].gdp = Contents[e].gdp

ASSUME SceneAssumption ==
  /\ Bundle \in Seq(Range(Bundle)) /\ IsInjective(Bundle)
  /\ IsFiniteSet(Lights) /\ Geometry \cap Lights = {}
  /\ \A o \in Geometry : LightMask[o] \subseteq Lights
  /\ None \notin Details /\ \A o \in Geometry : Root[o] \in Details \cup {None}
  /\ \A d \in Details :
       /\ Contents[d].prims \in Seq(Range(Contents[d].prims))
       /\ Contents[d].points \in Seq(Range(Contents[d].points))
       /\ \A p \in Range(Contents[d].prims) : p.kind = "packed" => p.inner \in Details
       /\ \A e \in Details : SameGdp(d, e) =>
            Contents[e].points = Contents[d].points /\ Contents[e].particles = Contents[d].particles

\* A primitive: its kind, the detail inside a packed one, and a file for a proxy.
Prim(kind, inner, file) == [kind |-> kind, inner |-> inner, file |-> file]

\* A plugin's name: most are made of a hash of IDs and the object's name.
Plugin(kind, key, o) == [kind |-> kind, key |-> key, obj |-> o]
NodeOf(o)      == Plugin("Node", {}, o)
InstancerOf(o) == Plugin("Instancer2", {}, o)
NoPlugin       == Plugin("none", {}, None)

\* A level of the context stack; an ID is a hash, taken apart from all others,
\* except that the offset 0 of a primitive leaves an XOR as it is.
Level(o, ids) == [obj |-> o, ids |-> ids]
PrimID(i)     == IF i = 1 THEN {} ELSE {<<"prim", None, i>>}
PointID(o, i) == {<<"point", o, i>>}
DetailID(d)   == {<<"detail", Contents[d].gdp, 0>>}
FileID(f)     == {<<"file", f, 0>>}

\* A call still to make.
Call(do, o, d, i) == [do |-> do, obj |-> o, detail |-> d, at |-> i, list |-> <<>>]

VARIABLES
  session,   \* "ipr" or "rt"
  phase,     \* "new", "scene" while the scene is exported, "live"
  alive,     \* objects that exist
  version,   \* version[d]: edits of a detail's geometry
  pending,   \* events not delivered: <<"geometry" | "material" | "parm", o>>
  edits,     \* bound counter
  work,      \* calls still to make
  ctx,       \* the primitive context stack
  items,     \* instancerItems: the geometry of each
  result,    \* the plugin the last call returned
  mode,      \* exportMode: "full" or "noninstancer"
  doGeometry,\* doExportGeometry
  plugins,   \* the renderer: name -> [items, source], the source a detail's edit
  opCache,   \* objects whose Node plugin is cached
  geoCache,  \* names of cached primitives and meshes, and entries of points
  generated, \* generated[o]: volumes of an object
  nodes,     \* OpCacheMan: Node wrappers and volumes of each object
  lightLists \* OpCacheMan: [lights, include] of each light

scene    == <<session, phase, alive, version, pending, edits>>
modes    == <<mode, doGeometry>>
caches   == <<opCache, geoCache, generated, nodes, lightLists>>
vars == <<scene, work, ctx, items, result, modes, plugins, caches>>

NoLists == [l \in Lights |-> [lights |-> {}, include |-> {}]]
NoNodes == [o \in Objects \cup {None} |-> {}]
NoGenerated == [o \in Objects |-> {}]

Init ==
  /\ session \in {"ipr", "rt"} /\ phase = "new" /\ alive = Objects
  /\ version = [d \in Details |-> 0] /\ pending = {} /\ edits = 0
  /\ work = <<>> /\ ctx = <<>> /\ items = <<>> /\ result = NoPlugin
  /\ mode = "full" /\ doGeometry = TRUE
  /\ plugins = <<>> /\ opCache = {} /\ geoCache = {}
  /\ generated = NoGenerated /\ nodes = NoNodes /\ lightLists = NoLists

-----------------------------------------------------------------------------
(* The renderer's plugins and the caches. *)

\* exportPlugin(): a plugin of this name is created or gets the new values.
Put(table, name, value) ==
  [n \in DOMAIN table \cup {name} |-> IF n = name THEN value ELSE table[n]]
Of(itemList) == [items |-> itemList, source |-> <<>>]
From(d) == [items |-> <<>>, source |-> <<d, version[d]>>]

Drop(table, names) == [n \in DOMAIN table \ names |-> table[n]]

Xor(a, b) == (a \ b) \cup (b \ a)

\* Mutant: the ID of the last level only.
LastContextID(stack) == IF stack = <<>> THEN {} ELSE Last(stack).ids

\* getDetailID(): the IDs of all levels, combined.
ContextID(stack) ==
  LET id[n \in 0 .. Len(stack)] == IF n = 0 THEN {} ELSE Xor(id[n - 1], stack[n].ids)
  IN id[Len(stack)]

\* getGenerator(): the object of the outermost level, which is null when that
\* level was pushed by exportGeometry().
Generator(o) == IF ctx = <<>> THEN o ELSE Head(ctx).obj

\* A cached primitive or mesh is found by its key, whatever object named it.
CachedAs(kind, key) == {n \in geoCache : n.kind = kind /\ n.key = key}

\* The particles of a context are cached too, by its ID, also when there are none
\* (o = None); the plugin itself has its name from the object alone.
PointsEntry(id, o) == Plugin("points", id, o)
ParticlesOf(o)     == Plugin("GeomParticleSystem", {}, o)

\* Mutant: the list of generated plugins goes with the primitive caches.
ClearPrimsAndGenerated(o) ==
  /\ geoCache' = {} /\ nodes' = NoNodes /\ lightLists' = NoLists
  /\ generated' = NoGenerated
  /\ plugins' = plugins

\* Mutant: the caches of primitives and meshes stay.
KeepPrims(o) ==
  /\ geoCache' = geoCache /\ nodes' = NoNodes /\ lightLists' = NoLists
  /\ generated' = IF o \in Objects THEN [generated EXCEPT ![o] = {}] ELSE generated
  /\ plugins' = IF o \in Objects THEN Drop(plugins, generated[o]) ELSE plugins

\* clearPrimPluginCache(), which clears OpCacheMan too; removeGenerated(o).
ClearPrims(o) ==
  /\ geoCache' = {} /\ nodes' = NoNodes /\ lightLists' = NoLists
  /\ generated' = IF o \in Objects THEN [generated EXCEPT ![o] = {}] ELSE generated
  /\ plugins' = IF o \in Objects THEN Drop(plugins, generated[o]) ELSE plugins

-----------------------------------------------------------------------------
(* The calls of an export. *)

Calls(do) == work # <<>> /\ Head(work).do = do
Caller == Head(work)
Goto(calls) == work' = calls \o Tail(work)

\* exportObject() of a light: a plugin for each instance, never cached.
ExportLight ==
  /\ Calls("object") /\ Caller.obj \in Lights
  /\ LET name == Plugin("Light", ContextID(ctx), Caller.obj)
     IN /\ plugins' = Put(plugins, name, Of(<<>>))
        /\ lightLists' = [lightLists EXCEPT ![Caller.obj].lights = @ \cup {name}]
        /\ result' = name
  /\ Goto(<<>>)
  /\ UNCHANGED <<scene, ctx, items, modes, opCache, geoCache, generated, nodes>>

NodeCalls(o) == <<Call("geometry", o, Root[o], 0), Call("instancer", o, None, 0),
                  Call("node", o, None, 0)>>

\* exportObject() of an object without a render SOP is an error.
ExportNothing ==
  /\ Calls("object") /\ Caller.obj \in Geometry /\ Root[Caller.obj] = None
  /\ result' = NoPlugin
  /\ Goto(<<>>)
  /\ UNCHANGED <<scene, ctx, items, modes, plugins, caches>>

\* exportObject() of an object in the cache: only what is not an instancer's
\* item is exported again.
ExportCached ==
  /\ Calls("object") /\ Caller.obj \in opCache /\ Root[Caller.obj] # None
  /\ mode' = "noninstancer"
  /\ Goto(Append(NodeCalls(Caller.obj), Call("full", Caller.obj, None, 0)))
  /\ UNCHANGED <<scene, ctx, items, result, doGeometry, plugins, caches>>

ExportNew ==
  /\ Calls("object") /\ Caller.obj \in Geometry \ opCache /\ Root[Caller.obj] # None
  /\ Goto(Append(NodeCalls(Caller.obj), Call("cache", Caller.obj, None, 0)))
  /\ UNCHANGED <<scene, ctx, items, result, modes, plugins, caches>>

\* The end of exportObject() for a cached object: the mode is not restored but
\* set, also inside the pass over an outer cached object.
ModeFull ==
  /\ Calls("full")
  /\ mode' = "full" /\ result' = NodeOf(Caller.obj)
  /\ Goto(<<>>)
  /\ UNCHANGED <<scene, ctx, items, doGeometry, plugins, caches>>

\* Mutant: the lists are looked up before the object is stored.
LinkCached(o) ==
  lightLists' = [l \in Lights |->
    IF l \in LightMask[o] /\ o \in opCache
      THEN [lightLists[l] EXCEPT !.include = @ \cup nodes[o]] ELSE lightLists[l]]

\* appendToLightIlluminationLists(): what OpCacheMan holds for the object, which
\* is nothing if its nodes were stored for another generator.
LinkLights(o) ==
  lightLists' = [l \in Lights |->
    IF l \in LightMask[o] /\ nodes[o] # {}
      THEN [lightLists[l] EXCEPT !.include = @ \cup nodes[o]] ELSE lightLists[l]]

\* The end of exportObject() for another object.
CacheNode ==
  /\ Calls("cache")
  /\ IF result # NoPlugin
       THEN opCache' = opCache \cup {Caller.obj} /\ LinkLights(Caller.obj)
       ELSE UNCHANGED <<opCache, lightLists>>
  /\ Goto(<<>>)
  /\ UNCHANGED <<scene, ctx, items, result, modes, plugins, geoCache, generated, nodes>>

\* exportGeometry(): a level with no object; its geometry is points to instance
\* objects at, or a detail.
ExportGeometry ==
  /\ Calls("geometry")
  /\ LET d == Caller.detail
     IN /\ ctx' = Append(ctx, Level(None, DetailID(d)))
        /\ Goto(<<IF Contents[d].points # <<>> THEN Call("point", Caller.obj, d, 1)
                                               ELSE Call("detail", Caller.obj, d, 0),
                  Call("pop", Caller.obj, d, 0)>>)
  /\ UNCHANGED <<scene, items, result, modes, plugins, caches>>

Pop ==
  /\ Calls("pop")
  /\ ctx' = Front(ctx)
  /\ Goto(<<>>)
  /\ UNCHANGED <<scene, items, result, modes, plugins, caches>>

\* Mutant: a point that leads to no object is tried again.
PointStays ==
  /\ Calls("point")
  /\ LET points == Contents[Caller.detail].points
         o == points[Caller.at]
     IN IF Caller.at > Len(points)
          THEN items' = items \o Caller.list /\ Goto(<<>>) /\ UNCHANGED ctx
          ELSE /\ UNCHANGED items
               /\ IF o \notin alive
                    THEN Goto(<<Caller>>) /\ UNCHANGED ctx
                    ELSE /\ ctx' = Append(ctx, Level(IF o \in Lights THEN Caller.obj ELSE o,
                                                     PointID(Caller.obj, Caller.at)))
                         /\ Goto(<<Call("object", o, None, 0),
                                   [Caller EXCEPT !.do = "pointend", !.at = @ + 1]>>)
  /\ UNCHANGED <<scene, result, modes, plugins, caches>>

\* exportPointInstancer(), one point: its object is exported under the point's
\* ID.  A path that leads to no object is skipped.  The items stay in a list of
\* the call until the last point, as exports of the objects use instancerItems.
ExportPoint ==
  /\ Calls("point")
  /\ LET points == Contents[Caller.detail].points
         i == Caller.at
         o == points[i]
         next == [Caller EXCEPT !.at = i + 1]
     IN IF i > Len(points)
          THEN items' = items \o Caller.list /\ Goto(<<>>) /\ UNCHANGED ctx
          ELSE /\ UNCHANGED items
               /\ IF o \notin alive
                    THEN Goto(<<next>>) /\ UNCHANGED ctx
                    ELSE /\ ctx' = Append(ctx, Level(IF o \in Lights THEN Caller.obj ELSE o,
                                                     PointID(Caller.obj, i)))
                         /\ Goto(<<Call("object", o, None, 0), [next EXCEPT !.do = "pointend"]>>)
  /\ UNCHANGED <<scene, result, modes, plugins, caches>>

\* After the export of a point's object: an item for its Node.
PointEnd ==
  /\ Calls("pointend")
  /\ LET o == Contents[Caller.detail].points[Caller.at - 1]
     IN Goto(<<[Caller EXCEPT !.do = "point",
                  !.list = IF o \in Geometry /\ result # NoPlugin THEN Append(@, result) ELSE @]>>)
  /\ ctx' = Front(ctx)
  /\ UNCHANGED <<scene, items, result, modes, plugins, caches>>

\* exportDetail(): the points that the object renders are one particle system, unless
\* the cache has what was, or was not, exported for the context's ID.
ExportParticles(d, o) ==
  LET found == CachedAs("points", ContextID(ctx))
      owner == IF RenderPoints[o] \in Contents[d].particles THEN o ELSE None
      entry == IF found # {} THEN found ELSE {PointsEntry(ContextID(ctx), owner)}
  IN IF RenderPoints[o] = "none"
       THEN UNCHANGED <<items, plugins, geoCache>>
       ELSE /\ geoCache' = geoCache \cup entry
            /\ plugins' = IF found = {} /\ owner # None
                            THEN Put(plugins, ParticlesOf(o), From(d)) ELSE plugins
            /\ items' = items \o SetToSeq({ParticlesOf(n.obj) : n \in {m \in entry : m.obj # None}})

ExportDetail ==
  /\ Calls("detail")
  /\ ExportParticles(Caller.detail, Caller.obj)
  /\ IF RenderPoints[Caller.obj] = "all" THEN Goto(<<>>) /\ UNCHANGED ctx
     ELSE /\ ctx' = Append(ctx, Level(Caller.obj, {}))
          /\ Goto(<<Call("prim", Caller.obj, Caller.detail, 1)>>)
  /\ UNCHANGED <<scene, result, modes, opCache, generated, nodes, lightLists>>

\* processPrimitives(), the first loop: primitive i of detail d.
ThisPrim == Contents[Caller.detail].prims[Caller.at]
NextPrim == [Caller EXCEPT !.at = @ + 1]
PrimIs(kinds) ==
  /\ Calls("prim") /\ Caller.at <= Len(Contents[Caller.detail].prims)
  /\ ThisPrim.kind \in kinds
PrimLevel == Level(Caller.obj, PrimID(Caller.at))

SkipMeshPrim ==
  /\ PrimIs({"mesh", "hair"})
  /\ Goto(<<NextPrim>>)
  /\ UNCHANGED <<scene, ctx, items, result, modes, plugins, caches>>

\* exportPrimVolume(): a plugin for each volume under each ID, in any mode.
ExportVolume ==
  /\ PrimIs({"volume"})
  /\ LET id == ContextID(Append(ctx, PrimLevel))
         name == Plugin("Volume", id \cup {<<"volume", None, Caller.at>>}, Caller.obj)
     IN /\ plugins' = Put(plugins, name, From(Caller.detail))
        /\ generated' = [generated EXCEPT ![Caller.obj] = @ \cup {name}]
        /\ nodes' = [nodes EXCEPT ![Caller.obj] = @ \cup {name}]
  /\ Goto(<<NextPrim>>)
  /\ UNCHANGED <<scene, ctx, items, result, modes, opCache, geoCache, lightLists>>

\* A sphere, and the packed primitives that are geometry plugins: those with a
\* key are looked up in the cache first; spheres export in any mode.
ExportPrim ==
  /\ PrimIs({"sphere", "proxy", "plane"})
  /\ LET kind == ThisPrim.kind
         name == Plugin(kind, IF kind = "proxy" THEN FileID(ThisPrim.file) ELSE {},
                        IF kind = "sphere" THEN Caller.obj ELSE None)
         found == IF kind = "plane" THEN {} ELSE CachedAs(name.kind, name.key)
         exports == kind = "sphere" \/ (doGeometry /\ mode = "full")
     IN IF found # {}
          THEN items' = items \o SetToSeq(found) /\ UNCHANGED <<plugins, geoCache>>
          ELSE IF exports
            THEN /\ plugins' = Put(plugins, name, Of(<<>>))
                 /\ geoCache' = IF kind = "plane" THEN geoCache ELSE geoCache \cup {name}
                 /\ items' = Append(items, name)
            ELSE UNCHANGED <<plugins, geoCache, items>>
  /\ Goto(<<NextPrim>>)
  /\ UNCHANGED <<scene, ctx, result, modes, opCache, generated, nodes, lightLists>>

\* exportVRaySceneRef(): a plugin for each instance of the primitive.
ExportVRayScene ==
  /\ PrimIs({"scene"})
  /\ LET id == ContextID(Append(ctx, PrimLevel))
         name == Plugin("VRayScene", id \cup {<<"scene", ThisPrim.file, Caller.at>>}, None)
     IN plugins' = IF doGeometry THEN Put(plugins, name, Of(<<>>)) ELSE plugins
  /\ Goto(<<NextPrim>>)
  /\ UNCHANGED <<scene, ctx, items, result, modes, caches>>

\* exportPackedGeometry(), exportPackedFragment(): the detail inside, or the fragment
\* of it, adds its own items, and no plugin is returned.
ExportPacked ==
  /\ PrimIs({"packed"})
  /\ IF doGeometry
       THEN /\ ctx' = Append(ctx, PrimLevel)
            /\ Goto(<<Call("detail", Caller.obj, ThisPrim.inner, 0),
                      Call("pop", Caller.obj, None, 0), NextPrim>>)
       ELSE UNCHANGED ctx /\ Goto(<<NextPrim>>)
  /\ UNCHANGED <<scene, items, result, modes, plugins, caches>>

KindsOf(d) == {p.kind : p \in Range(Contents[d].prims)}

\* The rest of processPrimitives(): polygons and curves become one mesh and one
\* hair plugin, only in full mode.  They are cached by the ID of the geometry, so
\* that of its fragments the first exported is found for all.
ExportMeshes ==
  /\ Calls("prim") /\ Caller.at > Len(Contents[Caller.detail].prims)
  /\ LET d == Caller.detail
         exported == IF mode = "full" /\ doGeometry THEN {"mesh", "hair"} \cap KindsOf(d) ELSE {}
         found == UNION {CachedAs(kind, DetailID(d)) : kind \in exported}
         new == {Plugin(kind, DetailID(d), Caller.obj) : kind \in exported \ {n.kind : n \in found}}
     IN /\ items' = items \o SetToSeq(found \cup new)
        /\ geoCache' = geoCache \cup new
        /\ plugins' = [n \in DOMAIN plugins \cup new |->
                         IF n \in new THEN From(d) ELSE plugins[n]]
  /\ ctx' = Front(ctx)
  /\ Goto(<<>>)
  /\ UNCHANGED <<scene, result, modes, opCache, generated, nodes, lightLists>>

\* Mutant: the items are not cleared.
InstancerKeepsItems ==
  /\ Calls("instancer")
  /\ result' = IF items = <<>> THEN NoPlugin ELSE InstancerOf(Caller.obj)
  /\ plugins' = IF items = <<>> THEN plugins
                ELSE Put(plugins, InstancerOf(Caller.obj), Of(items))
  /\ Goto(<<>>)
  /\ UNCHANGED <<scene, ctx, items, modes, caches>>

\* exportDetailInstancer(): all items become one Instancer2 of the object.  A raw
\* geometry is wrapped in a Node, once, which the generator's entry lists.
ExportInstancer ==
  /\ Calls("instancer")
  /\ LET raw == {g \in Range(items) : g.kind # "Node"}
         wrappers == {Plugin("Node", {g}, None) : g \in raw}
     IN IF items = <<>>
          THEN result' = NoPlugin /\ UNCHANGED <<items, plugins, nodes>>
          ELSE /\ result' = InstancerOf(Caller.obj)
               /\ items' = <<>>
               /\ nodes' = [nodes EXCEPT ![Generator(Caller.obj)] = @ \cup wrappers]
               /\ plugins' = Put([n \in DOMAIN plugins \cup wrappers |->
                                    IF n \in wrappers THEN Of(SetToSeq(n.key)) ELSE plugins[n]],
                                 InstancerOf(Caller.obj), Of(items))
  /\ Goto(<<>>)
  /\ UNCHANGED <<scene, ctx, modes, opCache, geoCache, generated, lightLists>>

\* The end of exportNode(): without new geometry the Node keeps what it has.
ExportNode ==
  /\ Calls("node")
  /\ LET node == NodeOf(Caller.obj)
         old == IF node \in DOMAIN plugins THEN plugins[node].items ELSE <<>>
     IN IF mode = "noninstancer"
          THEN result' = NoPlugin /\ UNCHANGED plugins
          ELSE /\ plugins' = Put(plugins, node, Of(IF result = NoPlugin THEN old ELSE <<result>>))
               /\ result' = node
  /\ Goto(<<>>)
  /\ UNCHANGED <<scene, ctx, items, modes, caches>>

-----------------------------------------------------------------------------
(* The scene, and the events after it. *)

Idle == work = <<>>
ObjectCalls(objs) == [i \in DOMAIN objs |-> Call("object", objs[i], None, 0)]

\* exportScene(): the geometry, the lights, and the light linker.
ExportScene ==
  /\ phase = "new" /\ phase' = "scene"
  /\ work' = Append(ObjectCalls(Bundle \o SetToSeq(Lights)), Call("linker", None, None, 0))
  /\ UNCHANGED <<session, alive, version, pending, edits, ctx, items, result, modes, plugins, caches>>

LightLinker == Plugin("SettingsLightLinker", {}, None)

\* exportLightLinker(): each light with the nodes its objects' masks include.
ExportLightLinker ==
  /\ Calls("linker")
  /\ phase' = "live"
  /\ plugins' = Put(plugins, LightLinker,
        Of(SetToSeq({lightLists[l] : l \in {k \in Lights : lightLists[k].include # {}}})))
  /\ Goto(<<>>)
  /\ UNCHANGED <<session, alive, version, pending, edits, ctx, items, result, modes, caches>>

\* The details of a detail: itself and those packed inside.
Within[d \in Details] ==
  {d} \cup UNION {Within[p.inner] : p \in {q \in Range(Contents[d].prims) : q.kind = "packed"}}
DetailsOf(o) == IF Root[o] = None THEN {} ELSE Within[Root[o]]

CanEdit == Idle /\ phase = "live" /\ edits < MaxEdits

\* The user changes a geometry, with all its fragments: every object that shows it or
\* one of them has an event.
EditGeometry(d) ==
  /\ CanEdit
  /\ version' = [e \in Details |-> IF SameGdp(d, e) THEN version[e] + 1 ELSE version[e]]
  /\ pending' = pending \cup ({"geometry"} \X {o \in alive \cap Geometry :
                                               \E e \in DetailsOf(o) : SameGdp(d, e)})
  /\ edits' = edits + 1
  /\ UNCHANGED <<session, phase, alive, work, ctx, items, result, modes, plugins, caches>>

\* The user changes a material or another parameter of an object.  In an RT session
\* an object that was not exported has no callback.
EditObject(o) ==
  /\ CanEdit /\ o \in alive
  /\ session = "rt" /\ o \in Geometry => Root[o] # None
  /\ \E kind \in {"material", "parm"} : pending' = pending \cup {<<kind, o>>}
  /\ edits' = edits + 1
  /\ UNCHANGED <<session, phase, alive, version, work, ctx, items, result, modes, plugins, caches>>

Deliver(kind, o) ==
  /\ Idle /\ <<kind, o>> \in pending
  /\ pending' = pending \ {<<kind, o>>}
  /\ UNCHANGED <<session, phase, alive, version, edits, ctx, items, result, mode>>

\* vfhExportOpNode().
IprUpdate(kind, o) ==
  /\ session = "ipr" /\ Deliver(kind, o)
  /\ opCache' = {} /\ ClearPrims(o)
  /\ work' = ObjectCalls(<<o>>)
  /\ UNCHANGED doGeometry

\* RtCallbackOBJGeometry(): the geometry is exported for a new material only.
RtObjectChanged(kind, o) ==
  /\ session = "rt" /\ o \in Geometry /\ kind # "geometry" /\ Deliver(kind, o)
  /\ opCache' = {} /\ ClearPrims(o)
  /\ doGeometry' = (kind = "material")
  /\ work' = Append(ObjectCalls(<<o>>), Call("restore", None, None, 0))

\* Its end: the flag gets its value back.
RestoreGeometry ==
  /\ Calls("restore")
  /\ doGeometry' = TRUE
  /\ Goto(<<>>)
  /\ UNCHANGED <<scene, ctx, items, result, mode, plugins, caches>>

\* RtCallbackSOPChanged(): the cache of Nodes stays.
RtGeometryChanged(o) ==
  /\ session = "rt" /\ Deliver("geometry", o)
  /\ ClearPrims(o)
  /\ work' = ObjectCalls(<<o>>)
  /\ UNCHANGED <<doGeometry, opCache>>

\* RtCallbackLight().
RtLightChanged(kind, l) ==
  /\ session = "rt" /\ l \in Lights /\ Deliver(kind, l)
  /\ opCache' = {} /\ ClearPrims(None)
  /\ work' = ObjectCalls(<<l>>)
  /\ UNCHANGED doGeometry

\* An object is deleted.  Nobody tells an IPR session; in an RT session
\* removeObject() removes what an object generated and its Node, if the cache
\* still has it, and a light's plugin is asked for by another name than it has.
DeleteObject(o) ==
  /\ CanEdit /\ o \in alive
  /\ alive' = alive \ {o}
  /\ pending' = {e \in pending : e[2] # o}
  /\ edits' = edits + 1
  /\ IF session = "ipr" \/ o \in Lights
       THEN UNCHANGED <<plugins, opCache, generated>>
       ELSE /\ plugins' = Drop(plugins, generated[o] \cup (IF o \in opCache THEN {NodeOf(o)} ELSE {}))
            /\ generated' = [generated EXCEPT ![o] = {}]
            /\ opCache' = opCache \ {o}
  /\ UNCHANGED <<session, phase, version, work, ctx, items, result, modes, geoCache, nodes, lightLists>>

ExportStep ==
  \/ ExportLight \/ ExportNothing \/ ExportCached \/ ExportNew \/ ModeFull \/ CacheNode
  \/ ExportGeometry \/ Pop \/ ExportPoint \/ PointEnd \/ ExportDetail
  \/ SkipMeshPrim \/ ExportVolume \/ ExportPrim \/ ExportVRayScene \/ ExportPacked
  \/ ExportMeshes \/ ExportInstancer \/ ExportNode
  \/ ExportLightLinker \/ RestoreGeometry

User ==
  \/ \E d \in Details : EditGeometry(d)
  \/ \E o \in Objects : EditObject(o) \/ DeleteObject(o)

Events ==
  \E o \in Objects :
    \/ \E kind \in {"geometry", "material", "parm"} :
         IprUpdate(kind, o) \/ RtObjectChanged(kind, o) \/ RtLightChanged(kind, o)
    \/ RtGeometryChanged(o)

Next == ExportScene \/ ExportStep \/ User \/ Events

Spec == Init /\ [][Next]_vars /\ WF_vars(ExportStep)

-----------------------------------------------------------------------------
(* What an object's plugins should be, by definition. *)

\* An item by what it shows: a mesh or hair shows the geometry it was exported from,
\* whatever the key or name under which it is found.
Shown(g) ==
  CASE g.kind \in {"Node", "GeomParticleSystem"} -> <<g.kind, g.obj>>
    [] g.kind \in {"mesh", "hair"} -> <<g.kind, Contents[plugins[g].source[1]].gdp>>
    [] OTHER                       -> <<g.kind, g.key>>

\* The items of a detail, those of the details packed in it included.
ShapesOf[d \in Details] ==
  LET Shape(p) == CASE p.kind = "packed"              -> ShapesOf[p.inner]
                    [] p.kind = "proxy"               -> <<<<"proxy", FileID(p.file)>>>>
                    [] p.kind \in {"sphere", "plane"} -> <<<<p.kind, {}>>>>
                    [] OTHER                          -> <<>>
  IN FlattenSeq([i \in DOMAIN Contents[d].prims |-> Shape(Contents[d].prims[i])])
       \o SetToSeq({<<kind, Contents[d].gdp>> : kind \in {"mesh", "hair"} \cap KindsOf(d)})

\* An object instances objects at its points, or shows its geometry and the points of
\* its own detail.
Instanced(o) ==
  SelectSeq(Contents[Root[o]].points, LAMBDA p : p \in Geometry \cap alive /\ Root[p] # None)
IsInstancer(o) == Root[o] # None /\ Contents[Root[o]].points # <<>>
WantedItems(o) ==
  IF IsInstancer(o) THEN [i \in DOMAIN Instanced(o) |-> <<"Node", Instanced(o)[i]>>]
  ELSE (IF RenderPoints[o] = "all" THEN <<>> ELSE ShapesOf[Root[o]])
         \o (IF RenderPoints[o] \in Contents[Root[o]].particles
               THEN <<<<"GeomParticleSystem", o>>>> ELSE <<>>)

\* Nothing is packed in what an object shows.
Flat(o) == RenderPoints[o] = "all" \/ DetailsOf(o) = {Root[o]}

\* Items that the exporter leaves out together: a mode leaves out all the meshes, hair
\* and planes, and of proxies those whose file is not in the cache; particles and
\* spheres are left out only with the packed geometry they are in.
Uniform(o) ==
  LET shapes == Range(WantedItems(o))
  IN \/ IsInstancer(o)
     \/ \A shape \in shapes : shape[1] \in {"mesh", "hair", "plane"}
     \/ \E proxy \in shapes : proxy[1] = "proxy" /\ shapes = {proxy}
     \/ Flat(o) /\ \A shape \in shapes : shape[1] \in {"sphere", "GeomParticleSystem"}

\* The light plugins that the export of an object makes for l.
LightsUnder[o \in Objects, l \in Lights] ==
  IF o \in Lights THEN IF o = l THEN 1 ELSE 0
  ELSE IF Root[o] = None THEN 0
  ELSE FoldLeft(LAMBDA n, p : n + LightsUnder[p, l], 0, Contents[Root[o]].points)

Times(seq, e) == Cardinality({i \in DOMAIN seq : seq[i] = e})

Live == phase = "live" /\ Idle
ShownItems(o) ==
  SelectSeq(plugins[InstancerOf(o)].items, LAMBDA g : g.kind # "Node" \/ g.obj \in alive)

-----------------------------------------------------------------------------
(* Properties. *)

\* Whatever has been exported, cached, updated or deleted since, the Instancer2 of
\* an object shows each of its instances and geometries once per occurrence and
\* nothing of another object: the collected items never cross from one
\* exportDetailInstancer() to the next, also when instancers nest.  A fragment shows
\* the meshes of its geometry, which need not be its own primitives.  Of an object
\* that mixes what a mode leaves out with what it does not, it shows no more than
\* that, for exporting it again drops the former; and how often it shows particles
\* is left open where geometry is packed, whose context may be taken for another.
InstancerComplete ==
  (Live /\ pending = {}) => \A o \in alive \cap Geometry : InstancerOf(o) \in DOMAIN plugins =>
    LET shown == [i \in DOMAIN ShownItems(o) |-> Shown(ShownItems(o)[i])]
        wanted == WantedItems(o)
    IN \A e \in Range(shown) \cup Range(wanted) :
         \/ Times(shown, e) = Times(wanted, e)
         \/ ~Uniform(o) /\ Times(shown, e) < Times(wanted, e)
         \/ ~Flat(o) /\ e = <<"GeomParticleSystem", o>>

\* The plugins that are shown of the objects that exist.
ShownPlugins ==
  {n \in DOMAIN plugins : n.kind = "Volume" /\ n.obj \in alive}
    \cup UNION {Range(plugins[InstancerOf(o)].items) :
                  o \in {g \in alive \cap Geometry : InstancerOf(g) \in DOMAIN plugins}}
IsCurrent(n) == plugins[n].source = <<>> \/ plugins[n].source[2] = version[plugins[n].source[1]]

\* Once every event is delivered, what is shown of an existing object is of the last
\* version of its geometry: "something on the actual geometry has changed" makes the
\* callbacks export it again (vfh_export_geom.h:607).  An RT session does not:
\* RtCallbackSOPChanged() leaves the object's own plugin in the cache.
GeometryIsCurrent ==
  (Live /\ pending = {}) =>
    \A n \in ShownPlugins : n \in DOMAIN plugins => IsCurrent(n)

\* In an IPR session, once every event is delivered, what is shown of an existing
\* object is of the last version of its geometry: no cache of nodes, primitives
\* or meshes hands out what was exported before the edit.
CurrentInIpr == session = "ipr" => GeometryIsCurrent

\* The light exporter never caches, so that a light gets a plugin for itself and
\* one for every path of instancers that leads to it, under names that differ.
LightPerInstance ==
  (Live /\ edits = 0) => \A l \in Lights :
    Cardinality({n \in DOMAIN plugins : n.kind = "Light" /\ n.obj = l})
      = FoldLeft(LAMBDA n, o : n + LightsUnder[o, l], 1, Bundle)

\* A volume in the renderer is in its object's list of generated plugins, so that
\* the next update of the object or its deletion can remove it.
VolumesTracked ==
  \A n \in DOMAIN plugins : n.kind = "Volume" => n \in generated[n.obj]

Targets == UNION {Range(Contents[d].points) : d \in Details}
WrappedOf(o) == {n \in DOMAIN plugins :
                   n.kind = "Node" /\ n.key # {} /\ n.key \subseteq Range(plugins[InstancerOf(o)].items)}

\* The light linker of the scene includes the geometry of every object with a
\* light mask, if it shows any and no instancer exported the object first.
MaskedObjectsLinked ==
  (Live /\ edits = 0) => \A o \in Geometry \ Targets : \A l \in LightMask[o] :
    (InstancerOf(o) \in DOMAIN plugins /\ WrappedOf(o) # {}) =>
      \E entry \in Range(plugins[LightLinker].items) :
        /\ WrappedOf(o) \subseteq entry.include
        /\ \A n \in entry.lights : n.obj = l

\* Every export returns, however instancers and packed geometry nest.
ExportReturns == (work # <<>>) ~> (work = <<>>)
=============================================================================
