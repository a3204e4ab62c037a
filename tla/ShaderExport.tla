----------------------------- MODULE ShaderExport -----------------------------
(***************************************************************************)
(* Shaders, materials and textures (vfh_export_vop, vfh_export_material,   *)
(* vfh_export_op, vfh_export_texture).  A material is a graph of nodes     *)
(* whose sockets are linked to outputs of other nodes, through subnets and *)
(* material outputs.  Exporting a node exports everything it is linked to  *)
(* and then a plugin of its own, once: ShaderExporter caches what it has   *)
(* processed, VRayExporter has another cache of finished materials, and    *)
(* the callbacks of an interactive session clear one or the other before   *)
(* they export an edited node again.  A plugin that exists keeps every     *)
(* attribute the new description does not mention.                         *)
(*                                                                         *)
(* Values are abstracted to the version of the node they are read from.  A *)
(* link is what findSimpleInput() answers: past null and switch nodes.     *)
(***************************************************************************)
EXTENDS Naturals, Sequences, FiniteSets, SequencesExt, FiniteSetsExt, TLC

CONSTANTS
  Shaders,    \* Shaders[n]: see Shader
  Materials,  \* nodes that objects have as their material
  Links,      \* Links[n][s]: what socket s is linked to before the first export
  Sky, Sun,   \* a TexSky node of the environment and its light
  Rewirings,    \* Rewirings[n]: the links <<socket, connection>> a user may make at n
  MaxEdits    \* bound: edits in a session

\* A node: its kind, the types of its sockets and outputs, the sockets with no
\* value of their own, the paths in its parameters, and for a subnet its output
\* node, for a subnet's input node the subnet, for a parameter their creator.
Shader(kind, in, out, linkedOnly, paths, partner) ==
  [kind |-> kind, in |-> in, out |-> out, linkedOnly |-> linkedOnly, paths |-> paths,
   partner |-> partner]

Nodes == DOMAIN Shaders
Kind(n) == Shaders[n].kind
VRayKinds == {"texture", "brdf", "material"}
PluginKinds == VRayKinds \cup {"principled"}
VRayNodes == {n \in Nodes : Kind(n) \in VRayKinds}

To(n, out) == [node |-> n, out |-> out]
Unlinked == To("", "")

VARIABLES
  phase,       \* "new", the parts of exportScene(), "live"
  link,        \* link[n][s]: what socket s is linked to
  alive,       \* nodes that exist
  version,     \* version[n]: edits of the node's parameters
  pending,     \* callbacks still to be called: <<node, callback, event>>
  edits,       \* bound counter
  shaderCache, \* ShaderExporter's cacheMan: processed nodes
  matCache,    \* VRayExporter's cacheMan: finished materials
  plugins,     \* the renderer: name -> attribute -> value
  watched,     \* registered callbacks: <<node, "vop" | "shop">>
  delayed,     \* delayedExport: <<plugin, light>>
  unseen       \* of the model: unseen[n], edits of nodes without a plugin since n was exported

graph == <<link, version>>
vars == <<phase, graph, alive, pending, edits, shaderCache, matCache, plugins, watched,
         delayed, unseen>>

Init ==
  /\ phase = "new" /\ link = Links /\ version = [n \in Nodes |-> 0]
  /\ alive = Nodes /\ pending = {} /\ edits = 0 /\ shaderCache = {} /\ matCache = {}
  /\ plugins = <<>> /\ watched = {} /\ delayed = {} /\ unseen = [n \in VRayNodes |-> {}]

-----------------------------------------------------------------------------
(* Plugins, references to them and their outputs. *)

Ref(name, out) == [name |-> name, out |-> out]
NoRef == Ref(<<>>, "")
NameOf(n) == <<n>>
Value(n) == Ref(<<n, "value">>, ToString(version[n]))

\* exportPluginProperties(): the attributes of the description are set, others stay.
Merged(old, new) ==
  [a \in DOMAIN old \cup DOMAIN new |-> IF a \in DOMAIN new THEN new[a] ELSE old[a]]

\* exportPlugin() of a set of descriptions [name, attrs].
NamedSo(descs, name) == {d \in descs : d.name = name}
Said(descs) ==
  [a \in UNION {DOMAIN d.attrs : d \in descs} |->
     (CHOOSE d \in descs : a \in DOMAIN d.attrs).attrs[a]]
Put(table, descs) ==
  [name \in DOMAIN table \cup {d.name : d \in descs} |->
     IF name \in DOMAIN table THEN Merged(table[name], Said(NamedSo(descs, name)))
     ELSE Said(NamedSo(descs, name))]
Desc(name, attrs) == [name |-> name, attrs |-> attrs]

\* hasPluginOutput(): a wrapper's only output is the plugin itself.
HasOutput(ref, out) ==
  Len(ref.name) = 1 /\ ref.name[1] \in Nodes /\ out \in DOMAIN Shaders[ref.name[1]].out

\* Auto-conversion of what socket s of node n is linked to: a wrapper is named
\* after the plugin, not its output, and the socket.
Direct(ref) == [ref |-> ref, made |-> {}]
Wrap(ref, id, s) ==
  [ref |-> Ref(ref.name \o <<id, s>>, ""), made |-> {Desc(ref.name \o <<id, s>>, [input |-> ref])}]
OutputFor == [color |-> "color", float |-> "out_intensity"]
Converted(ref, from, to, s) ==
  CASE from = "bsdf" /\ to = "surface" -> Wrap(ref, "MtlSingleBRDF", s)
    [] {from, to} = {"float", "color"} ->
         IF HasOutput(ref, OutputFor[to]) THEN Direct(Ref(ref.name, OutputFor[to]))
         ELSE Wrap(ref, "ValueConverter", s)
    [] OTHER                           -> Direct(ref)

\* exportSubnet(), exportSubnetInput(): a subnet is followed to the input of its
\* output node, and a subnet's input to the subnet's own socket.
Continued(c) == <<Shaders[c.node].partner, c.out>>

Sockets == UNION {{<<n, s>> : s \in DOMAIN Shaders[n].in} : n \in Nodes}

\* What a socket may be linked to, and what Houdini guarantees of networks: a
\* material output has a "Material" socket, a subnet's outputs are the sockets of
\* its output node, and a subnet's inputs are its own.
Connections ==
  {Unlinked} \cup
    {c \in UNION {{To(n, out) : out \in DOMAIN Shaders[n].out} : n \in Nodes} :
       Kind(c.node) \in {"subnet", "subinput"} => Continued(c) \in Sockets}
NetworkAssumption ==
  /\ IsFiniteSet(Nodes) /\ IsFiniteSet(Sockets)
  /\ Materials \subseteq Nodes /\ Sky \in Nodes
  /\ DOMAIN Links = Nodes /\ DOMAIN Rewirings = Nodes
  /\ \A n \in Nodes :
       /\ Kind(n) = "builder" => <<Shaders[n].partner, "Material">> \in Sockets
       /\ Kind(n) = "matoutput" => <<n, "Material">> \in Sockets
       /\ Kind(n) \in {"null", "switch"} => <<n, "input1">> \in Sockets
       /\ Kind(n) = "switch" => <<n, "input2">> \in Sockets
       /\ Kind(n) = "parameter" => Shaders[n].partner \in Nodes
       /\ Links[n] \in [DOMAIN Shaders[n].in -> Connections]
       /\ Rewirings[n] \subseteq (DOMAIN Shaders[n].in) \X Connections

\* exportConnectedSocket(): what a socket <<node, name>> gets, the wrappers made
\* on the way, and the nodes that are processed.
Nothing == [ref |-> NoRef, made |-> {}, nodes |-> {}]
At(n, out) == [ref |-> Ref(NameOf(n), out), made |-> {}, nodes |-> {n}]
Convert(found, c, socket) ==
  LET conv == Converted(found.ref, Shaders[c.node].out[c.out],
                        Shaders[socket[1]].in[socket[2]], socket[2])
  IN [ref |-> conv.ref, made |-> found.made \cup conv.made, nodes |-> found.nodes \cup {c.node}]
OrNothing(found, result) == IF found.ref = NoRef THEN Nothing ELSE result
\* Through(linked)[socket]: linked says what the sockets behind a subnet get.
Through(linked) ==
  [socket \in Sockets |->
     LET c == link[socket[1]][socket[2]]
         IsTo(kinds) == c # Unlinked /\ Kind(c.node) \in kinds
         Behind(found) == OrNothing(found, Convert(found, c, socket))
     IN CASE IsTo(PluginKinds)            -> Convert(At(c.node, c.out), c, socket)
          [] IsTo({"subnet", "subinput"}) -> Behind(linked[Continued(c)])
          [] OTHER                        -> Nothing]
\* A path through subnets meets no socket twice.
Hops == Cardinality(Sockets)
LinkedWithin[hops \in 0 .. Hops] ==
  IF hops = 0 THEN [socket \in Sockets |-> Nothing] ELSE Through(LinkedWithin[hops - 1])
Linked == LinkedWithin[Hops]

\* exportShaderNode(): a node that is exported for itself, from no socket.  A
\* material builder is its output node, a switch the input its parameter names, if
\* that is a shader; a subnet cannot be selected.
WithOutput(found, nodes) == OrNothing(found, [found EXCEPT !.nodes = @ \cup nodes])
Selected(n) == IF Kind(n) = "switch" /\ version[n] % 2 = 1 THEN "input2" ELSE "input1"
Switched(c) ==
  IF c # Unlinked /\ Kind(c.node) \in PluginKinds THEN At(c.node, "") ELSE Nothing
TopLevel(n) ==
  CASE Kind(n) \in PluginKinds -> At(n, "")
    [] Kind(n) = "builder"     -> Linked[<<Shaders[n].partner, "Material">>]
    [] Kind(n) = "matoutput"   -> WithOutput(Linked[<<n, "Material">>], {n})
    [] Kind(n) \in {"null", "switch"} -> WithOutput(Switched(link[n][Selected(n)]), {n})
    [] OTHER                   -> Nothing

\* setAttrsFromOpNodePrms(): a texture parameter that is not linked may hold the
\* path of a shader, of a COP or of an image; the last two get a bitmap.
File(path) == <<path, "TexBitmap">>
AtPath(n, s) ==
  LET path == Shaders[n].paths[s]
  IN IF path \in Nodes THEN TopLevel(path)
     ELSE [ref |-> Ref(File(path), ""), made |-> {Desc(File(path), <<>>)}, nodes |-> {}]

\* A value alone; the node's own parameter.
Only(ref) == [Nothing EXCEPT !.ref = ref]
Own(n, s) ==
  IF s \in DOMAIN Shaders[n].paths THEN AtPath(n, s)
  ELSE IF s \in Shaders[n].linkedOnly THEN Nothing
  ELSE Only(Value(n))

\* setAttrsFromNetworkParameters(): socket s is linked to parameter p, which their
\* creator has, a path or a value.  A user texture is made of a value, which only a
\* colour is then linked to: of another the attribute is the node's own.
UserTexture(n, s) == Ref(<<n, s, "TexUser">>, "")
Default(n, s, p) == {Desc(UserTexture(n, s).name, [default |-> Value(Shaders[p].partner)])}
OrElse(found, other) == IF found.ref = NoRef THEN other ELSE found
FromParameter(n, s, p) ==
  CASE "value" \in DOMAIN Shaders[p].paths -> OrElse(AtPath(p, "value"), Own(n, s))
    [] Shaders[n].in[s] = "matrix"         -> Only(Value(Shaders[p].partner))
    [] Shaders[n].in[s] = "color" -> [Only(UserTexture(n, s)) EXCEPT !.made = Default(n, s, p)]
    [] OTHER                      -> [Own(n, s) EXCEPT !.made = @ \cup Default(n, s, p)]

\* exportVRayNode(): what a socket's attribute is set to, with what is made for it:
\* the plugin it is linked to, a default mapping, the transform of a makexform node,
\* what a parameter of the network gives, the plugin at a path, the parameter.
LinkedTo(n, s, kind) == link[n][s] # Unlinked /\ Kind(link[n][s].node) = kind
Unconnected(n, s) ==
  IF s = "uvwgen" THEN Only(Ref(<<n, "DefaultUVWGen">>, ""))
  ELSE IF LinkedTo(n, s, "makexform") /\ Shaders[n].in[s] = "matrix" THEN Only(Value(link[n][s].node))
  ELSE IF LinkedTo(n, s, "parameter") THEN FromParameter(n, s, link[n][s].node)
  ELSE Own(n, s)
Input(n, s) ==
  LET Found(linked) == IF linked.ref = NoRef THEN Unconnected(n, s) ELSE linked
  IN Found(Linked[<<n, s>>])
Inputs(n) == [s \in DOMAIN Shaders[n].in |-> Input(n, s)]
Attributes(inputs) == {s \in DOMAIN inputs : inputs[s].ref # NoRef}

\* The plugins made for a node, its own among them, and the nodes it leads to.
MadeFor(inputs) == UNION {i.made : i \in Range(inputs)}
OwnPlugin(n, inputs) == Desc(NameOf(n), [s \in Attributes(inputs) |-> inputs[s].ref])
PluginsFor(n, inputs) == MadeFor(inputs) \cup {OwnPlugin(n, inputs)}
PluginsOf(n) == PluginsFor(n, Inputs(n))
Successors(n) ==
  IF Kind(n) \notin PluginKinds THEN {} ELSE UNION {i.nodes : i \in Range(Inputs(n))}

-----------------------------------------------------------------------------
(* Export of a node with everything it leads to. *)

\* The nodes met from some, when a V-Ray node that is cached is not entered.
\* Onward(met, cache)[n]: met says what the nodes met from others are.  A path
\* meets no node twice.
Onward(met, cache) ==
  [n \in Nodes |-> {n} \cup (IF n \in cache THEN {} ELSE UNION {met[m] : m \in Successors(n)})]
Met(from, cache) ==
  LET Within[hops \in 0 .. Cardinality(Nodes)] ==
        IF hops = 0 THEN [n \in Nodes |-> {n}] ELSE Onward(Within[hops - 1], cache)
  IN UNION {Within[Cardinality(Nodes)][n] : n \in from}

\* A V-Ray node that is not cached gets a plugin and is cached.
Process(met, cache, descs) ==
  LET fresh == {n \in met \ cache : Kind(n) \in PluginKinds}
  IN /\ shaderCache' = cache \cup (fresh \cap VRayNodes)
     /\ plugins' = Put(plugins, descs \cup UNION {PluginsOf(n) : n \in fresh})
     /\ delayed' = delayed \cup {<<NameOf(n), Sun>> : n \in fresh \cap {Sky}}
     /\ unseen' = [n \in VRayNodes |-> IF n \in fresh THEN {} ELSE unseen[n]]

\* Mutant: only the nodes the export starts at get a callback.
WatchTop(top, met, callbacks) ==
  watched' = watched \cup (top.nodes \X {"vop"}) \cup callbacks

\* Every node that is met gets a callback.
Watch(top, met, callbacks) == watched' = watched \cup (met \X {"vop"}) \cup callbacks

\* exportConnectedSocket() of a node.
Export(top, cache, descs, callbacks) ==
  LET ExportNodes(met) == /\ Process(met, cache, top.made \cup descs)
                          /\ Watch(top, met, callbacks)
  IN ExportNodes(Met(top.nodes, cache))

\* The plugins around the material m of an interactive session.
MtlSingle(m) == Ref(<<m, "MtlSingle">>, "")
MtlStats(m)  == Ref(<<m, "MtlStats">>, "")
Wrapped(m, ref) == IF Kind(m) = "brdf" THEN MtlSingle(m) ELSE ref
Wrappers(m, ref) ==
  (IF Kind(m) = "brdf" THEN {Desc(MtlSingle(m).name, [brdf |-> ref])} ELSE {})
    \cup {Desc(MtlStats(m).name, [base_mtl |-> Wrapped(m, ref)])}
Clay == Desc(<<"Clay", "MtlSingle">>, <<>>)

\* exportMaterial(): a material that could not be exported is the default one,
\* and is cached like the others.
ExportAs(m, top, cache) ==
  IF top.ref # NoRef THEN Export(top, cache, Wrappers(m, top.ref), {<<m, "shop">>})
  ELSE /\ shaderCache' = cache /\ plugins' = Put(plugins, {Clay})
       /\ UNCHANGED <<watched, delayed, unseen>>
ExportMaterial(m, cache) ==
  \/ /\ m \in matCache
     /\ shaderCache' = cache
     /\ UNCHANGED <<matCache, plugins, watched, delayed, unseen>>
  \/ /\ m \notin matCache
     /\ matCache' = matCache \cup {m}
     /\ ExportAs(m, TopLevel(m), cache)

-----------------------------------------------------------------------------
(* The export of the scene. *)

\* exportScene(): the caches are cleared, the list of delayed items is not.
ExportScene ==
  /\ phase = "new" /\ phase' = "objects"
  /\ shaderCache' = {} /\ matCache' = {}
  /\ UNCHANGED <<graph, alive, pending, edits, plugins, watched, delayed, unseen>>

\* Mutant: delayed items come before the lights.
DelayedFirst == [objects |-> "environment", environment |-> "delayed",
                 delayed |-> "lights", lights |-> "live"]

\* The order of exportScene().
After == [objects |-> "lights", lights |-> "environment",
          environment |-> "delayed", delayed |-> "live"]

\* An object needs its material.
ExportObject(m) ==
  /\ phase = "objects"
  /\ ExportMaterial(m, shaderCache)
  /\ UNCHANGED <<phase, graph, alive, pending, edits>>
ObjectsDone ==
  /\ phase = "objects" /\ Materials \subseteq matCache /\ phase' = After[phase]
  /\ UNCHANGED <<graph, alive, pending, edits, shaderCache, matCache, plugins, watched,
                 delayed, unseen>>

LightOf(o) == <<o, "Light">>
ExportLights ==
  /\ phase = "lights" /\ phase' = After[phase]
  /\ plugins' = Put(plugins, {Desc(LightOf(Sun), <<>>)})
  /\ UNCHANGED <<graph, alive, pending, edits, shaderCache, matCache, watched, delayed, unseen>>

\* exportEnvironment(): the node of the environment and what it is linked to.
ExportEnvironment ==
  /\ phase = "environment" /\ phase' = After[phase]
  /\ Export(TopLevel(Sky), shaderCache, {}, {})
  /\ UNCHANGED <<graph, alive, pending, edits, matCache>>

\* exportDelayed(): a light that has no plugin yet leaves the attribute unset.
ExportDelayed ==
  /\ phase = "delayed" /\ phase' = After[phase]
  /\ plugins' = Put(plugins, {Desc(item[1], IF LightOf(item[2]) \in DOMAIN plugins
                                             THEN [sun |-> Ref(LightOf(item[2]), "")] ELSE <<>>) :
                                item \in delayed})
  /\ delayed' = {}
  /\ UNCHANGED <<graph, alive, pending, edits, shaderCache, matCache, watched, unseen>>

-----------------------------------------------------------------------------
(* The user's edits, and the callbacks of an interactive session. *)

CanEdit == phase = "live" /\ pending = {} /\ edits < MaxEdits
Notify(n, type) ==
  pending' = {<<callback[1], callback[2], type>> : callback \in {w \in watched : w[1] = n}}

\* No plugin shows the edit of a node that has none, until a node that depends on it
\* is exported again.
Unseen(n, type) ==
  unseen' = IF Kind(n) \in PluginKinds THEN unseen
            ELSE [m \in VRayNodes |-> unseen[m] \cup {<<n, type>>}]

Rewire(n) ==
  /\ CanEdit /\ n \in alive
  /\ \E choice \in Rewirings[n] :
       /\ choice[2] = Unlinked \/ choice[2].node \in alive
       /\ link' = [link EXCEPT ![n][choice[1]] = choice[2]]
  /\ Notify(n, "rewired") /\ Unseen(n, "rewired") /\ edits' = edits + 1
  /\ UNCHANGED <<phase, version, alive, shaderCache, matCache, plugins, watched, delayed>>
SetParm(n) ==
  /\ CanEdit /\ n \in alive
  /\ version' = [version EXCEPT ![n] = @ + 1]
  /\ Notify(n, "parm") /\ Unseen(n, "parm") /\ edits' = edits + 1
  /\ UNCHANGED <<phase, link, alive, shaderCache, matCache, plugins, watched, delayed>>

\* Only a node nothing is linked to is deleted here.
InUse == Materials \cup {Sky} \cup {Shaders[n].partner : n \in Nodes}
           \cup (UNION {{link[n][s].node : s \in DOMAIN link[n]} : n \in alive})
           \cup (UNION {Range(Shaders[n].paths) : n \in alive})
Delete(n) ==
  /\ CanEdit /\ n \in alive \ InUse
  /\ alive' = alive \ {n}
  /\ Notify(n, "delete") /\ edits' = edits + 1
  /\ UNCHANGED <<phase, graph, shaderCache, matCache, plugins, watched, delayed, unseen>>

\* Mutant: the cache of processed nodes is kept.
CallbackKeepsCache(event) ==
  IF event[3] = "delete"
  THEN /\ watched' = watched \ {<<event[1], "vop">>}
       /\ UNCHANGED <<shaderCache, plugins, delayed, unseen>>
  ELSE Export(TopLevel(event[1]), shaderCache, {}, {})

\* RtCallbackVop(): the edited node is processed again, with all it leads to.
VopCallback(event) ==
  IF event[3] = "delete"
  THEN /\ watched' = watched \ {<<event[1], "vop">>}
       /\ UNCHANGED <<shaderCache, plugins, delayed, unseen>>
  ELSE Export(TopLevel(event[1]), {}, {}, {})
RtCallbackVop ==
  \E event \in pending :
    /\ event[2] = "vop" /\ pending' = pending \ {event} /\ VopCallback(event)
    /\ UNCHANGED <<phase, graph, alive, edits, matCache>>

\* RtCallbackSurfaceShop(): only the cache of processed nodes is cleared, the
\* finished material stays.
RtCallbackSurfaceShop ==
  \E event \in pending :
    /\ event[2] = "shop" /\ pending' = pending \ {event}
    /\ IF event[3] = "rewired" THEN ExportMaterial(event[1], {})
       ELSE /\ watched' = IF event[3] = "delete" THEN watched \ {<<event[1], "shop">>} ELSE watched
            /\ UNCHANGED <<shaderCache, matCache, plugins, delayed, unseen>>
    /\ UNCHANGED <<phase, graph, alive, edits>>

\* RtCallbackOBJGeometry(): an object that changed drops all finished materials
\* with its plugin caches, and exports its own again.
ObjectChanged(m) ==
  /\ CanEdit /\ edits' = edits + 1
  /\ ExportAs(m, TopLevel(m), shaderCache)
  /\ matCache' = {m}
  /\ UNCHANGED <<phase, graph, alive, pending>>

Edit == \E n \in Nodes : Rewire(n) \/ SetParm(n) \/ Delete(n)
Next ==
  \/ ExportScene \/ ObjectsDone \/ ExportLights \/ ExportEnvironment \/ ExportDelayed
  \/ \E m \in Materials \ matCache : ExportObject(m)
  \/ \E m \in Materials \cap alive : ObjectChanged(m)
  \/ Edit \/ RtCallbackVop \/ RtCallbackSurfaceShop

Spec == Init /\ [][Next]_vars

-----------------------------------------------------------------------------
(* What the shader exporter should guarantee. *)

TypeOK ==
  /\ phase \in {"new", "live"} \cup DOMAIN After /\ alive \subseteq Nodes
  /\ version \in [Nodes -> 0..MaxEdits] /\ edits \in 0..MaxEdits
  /\ shaderCache \subseteq VRayNodes /\ matCache \subseteq Materials
  /\ watched \subseteq Nodes \X {"vop", "shop"}
  /\ \A n \in Nodes : DOMAIN link[n] = DOMAIN Links[n]

Quiet == phase = "live" /\ pending = {}
InRenderer(n) == n \in alive /\ NameOf(n) \in DOMAIN plugins

\* The edits that decide what a socket gets, of nodes without a plugin on its way: links
\* of subnets, what a path leads to, the value of a parameter or a transform.
RouteWithin[hops \in 0 .. Hops] ==
  [socket \in Sockets |->
     LET c == link[socket[1]][socket[2]]
     IN IF hops = 0 THEN {}
        ELSE {<<socket[1], "rewired">>} \cup
               (IF c # Unlinked /\ Kind(c.node) \in {"subnet", "subinput"}
                  THEN RouteWithin[hops - 1][Continued(c)] ELSE {})]
Route == RouteWithin[Hops]
Path(paths, s) ==
  IF s \notin DOMAIN paths \/ paths[s] \notin Nodes THEN {}
  ELSE IF Kind(paths[s]) = "matoutput" THEN Route[<<paths[s], "Material">>]
  ELSE {<<paths[s], "rewired">>, <<paths[s], "parm">>}
DecidedBy(n, s) ==
  LET to == link[n][s].node
  IN Route[<<n, s>>] \cup Path(Shaders[n].paths, s)
       \cup (IF LinkedTo(n, s, "makexform") THEN {<<to, "parm">>} ELSE {})
       \cup (IF LinkedTo(n, s, "parameter")
               THEN {<<Shaders[to].partner, "parm">>} \cup Path(Shaders[to].paths, "value") ELSE {})

\* Once the callbacks of an edit have run, what a node's plugin has for each attribute
\* the node describes, and the user texture made for a parameter, is what the graph
\* says now, however the node was reached and cached before (exportVRayNode,
\* RtCallbackVop): unless, since the node was exported, the user changed a node without a
\* plugin on the way to it.  Nothing is exported for such an edit, of a link of a subnet
\* or inside it, of a parameter of the network, of a transform.
LinksFollowGraph ==
  Quiet => \A n \in VRayNodes : InRenderer(n) =>
    LET Shown(inputs) ==
          \A s \in Attributes(inputs) :
            \/ /\ plugins[NameOf(n)][s] = inputs[s].ref
               /\ \A d \in inputs[s].made : "default" \in DOMAIN d.attrs =>
                    plugins[d.name]["default"] = d.attrs["default"]
            \/ DecidedBy(n, s) \cap unseen[n] # {}
    IN Shown(Inputs(n))

\* A node whose plugin the renderer has is watched, so that its next edit
\* reaches the renderer, and no deleted node is (exportConnectedSocket).
ExportedAreWatched ==
  Quiet => /\ \A n \in VRayNodes : InRenderer(n) => <<n, "vop">> \in watched
           /\ \A w \in watched : w[1] \in alive

\* A sky whose item is no longer waiting has the plugin of its sun: the delayed
\* items are resolved after the lights and after all that makes such items.
SkySeesItsSun ==
  (phase = "live" /\ InRenderer(Sky) /\ <<NameOf(Sky), Sun>> \notin delayed) =>
    "sun" \in DOMAIN plugins[NameOf(Sky)]

\* A material node that is linked to another shader in a session keeps its name,
\* and shows the new shader (exportMaterial: "Used when rewiring materials when
\* running interactive RT session"): violated, the callback of the material
\* finds the finished material in its cache.
RewiredMaterialShown ==
  Quiet => \A m \in matCache :
             (Kind(m) # "builder" /\ TopLevel(m).ref # NoRef /\ MtlStats(m).name \in DOMAIN plugins) =>
                plugins[MtlStats(m).name]["base_mtl"] = Wrapped(m, TopLevel(m).ref)
=============================================================================
