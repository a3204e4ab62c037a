----------------------------- MODULE MeshExport -----------------------------
(***************************************************************************)
(* The polygons of a geometry detail as a mesh of V-Ray: triangles, edges, *)
(* map channels, material ids of the faces (vfh_export_mesh), and the      *)
(* caches exportPolyMesh() of vfh_export_geom keeps of them while objects  *)
(* that share a detail are exported.  Vertices and points are numbers; the *)
(* value of an attribute is known by the vertex or point it belongs to.    *)
(***************************************************************************)
EXTENDS Integers, Sequences, SequencesExt, FiniteSets, FiniteSetsExt

CONSTANTS
  Details,   \* [prims, points, normals, attrs, sheetAttr], see below
  Contexts,  \* [context, object, sheet, subdiv, partition] an export may have
  MaxExports \* bound on exports

\* prims: sequence of [kind, polys, group, path, over]: "poly" has one polygon,
\* "soup" any number, "open" is hair; a polygon is the sequence of its vertices.
\* points: the point of each vertex.  normals: owner of the attribute, or "none" where
\* they are computed for vertices.
\* attrs: name -> [owner, uv, values of its vertices or points].
DetailsAssumption ==
  \A d \in Details :
    /\ d.prims \in Seq(Range(d.prims)) /\ d.points \in Seq(Nat)
    /\ \A prim \in Range(d.prims) :
         prim.polys \in Seq(Seq(Nat)) /\ (prim.kind # "soup" => Len(prim.polys) = 1)
    /\ \A name \in DOMAIN d.attrs :
         d.attrs[name].owner # "point" => DOMAIN d.attrs[name].values = DOMAIN d.points
    /\ FlattenSeq(FlattenSeq([i \in DOMAIN d.prims |-> d.prims[i].polys]))
         = [v \in DOMAIN d.points |-> v]

None == "none"
Unset == "unset"

VARIABLES
  polyMaterial,    \* <<detail, style>> -> material
  polyMapChannels, \* <<detail, style>> -> ExtMapChannels
  meshPrim,        \* detail -> geometry
  hashCache,       \* <<material ids, detail>> -> MtlMulti
  item,            \* the last item exported
  exports          \* bound counter

meshVars == <<polyMaterial, polyMapChannels, meshPrim, hashCache, item, exports>>

-----------------------------------------------------------------------------
(* Triangles. *)

\* The primitives at some indices, in their order.
Only(prims, indices) ==
  FlattenSeq([i \in DOMAIN prims |-> IF i \in indices THEN <<prims[i]>> ELSE <<>>])

PrimList(d) == Only(d.prims, {i \in DOMAIN d.prims : d.prims[i].kind # "open"})

Polygons(prims) == FlattenSeq([i \in DOMAIN prims |-> prims[i].polys])

\* One value of each primitive, repeated for its faces.
NumFaces(poly) == IF Len(poly) > 2 THEN Len(poly) - 2 ELSE 0
PerFace(prims, values) ==
  FlattenSeq([i \in DOMAIN prims |->
    FlattenSeq([j \in DOMAIN prims[i].polys |->
      [f \in 1..NumFaces(prims[i].polys[j]) |-> values[i]]])])

\* Houdini's polygons are clockwise: a fan from the first vertex, turned round.
Fan(poly) == FlattenSeq([i \in 1..NumFaces(poly) |-> <<poly[i + 2], poly[i + 1], poly[1]>>])
Corners(prims) ==
  LET polys == Polygons(prims) IN FlattenSeq([p \in DOMAIN polys |-> Fan(polys[p])])

PointsOf(d, vertices) == [k \in DOMAIN vertices |-> d.points[vertices[k]]]

GetFaces(d) == PointsOf(d, Corners(PrimList(d)))

\* Mutant: the last edge of a polygon is taken as a diagonal.
EdgeMaskOpen(i, n) == {0} \cup (IF i = 1 THEN {1} ELSE {}) \cup (IF i = n - 1 THEN {2} ELSE {})

EdgeMask(i, n) == {0} \cup (IF i = 1 THEN {1} ELSE {}) \cup (IF i = n - 2 THEN {2} ELSE {})

\* Ten faces in an integer, three bits each; an integer is the set of its bits.
GetEdgeVisibility(prims) ==
  LET polys == Polygons(prims)
      masks == FlattenSeq([p \in DOMAIN polys |->
                 [i \in 1..NumFaces(polys[p]) |-> EdgeMask(i, Len(polys[p]))]])
  IN [w \in 0..((Len(masks) + 9) \div 10 - 1) |->
        UNION {{(f % 10) * 3 + b : b \in masks[f + 1]} :
                 f \in {g \in 0..(Len(masks) - 1) : g \div 10 = w}}]

-----------------------------------------------------------------------------
(* Map channels: values, and the index of the value of each corner. *)

PointChannel(d, values) == [values |-> values, faces |-> GetFaces(d)]

VertexChannel(prims, values) == [values |-> values, faces |-> Corners(prims)]

\* Corners of soups as the welded channel takes them: every polygon is looked up
\* from the first vertices of the soup.
WeldedCorners(prims) ==
  FlattenSeq([i \in DOMAIN prims |->
    LET all == FlattenSeq(prims[i].polys)
    IN FlattenSeq([j \in DOMAIN prims[i].polys |->
         Fan(SubSeq(all, 1, Len(prims[i].polys[j])))])])

WeldedChannel(prims, values) ==
  LET welded == SetToSeq({values[v] : v \in DOMAIN values})
      corners == WeldedCorners(prims)
  IN [values |-> welded,
      faces |-> [k \in DOMAIN corners |->
                   CHOOSE i \in DOMAIN welded : welded[i] = values[corners[k]]]]

AttrChannel(d, attr, subdiv) ==
  IF attr.owner = "point" THEN PointChannel(d, attr.values)
  ELSE IF subdiv THEN WeldedChannel(PrimList(d), attr.values)
  ELSE VertexChannel(PrimList(d), attr.values)

GetNormals(d) ==
  LET values == [k \in DOMAIN d.points |-> k]
  IN IF d.normals = "point" THEN PointChannel(d, values)
     ELSE VertexChannel(PrimList(d), values)

GetMapChannels(d, subdiv) ==
  [name \in {a \in DOMAIN d.attrs : d.attrs[a].uv} |-> AttrChannel(d, d.attrs[name], subdiv)]

\* Channel of the overrides of a parameter, a value for each face's three corners.
OverrideChannel(prims, param) ==
  LET value(prim) == IF param \in DOMAIN prim.over THEN prim.over[param] ELSE Unset
      given == PerFace(prims, [i \in DOMAIN prims |-> value(prims[i])])
      n == Len(given)
  IN [values |-> [k \in 1..(3 * n) |-> given[(k + 2) \div 3]],
      faces |-> [k \in 1..(3 * n) |-> k]]

\* A parameter that is overridden hides an attribute of its name.  The channels are
\* asked for before it is known that the mesh is subdivided.
GetExtMapChannels(d) ==
  LET prims == PrimList(d)
      over == UNION {DOMAIN prims[i].over : i \in {j \in DOMAIN prims :
                       \E p \in DOMAIN prims[j].polys : NumFaces(prims[j].polys[p]) > 0}}
      attrs == {a \in DOMAIN d.attrs : ~d.attrs[a].uv}
  IN [name \in over \cup attrs |->
        IF name \in over THEN OverrideChannel(prims, name)
        ELSE AttrChannel(d, d.attrs[name], FALSE)]

-----------------------------------------------------------------------------
(* Material. *)

ObjMatNode(ctx) == IF ctx.context # None THEN ctx.context ELSE ctx.object

\* Mutant: the top level material goes before the style sheet.
ObjectFirst(d, ctx, prim) ==
  IF ObjMatNode(ctx) # None THEN ObjMatNode(ctx)
  ELSE IF ctx.sheet[prim.group] # None THEN ctx.sheet[prim.group]
  ELSE IF d.sheetAttr THEN None ELSE prim.path

\* The style sheet of the primitive, the material of the context or the object,
\* then the attributes: of a style sheet in them nothing is taken.
PolyMatNode(d, ctx, prim) ==
  IF ctx.sheet[prim.group] # None THEN ctx.sheet[prim.group]
  ELSE IF ObjMatNode(ctx) # None THEN ObjMatNode(ctx)
  ELSE IF d.sheetAttr THEN None ELSE prim.path

\* MatToIndex: materials in the order of their first primitive.
FaceMaterials(d, ctx) ==
  LET prims == PrimList(d)
      nodes == [i \in DOMAIN prims |-> PolyMatNode(d, ctx, prims[i])]
      firsts == {i \in DOMAIN nodes : nodes[i] # None /\ \A j \in 1..(i - 1) : nodes[j] # nodes[i]}
  IN [k \in 1..Cardinality(firsts) |->
        nodes[CHOOSE i \in firsts : Cardinality({j \in firsts : j < i}) = k - 1]]

\* A face of a primitive without a material has the id of the first one.
FaceMtlIDs(d, ctx) ==
  LET list == FaceMaterials(d, ctx)
      id(prim) == IF PolyMatNode(d, ctx, prim) = None THEN 0
                  ELSE (CHOOSE k \in DOMAIN list : list[k] = PolyMatNode(d, ctx, prim)) - 1
      prims == PrimList(d)
  IN PerFace(prims, [i \in DOMAIN prims |-> id(prims[i])])

MtlMultiKey(d, ctx) == <<FaceMtlIDs(d, ctx), d>>

\* "for" is of the model: the context it was made in.
NoList(ctx) == [list |-> <<>>, ids |-> <<>>, for |-> ctx]
GetMaterial(d, ctx) ==
  IF FaceMaterials(d, ctx) = <<>> \/ FaceMtlIDs(d, ctx) = <<>> THEN NoList(ctx)
  ELSE IF MtlMultiKey(d, ctx) \in DOMAIN hashCache THEN hashCache[MtlMultiKey(d, ctx)]
  ELSE [list |-> FaceMaterials(d, ctx), ids |-> FaceMtlIDs(d, ctx), for |-> ctx]

-----------------------------------------------------------------------------
(* Geometry. *)

AsPluginDesc(d, ctx) ==
  [vertices |-> [p \in {d.points[v] : v \in DOMAIN d.points} |-> p],
   faces |-> GetFaces(d), edges |-> GetEdgeVisibility(PrimList(d)),
   normals |-> GetNormals(d), channels |-> GetMapChannels(d, ctx.subdiv), for |-> ctx]

Soups(d) == {i \in DOMAIN PrimList(d) : PrimList(d)[i].kind = "soup"}

\* What a primitive takes of the list of normals: a soup one for each of its vertices,
\* a polygon all of the attribute.
NormalEntries(d, prim) ==
  IF prim.kind = "soup" THEN FlattenSeq(prim.polys)
  ELSE [k \in 1..(IF d.normals = "point" THEN Max(Range(d.points)) ELSE Len(d.points)) |-> k]

NormalsOffset(d, i) ==
  Len(FlattenSeq([j \in 1..(i - 1) |-> NormalEntries(d, PrimList(d)[j])]))

\* The normals of a soup follow those of the primitives before it, by their place in
\* the list (memory, past its end), and are asked for by vertices, of points too.
SoupNormals(d, i) ==
  LET prim == PrimList(d)[i]
      corners == Corners(<<prim>>)
      offset == NormalsOffset(d, i)
  IN [values |-> [k \in DOMAIN FlattenSeq(prim.polys) |-> offset + k],
      faces |-> [k \in DOMAIN corners |-> corners[k] - offset]]

\* The points of a soup on their own, from its lowest to its highest.
AsPolySoup(d, i) ==
  LET prim == PrimList(d)[i]
      faces == PointsOf(d, Corners(<<prim>>))
      lowest == Min(Range(faces))
  IN [vertices |-> [p \in 0..(Max(Range(faces)) - lowest) |-> lowest + p],
      faces |-> [k \in DOMAIN faces |-> faces[k] - lowest],
      edges |-> GetEdgeVisibility(<<prim>>), normals |-> SoupNormals(d, i), prim |-> prim]

\* An attribute that is not there is asked for its entries, or a negative number of
\* points is copied.
AsPolySoupFails(d) ==
  \E prim \in Range(PrimList(d)) :
    \/ prim.kind = "poly" /\ d.normals = "none"
    \/ prim.kind = "soup" /\ Corners(<<prim>>) = <<>>

Cached(cache, key, value) == IF key \in DOMAIN cache THEN cache[key] ELSE value
Put(cache, key, value) ==
  [k \in DOMAIN cache \cup {key} |-> IF k = key THEN value ELSE cache[k]]

NoItem == [material |-> None]

Init ==
  /\ polyMaterial = <<>> /\ polyMapChannels = <<>>
  /\ meshPrim = <<>> /\ hashCache = <<>>
  /\ item = NoItem
  /\ exports = 0

\* The partition attribute is asked for to tell soups apart: then each is a mesh
\* and other polygons are not exported.
Apart(d, ctx) == ctx.partition /\ \E i \in DOMAIN d.prims : d.prims[i].kind = "soup"

\* A soup apart has the material of the context and no channels: what is made of both
\* stays in the caches.
ExportPolyMesh(d, ctx) ==
  LET style == <<d, ctx.sheet>>
      material == Cached(polyMaterial, style, GetMaterial(d, ctx))
      channels == Cached(polyMapChannels, style, GetExtMapChannels(d))
      apart == Apart(d, ctx)
      geometry == IF apart THEN [i \in Soups(d) |-> AsPolySoup(d, i)]
                  ELSE Cached(meshPrim, d, AsPluginDesc(d, ctx))
  IN /\ PrimList(d) # <<>>
     /\ ~(apart /\ AsPolySoupFails(d))
     /\ exports < MaxExports
     /\ exports' = exports + 1
     /\ polyMaterial' = Put(polyMaterial, style, material)
     /\ hashCache' = IF style \in DOMAIN polyMaterial \/ material.list = <<>> THEN hashCache
                     ELSE Put(hashCache, MtlMultiKey(d, ctx), material)
     /\ polyMapChannels' = Put(polyMapChannels, style, channels)
     /\ meshPrim' = IF apart THEN meshPrim ELSE Put(meshPrim, d, geometry)
     /\ item' = [detail |-> d, ctx |-> ctx, apart |-> apart, geometry |-> geometry,
                 material |-> IF apart THEN NoList(ctx) ELSE material,
                 channels |-> IF apart THEN <<>> ELSE channels]

\* The program ends.
ExportFails(d, ctx) ==
  /\ Apart(d, ctx) /\ AsPolySoupFails(d)
  /\ exports < MaxExports
  /\ exports' = MaxExports
  /\ polyMaterial' = <<>> /\ polyMapChannels' = <<>>
  /\ meshPrim' = <<>> /\ hashCache' = <<>>
  /\ item' = NoItem

\* clearPrimPluginCache(), when geometry has changed.
ClearPrimPluginCache ==
  /\ polyMaterial # <<>>
  /\ polyMaterial' = <<>> /\ polyMapChannels' = <<>>
  /\ meshPrim' = <<>> /\ hashCache' = <<>>
  /\ item' = NoItem
  /\ UNCHANGED exports

Next ==
  \/ \E d \in Details, ctx \in Contexts : ExportPolyMesh(d, ctx) \/ ExportFails(d, ctx)
  \/ ClearPrimPluginCache

Spec == Init /\ [][Next]_meshVars

-----------------------------------------------------------------------------
(* Properties. *)

\* What exportDetailInstancer() puts on a face.
Shown(f) ==
  IF item.ctx.context # None THEN item.ctx.context
  ELSE IF item.material.list = <<>> THEN item.ctx.object
  ELSE item.material.list[item.material.ids[f] + 1]

\* The corners of a face of a polygon that follow each other in it are joined by an
\* edge that is seen, the others by a diagonal that is not.
EdgesAreOfPolygons(prims, edges) ==
  LET polys == Polygons(prims)
      facePoly == FlattenSeq([p \in DOMAIN polys |-> [i \in 1..NumFaces(polys[p]) |-> p]])
      corners == Corners(prims)
      At(poly, v) == CHOOSE i \in DOMAIN poly : poly[i] = v
      Neighbours(poly, v, w) == (At(poly, v) - At(poly, w)) % Len(poly) \in {1, Len(poly) - 1}
  IN \A f \in DOMAIN facePoly, b \in 0..2 :
       (((f - 1) % 10) * 3 + b \in edges[(f - 1) \div 10])
         = Neighbours(polys[facePoly[f]], corners[3 * (f - 1) + b + 1],
                      corners[3 * (f - 1) + ((b + 1) % 3) + 1])

\* The value of an attribute at each corner of the mesh is the one its vertex has.
ChannelIsOfAttr(d, channel, attr) ==
  LET corners == Corners(PrimList(d))
      at(v) == IF attr.owner = "point" THEN d.points[v] ELSE v
  IN /\ Len(channel.faces) = Len(corners)
     /\ \A k \in DOMAIN corners :
          channel.values[channel.faces[k]] = attr.values[at(corners[k])]

\* The first i primitives are soups.
SoupsFirst(d, i) == 1..i \subseteq {j \in DOMAIN d.prims : d.prims[j].kind = "soup"}

\* The mesh of a detail has the polygons of its primitives and no others: edges, normals
\* and the values of attributes are those of the corners they are given for.  Welding
\* loses the values for a soup of several polygons, so those are left out where the
\* mesh is subdivided.  The mesh of a soup exported apart has the polygons and edges of
\* that soup, and its normals if they are of vertices and nothing but soups comes
\* before it: normals of points, and those after another primitive, are not its own.
MeshIsDetail ==
  item # NoItem =>
    LET d == item.detail
        split == d.prims
        several == \E i \in DOMAIN split : split[i].kind = "soup" /\ Len(split[i].polys) > 1
    IN IF item.apart
       THEN \A i \in DOMAIN item.geometry :
              LET g == item.geometry[i] IN
              /\ g.prim = PrimList(d)[i]
              /\ EdgesAreOfPolygons(<<g.prim>>, g.edges)
              /\ [k \in DOMAIN g.faces |-> g.vertices[g.faces[k]]]
                   = PointsOf(d, Corners(<<g.prim>>))
              /\ (d.normals # "point" /\ SoupsFirst(d, i)) =>
                   [k \in DOMAIN g.normals.faces |-> g.normals.values[g.normals.faces[k]]]
                     = Corners(<<g.prim>>)
       ELSE LET g == item.geometry IN
            /\ EdgesAreOfPolygons(PrimList(d), g.edges)
            /\ ChannelIsOfAttr(d, g.normals,
                 [owner |-> IF d.normals = "point" THEN "point" ELSE "vertex",
                  values |-> [k \in DOMAIN d.points |-> k]])
            /\ \A name \in DOMAIN g.channels :
                 (g.for.subdiv /\ several)
                   \/ ChannelIsOfAttr(d, g.channels[name], d.attrs[name])

\* The first of these that a primitive has.
OwnMaterial(d, ctx, prim) ==
  LET sources == <<ctx.sheet[prim.group], ctx.context, ctx.object,
                   IF d.sheetAttr THEN None ELSE prim.path>>
      given == {i \in 1..4 : sources[i] # None}
  IN IF given = {} THEN None ELSE sources[Min(given)]

\* A face of a mesh is shown with the material its primitive has, from a style sheet,
\* the object or its own path, in the context the list of materials was made in: for a
\* list found in a cache that may be another context than the one of the export.  A
\* material of the context hides the list, and a soup apart has none, only the material
\* of the context or the object.  The overrides of a face of a mesh are its primitive's,
\* unset where it has none, in any context; a soup apart has no overrides.
FacesAreOfPrims ==
  item # NoItem =>
    LET d == item.detail
        prims == PrimList(d)
        made == IF item.material.list = <<>> THEN item.ctx ELSE item.material.for
        nodes == PerFace(prims, [i \in DOMAIN prims |-> OwnMaterial(d, made, prims[i])])
        overs == PerFace(prims, [i \in DOMAIN prims |-> prims[i].over])
    IN /\ \A f \in DOMAIN nodes :
            IF item.apart \/ item.ctx.context # None THEN Shown(f) = ObjMatNode(item.ctx)
            ELSE nodes[f] # None => Shown(f) = nodes[f]
       /\ item.apart => item.channels = <<>>
       /\ \A name \in DOMAIN item.channels :
            IF \E f \in DOMAIN overs : name \in DOMAIN overs[f]
            THEN \A f \in DOMAIN overs, c \in 1..3 :
                   item.channels[name].values[item.channels[name].faces[3 * (f - 1) + c]]
                     = (IF name \in DOMAIN overs[f] THEN overs[f][name] ELSE Unset)
            ELSE ChannelIsOfAttr(d, item.channels[name], d.attrs[name])
=============================================================================
