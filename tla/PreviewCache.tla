---------------------------- MODULE PreviewCache ----------------------------
(***************************************************************************)
(* Packed primitives that show a file in the viewport, and the caches of   *)
(* what they show (gu/vfh_gu_base, gu_vrayproxyref, gu_vraysceneref,       *)
(* vfh_gu_cache.h, sop/vfh_vrayproxyutils).  Files change on disk, and     *)
(* primitives are changed, copied and share what is cached.  A frame is in *)
(* ten-thousandths, the keys keep thousandths of it.                       *)
(***************************************************************************)
EXTENDS Integers

CONSTANTS
  Prims,       \* primitives, all of one kind in a behaviour
  Files,       \* file -> [objects, preview]: the objects in it, has it a preview voxel
  Options,     \* what a primitive may ask for: [file, object, lod, frame]
  MaxVersions, \* bound on the versions of a file, the first is the missing one
  MaxSteps     \* bound on the updates, copies and changes of files

OptionsAssumption == \A o \in Options : o.file \in DOMAIN Files /\ o.frame \in Int

AnyObject == "any"

VARIABLES
  kind,       \* "proxy" or "scene"
  options,    \* m_options of the primitives there are
  detail,     \* m_detail
  bounded,    \* m_bbox is that of the detail
  cache,      \* key -> item
  version,    \* of the files on disk, 0 is a missing file
  steps       \* bound counter

previewVars == <<kind, options, detail, bounded, cache, version, steps>>

-----------------------------------------------------------------------------
(* Keys: a hash of the parameters, taken as the parameters. *)

\* Mutant: the key has no object.
KeyOfFile(o) == <<o.file, o.lod, o.frame \div 10>>

\* VRayProxyRefKey::hash() rounds the frame down.
ProxyKey(o) == <<o.file, o.object, o.lod, o.frame \div 10>>

\* getFrameKey() rounds the frame up; SettingsWrapper::getHash() has no level of
\* detail other than the number of preview faces.
SceneKey(o) == <<o.file, o.object, o.lod, -((-o.frame) \div 10)>>

Key(o) == IF kind = "proxy" THEN ProxyKey(o) ELSE SceneKey(o)

-----------------------------------------------------------------------------
(* Building a detail. *)

\* What is shown of the file: a box, or faces of the preview or of the geometry.
\* An object that is not the only one in a file with a preview voxel is cut out of
\* the preview; the only one shows its geometry.  Without a preview voxel nothing
\* tells the objects apart.
Faces(level, objects) == {<<level, o>> : o \in objects}
ProxyFaces(o) ==
  LET file == Files[o.file]
      single == o.object # AnyObject
      cut == single /\ file.preview /\ file.objects # {o.object}
  IN CASE o.lod = "bbox"            -> {<<"box", AnyObject>>}
       [] o.lod # "bbox" /\ cut     -> Faces("preview", {o.object} \cap file.objects)
       [] o.lod # "bbox" /\ ~cut /\ (single \/ o.lod = "full") -> Faces("full", file.objects)
       [] OTHER                     -> IF file.preview THEN Faces("preview", file.objects) ELSE {}

\* VrsceneDescBuilder::build(): all objects of the scene, or the one at the path.
SceneFaces(o) ==
  Faces(o.lod, IF o.object = AnyObject THEN Files[o.file].objects
               ELSE {o.object} \cap Files[o.file].objects)

NoDetail == <<>>
Build(o) ==
  IF version[o.file] = 0 THEN NoDetail
  ELSE <<[faces |-> IF kind = "proxy" THEN ProxyFaces(o) ELSE SceneFaces(o),
          file |-> o.file, frame |-> o.frame, version |-> version[o.file]]>>

\* VRayProxyRef::detailRebuild(): what could not be loaded is cached as well.
\* DetailCachePrototype::getDetail(): an invalid detail is built again.
Cached(o) == Key(o) \in DOMAIN cache /\ (kind = "proxy" \/ cache[Key(o)] # NoDetail)
GetDetail(o) == IF Cached(o) THEN cache[Key(o)] ELSE Build(o)

\* Mutant: a detail that was built is not kept.
NotStored(o) == UNCHANGED cache

Store(o) ==
  cache' = [k \in DOMAIN cache \cup {Key(o)} |-> IF k = Key(o) THEN GetDetail(o) ELSE cache[k]]

\* The bounds of a proxy are cached with its detail; those of a scene are only
\* known where its detail is built.
Bounded(o) == kind = "proxy" \/ ~Cached(o)

-----------------------------------------------------------------------------
(* Primitives. *)

Present == DOMAIN options
With(f, p, value) == [q \in DOMAIN f \cup {p} |-> IF q = p THEN value ELSE f[q]]

Init ==
  /\ kind \in {"proxy", "scene"} /\ version \in [DOMAIN Files -> {0, 1}]
  /\ options = <<>> /\ detail = <<>> /\ bounded = <<>> /\ cache = <<>> /\ steps = 0

\* VRayBaseRef::updateFrom(): nothing happens for the options it has.
Update(p, o) ==
  /\ p \in Present => options[p] # o
  /\ options' = With(options, p, o)
  /\ detail' = With(detail, p, GetDetail(o))
  /\ bounded' = With(bounded, p, Bounded(o))
  /\ Store(o)
  /\ UNCHANGED <<kind, version>>

\* The copy constructor leaves the bounds as they happen to be.
Copy(p, q) ==
  /\ p \in Present /\ q \notin Present
  /\ options' = With(options, q, options[p]) /\ detail' = With(detail, q, detail[p])
  /\ bounded' = With(bounded, q, FALSE)
  /\ UNCHANGED <<kind, cache, version>>

\* A file is written or removed; no one is told.
FileChanges(f) ==
  /\ \E v \in {0, version[f] + 1} : v <= MaxVersions /\ v # version[f] /\ version' = [version EXCEPT ![f] = v]
  /\ UNCHANGED <<kind, options, detail, bounded, cache>>

Next ==
  /\ steps < MaxSteps /\ steps' = steps + 1
  /\ \/ \E p \in Prims : \E o \in Options : Update(p, o)
     \/ \E p, q \in Prims : Copy(p, q)
     \/ \E f \in DOMAIN Files : FileChanges(f)

Spec == Init /\ [][Next]_previewVars

-----------------------------------------------------------------------------
(* What the preview should guarantee. *)

SameFrame(d, o) == d.frame - o.frame \in -9..9

\* What a primitive shows is what its own options ask for, of a version its file
\* has had and of a frame less than a thousandth away, whoever had it built; with
\* a preview voxel or in a scene it has the faces of its object alone.
DetailIsOwn ==
  \A p \in Present : detail[p] # NoDetail =>
    LET d == detail[p][1] o == options[p]
    IN /\ d.file = o.file /\ SameFrame(d, o)
       /\ d.faces = IF kind = "proxy" THEN ProxyFaces(o) ELSE SceneFaces(o)
       /\ (o.object # AnyObject /\ (kind = "scene" \/ Files[o.file].preview)) =>
            \A face \in d.faces : face[2] \in {o.object, AnyObject}

\* Primitives that ask for the same show the same detail, so that they are drawn
\* as instances of it, even when the file changed in between (endCollecting).
EqualsAreInstances ==
  \A p, q \in Present :
    (Key(options[p]) = Key(options[q]) /\ detail[p] # NoDetail /\ detail[q] # NoDetail) =>
       detail[p] = detail[q]

=============================================================================
