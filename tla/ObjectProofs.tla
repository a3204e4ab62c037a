---------------------------- MODULE ObjectProofs ----------------------------
(***************************************************************************)
(* What the exporter of objects guarantees (ObjectExport), for any scene,  *)
(* nesting of objects and details, edits and number of them: volumes are   *)
(* found again by their object, in an IPR session what is shown is of the  *)
(* last version, and the light linker includes what light masks ask for.   *)
(***************************************************************************)
EXTENDS ObjectExport, NaturalsInduction, WellFoundedInduction, FiniteSetTheorems, SequenceTheorems, TLAPS

-----------------------------------------------------------------------------
(* Natural numbers. *)

LEMMA LeastNumber ==
  ASSUME NEW S, S \subseteq Nat, S # {}
  PROVE  \E x \in S : \A y \in S : x <= y
<1> DEFINE R == {pair \in Nat \X Nat : pair[1] < pair[2]}
<1>1. IsWellFoundedOn(R, Nat)
  BY NatLessThanWellFounded DEF OpToRel
<1>2. PICK x \in S : \A y \in S : <<y, x>> \notin R
  BY <1>1, WFMin
<1>3. \A y \in S : ~(y < x)
  BY <1>2
<1> QED BY <1>3

\* Induction, on the set of numbers that a statement is true of.
LEMMA Induction ==
  ASSUME NEW S, 0 \in S, \A n \in Nat : n \in S => n + 1 \in S
  PROVE  Nat \subseteq S
<1> SUFFICES ASSUME Nat \ S # {} PROVE FALSE
  OBVIOUS
<1>1. PICK x \in Nat \ S : \A y \in Nat \ S : x <= y
  <2>1. Nat \ S \subseteq Nat
    OBVIOUS
  <2> QED BY <2>1, LeastNumber
<1>2. x # 0 /\ x - 1 \in Nat
  BY <1>1
<1>3. x - 1 \in S
  BY <1>1, <1>2
<1> QED BY <1>1, <1>2, <1>3

-----------------------------------------------------------------------------
(* The volumes of objects. *)

\* A call is for an object that is in the scene, but for the linker and the flag.
GoodCall(c) ==
  /\ DOMAIN c = {"do", "obj", "detail", "at", "list"}
  /\ c.do \in {"linker", "restore"} \/ c.obj \in Objects
GoodCalls(todo) == \E S : todo \in Seq(S) /\ \A c \in S : GoodCall(c)

VolumeInv ==
  /\ GoodCalls(work)
  /\ alive \subseteq Objects /\ opCache \subseteq Objects
  /\ DOMAIN generated = Objects
  /\ \A n \in DOMAIN plugins : n.kind = "Volume" => n.obj \in Objects /\ n \in generated[n.obj]

LEMMA SetToSeqIsSeq ==
  ASSUME NEW S, IsFiniteSet(S)
  PROVE  SetToSeq(S) \in Seq(S) /\ Range(SetToSeq(S)) \subseteq S
<1>1. Cardinality(S) \in Nat /\ \E f \in [1..Cardinality(S) -> S] : IsInjective(f)
  BY FS_CardinalityType DEF ExistsBijection, Bijection, Injection, IsInjective
<1>2. SetToSeq(S) \in [1..Cardinality(S) -> S]
  BY <1>1 DEF SetToSeq
<1> QED BY <1>1, <1>2 DEF Range

LEMMA MoreCalls ==
  ASSUME GoodCalls(work), work # <<>>, NEW todo, GoodCalls(todo), Goto(todo)
  PROVE  GoodCalls(work)'
<1>1. PICK S : work \in Seq(S) /\ \A c \in S : GoodCall(c)
  BY DEF GoodCalls
<1>2. PICK T : todo \in Seq(T) /\ \A c \in T : GoodCall(c)
  BY DEF GoodCalls
<1>3. Tail(work) \in Seq(S)
  BY <1>1
<1>4. work' \in Seq(S \cup T)
  BY <1>2, <1>3 DEF Goto
<1> QED BY <1>1, <1>2, <1>4 DEF GoodCalls, GoodCall

LEMMA FewCalls ==
  /\ GoodCalls(<<>>)
  /\ \A a : GoodCall(a) => GoodCalls(<<a>>)
  /\ \A a, b : GoodCall(a) /\ GoodCall(b) => GoodCalls(<<a, b>>)
  /\ \A a, b, c : GoodCall(a) /\ GoodCall(b) /\ GoodCall(c) => GoodCalls(<<a, b, c>>)
<1>1. GoodCalls(<<>>)
  <2> DEFINE S == {}
  <2>1. <<>> \in Seq(S) /\ \A c \in S : GoodCall(c)
    OBVIOUS
  <2> HIDE DEF S
  <2> QED BY <2>1 DEF GoodCalls
<1>2. ASSUME NEW a, GoodCall(a) PROVE GoodCalls(<<a>>)
  <2> DEFINE S == {a}
  <2>1. <<a>> \in Seq(S) /\ \A c \in S : GoodCall(c)
    BY <1>2
  <2> HIDE DEF S
  <2> QED BY <2>1 DEF GoodCalls
<1>3. ASSUME NEW a, NEW b, GoodCall(a), GoodCall(b) PROVE GoodCalls(<<a, b>>)
  <2> DEFINE S == {a, b}
  <2>1. <<a, b>> \in Seq(S) /\ \A c \in S : GoodCall(c)
    BY <1>3
  <2> HIDE DEF S
  <2> QED BY <2>1 DEF GoodCalls
<1>4. ASSUME NEW a, NEW b, NEW c, GoodCall(a), GoodCall(b), GoodCall(c)
      PROVE  GoodCalls(<<a, b, c>>)
  <2> DEFINE S == {a, b, c}
  <2>1. <<a, b, c>> \in Seq(S) /\ \A e \in S : GoodCall(e)
    BY <1>4
  <2> HIDE DEF S
  <2> QED BY <2>1 DEF GoodCalls
<1> QED BY <1>1, <1>2, <1>3, <1>4

LEMMA CallIsGood ==
  /\ \A do, o, d, i : o \in Objects \/ do \in {"linker", "restore"} => GoodCall(Call(do, o, d, i))
  /\ \A do, o, d, i : Call(do, o, d, i).do = do
BY DEF Call, GoodCall

LEMMA HeadIsGood ==
  ASSUME GoodCalls(work), work # <<>> PROVE GoodCall(Head(work))
BY DEF GoodCalls

\* Calls for objects, and one more at their end.
LEMMA ObjectCallsGood ==
  ASSUME NEW objs \in Seq(Objects)
  PROVE  /\ GoodCalls(ObjectCalls(objs))
         /\ \A c : GoodCall(c) => GoodCalls(Append(ObjectCalls(objs), c))
<1> DEFINE S == {Call("object", o, None, 0) : o \in Objects}
<1>1. ObjectCalls(objs) \in Seq(S)
  BY DEF ObjectCalls
<1>2. \A c \in S : GoodCall(c)
  BY CallIsGood
<1>3. ASSUME NEW c, GoodCall(c) PROVE GoodCalls(Append(ObjectCalls(objs), c))
  <2>1. Append(ObjectCalls(objs), c) \in Seq(S \cup {c})
    BY <1>1
  <2> HIDE DEF S
  <2> QED BY <1>2, <1>3, <2>1 DEF GoodCalls
<1> HIDE DEF S
<1> QED BY <1>1, <1>2, <1>3 DEF GoodCalls

LEMMA VolumeInit == Init => VolumeInv
<1> SUFFICES ASSUME Init PROVE VolumeInv
  OBVIOUS
<1>1. GoodCalls(work)
  BY FewCalls DEF Init
<1> QED BY <1>1 DEF Init, VolumeInv, NoGenerated

\* A step that makes no volume and gives up none.
LEMMA VolumeKeep ==
  ASSUME VolumeInv, GoodCalls(work)', alive' \subseteq alive, opCache' \subseteq opCache,
         generated' = generated,
         \A n \in DOMAIN plugins' : n.kind = "Volume" => n \in DOMAIN plugins
  PROVE  VolumeInv'
BY DEF VolumeInv, Objects, Geometry

\* A call that makes no volume goes on with good calls.
LEMMA VolumeCall ==
  ASSUME VolumeInv, work # <<>>, NEW todo, GoodCall(Head(work)) => GoodCalls(todo),
         Goto(todo), alive' = alive, opCache' = opCache, generated' = generated,
         \A n \in DOMAIN plugins' : n.kind = "Volume" => n \in DOMAIN plugins
  PROVE  VolumeInv'
BY HeadIsGood, MoreCalls, VolumeKeep DEF VolumeInv

LEMMA PutIsNoVolume ==
  ASSUME NEW table, NEW name, NEW value, name.kind # "Volume"
  PROVE  \A n \in DOMAIN Put(table, name, value) : n.kind = "Volume" => n \in DOMAIN table
BY DEF Put

\* What an update or a deletion drops is in the list of the object, which is empty
\* after.
LEMMA VolumeClear ==
  ASSUME VolumeInv, GoodCalls(work)', alive' = alive, opCache' \subseteq opCache,
         NEW o \in Objects \cup {None}, ClearPrims(o)
  PROVE  VolumeInv'
<1>1. CASE o \in Objects
  <2>1. /\ generated' = [generated EXCEPT ![o] = {}]
        /\ DOMAIN plugins' = DOMAIN plugins \ generated[o]
    BY <1>1 DEF ClearPrims, Drop
  <2> QED BY <1>1, <2>1 DEF VolumeInv, Objects, Geometry
<1>2. CASE o \notin Objects
  BY <1>2, VolumeKeep DEF ClearPrims
<1> QED BY <1>1, <1>2

LEMMA VolumeExport == VolumeInv /\ ExportVolume => VolumeInv'
<1> SUFFICES ASSUME VolumeInv, ExportVolume PROVE VolumeInv'
  OBVIOUS
<1> DEFINE o == Caller.obj
<1>1. PICK name : /\ name.kind = "Volume" /\ name.obj = o
                  /\ plugins' = Put(plugins, name, From(Caller.detail))
                  /\ generated' = [generated EXCEPT ![o] = @ \cup {name}]
  <2>1. \A key : Plugin("Volume", key, o).kind = "Volume" /\ Plugin("Volume", key, o).obj = o
    BY DEF Plugin
  <2> QED BY <2>1 DEF ExportVolume
<1>2. work # <<>> /\ GoodCall(Caller) /\ Caller.do = "prim"
  BY HeadIsGood DEF ExportVolume, PrimIs, Calls, Caller, VolumeInv
<1>3. o \in Objects
  BY <1>2 DEF GoodCall
<1>4. GoodCall(NextPrim)
  BY <1>2 DEF GoodCall, NextPrim
<1>5. GoodCalls(work)'
  BY <1>2, <1>4, FewCalls, MoreCalls DEF ExportVolume, VolumeInv
<1>6. alive' = alive /\ opCache' = opCache
  BY DEF ExportVolume, scene
<1>7. DOMAIN plugins' = DOMAIN plugins \cup {name}
  BY <1>1 DEF Put
<1> QED BY <1>1, <1>3, <1>5, <1>6, <1>7 DEF VolumeInv, Objects, Geometry

\* Calls that say nothing of volumes, by what they call and what they export.
LEMMA VolumeLight == VolumeInv /\ ExportLight => VolumeInv'
<1> SUFFICES ASSUME VolumeInv, ExportLight PROVE VolumeInv'
  OBVIOUS
<1>1. PICK name : name.kind # "Volume" /\ plugins' = Put(plugins, name, Of(<<>>))
  <2>1. \A key, o : Plugin("Light", key, o).kind # "Volume"
    BY DEF Plugin
  <2> QED BY <2>1 DEF ExportLight
<1> QED
  BY <1>1, FewCalls, PutIsNoVolume, VolumeCall DEF ExportLight, Calls, scene

LEMMA NodeCallsGood ==
  ASSUME NEW o \in Objects, NEW c, GoodCall(c)
  PROVE  GoodCalls(Append(NodeCalls(o), c))
<1>1. PICK a, b, d : /\ NodeCalls(o) = <<a, b, d>> /\ GoodCall(a) /\ GoodCall(b) /\ GoodCall(d)
  BY CallIsGood DEF NodeCalls
<1> DEFINE S == {a, b, d, c}
<1>2. Append(NodeCalls(o), c) \in Seq(S) /\ \A e \in S : GoodCall(e)
  BY <1>1
<1> HIDE DEF S
<1> QED BY <1>2 DEF GoodCalls

LEMMA VolumeObject == VolumeInv /\ (ExportCached \/ ExportNew) => VolumeInv'
<1> SUFFICES ASSUME VolumeInv, ExportCached \/ ExportNew PROVE VolumeInv'
  OBVIOUS
<1>1. Caller.obj \in Objects /\ work # <<>>
  BY DEF ExportCached, ExportNew, Calls, VolumeInv, Objects
<1>2. PICK c : GoodCall(c) /\ Goto(Append(NodeCalls(Caller.obj), c))
  BY <1>1, CallIsGood DEF ExportCached, ExportNew
<1>3. UNCHANGED <<alive, opCache, generated, plugins>>
  BY DEF ExportCached, ExportNew, scene, caches
<1> QED BY <1>1, <1>2, <1>3, NodeCallsGood, VolumeCall

LEMMA VolumeReturn ==
  VolumeInv /\ (ExportNothing \/ ModeFull \/ Pop \/ RestoreGeometry) => VolumeInv'
<1> SUFFICES ASSUME VolumeInv, ExportNothing \/ ModeFull \/ Pop \/ RestoreGeometry PROVE VolumeInv'
  OBVIOUS
<1>1. work # <<>> /\ Goto(<<>>) /\ UNCHANGED <<alive, opCache, generated, plugins>>
  BY DEF ExportNothing, ModeFull, Pop, RestoreGeometry, Calls, scene, caches
<1> QED BY <1>1, FewCalls, VolumeCall

LEMMA VolumeCache == VolumeInv /\ CacheNode => VolumeInv'
<1> SUFFICES ASSUME VolumeInv, CacheNode PROVE VolumeInv'
  OBVIOUS
<1>1. work # <<>> /\ Goto(<<>>) /\ UNCHANGED <<alive, generated, plugins>>
  BY DEF CacheNode, Calls, scene
<1>2. GoodCall(Caller) /\ Caller.do = "cache"
  BY HeadIsGood DEF CacheNode, Calls, Caller, VolumeInv
<1>3. opCache' \subseteq Objects
  BY <1>2 DEF CacheNode, VolumeInv, GoodCall
<1>4. GoodCalls(work)'
  BY <1>1, FewCalls, MoreCalls DEF VolumeInv
<1> QED BY <1>1, <1>3, <1>4 DEF VolumeInv, Objects, Geometry

\* A call goes on with calls of the same object.
LEMMA CallerIsGood ==
  ASSUME VolumeInv, work # <<>>, Caller.do \notin {"linker", "restore"}
  PROVE  GoodCall(Caller) /\ Caller.obj \in Objects
BY HeadIsGood DEF Caller, GoodCall, VolumeInv

LEMMA VolumeGeometry == VolumeInv /\ ExportGeometry => VolumeInv'
<1> SUFFICES ASSUME VolumeInv, ExportGeometry PROVE VolumeInv'
  OBVIOUS
<1>1. work # <<>> /\ UNCHANGED <<alive, opCache, generated, plugins>>
  BY DEF ExportGeometry, Calls, scene, caches
<1>2. GoodCall(Caller) /\ Caller.obj \in Objects
  BY <1>1, CallerIsGood DEF ExportGeometry, Calls, Caller
<1>3. PICK todo : GoodCalls(todo) /\ Goto(todo)
  BY <1>2, FewCalls, CallIsGood DEF ExportGeometry
<1> QED BY <1>1, <1>3, VolumeCall

LEMMA VolumePoint == VolumeInv /\ ExportPoint => VolumeInv'
<1> SUFFICES ASSUME VolumeInv, ExportPoint PROVE VolumeInv'
  OBVIOUS
<1>1. work # <<>> /\ UNCHANGED <<alive, opCache, generated, plugins>>
  BY DEF ExportPoint, Calls, scene, caches
<1>2. GoodCall(Caller) /\ Caller.obj \in Objects /\ Caller.do = "point"
  BY <1>1, CallerIsGood DEF ExportPoint, Calls, Caller
<1> DEFINE next == [Caller EXCEPT !.at = Caller.at + 1]
<1>3. GoodCall(next) /\ GoodCall([next EXCEPT !.do = "pointend"])
  BY <1>2 DEF GoodCall
<1>4. \A o \in alive : GoodCall(Call("object", o, None, 0))
  BY CallIsGood DEF VolumeInv
<1>5. PICK todo : GoodCalls(todo) /\ Goto(todo)
  BY <1>3, <1>4, FewCalls DEF ExportPoint
<1> QED BY <1>1, <1>5, VolumeCall

LEMMA VolumePointEnd == VolumeInv /\ PointEnd => VolumeInv'
<1> SUFFICES ASSUME VolumeInv, PointEnd PROVE VolumeInv'
  OBVIOUS
<1>1. work # <<>> /\ UNCHANGED <<alive, opCache, generated, plugins>>
  BY DEF PointEnd, Calls, scene, caches
<1>2. GoodCall(Caller) /\ Caller.obj \in Objects
  BY <1>1, CallerIsGood DEF PointEnd, Calls, Caller
<1>3. \A list : GoodCall([Caller EXCEPT !.do = "point", !.list = list])
  BY <1>2 DEF GoodCall
<1>4. PICK list : Goto(<<[Caller EXCEPT !.do = "point", !.list = list]>>)
  BY DEF PointEnd
<1> QED BY <1>1, <1>3, <1>4, FewCalls, VolumeCall

LEMMA VolumeDetail == VolumeInv /\ ExportDetail => VolumeInv'
<1> SUFFICES ASSUME VolumeInv, ExportDetail PROVE VolumeInv'
  OBVIOUS
<1>1. work # <<>> /\ UNCHANGED <<alive, opCache, generated>>
  BY DEF ExportDetail, Calls, scene
<1>2. GoodCall(Caller) /\ Caller.obj \in Objects
  BY <1>1, CallerIsGood DEF ExportDetail, Calls, Caller
<1>3. PICK todo : GoodCalls(todo) /\ Goto(todo)
  BY <1>2, FewCalls, CallIsGood DEF ExportDetail
<1>4. PICK name : /\ name.kind # "Volume"
                  /\ \/ plugins' = plugins
                     \/ \E value : plugins' = Put(plugins, name, value)
  <2>1. \A o : ParticlesOf(o).kind # "Volume"
    BY DEF Plugin, ParticlesOf
  <2>2. \/ plugins' = plugins
        \/ plugins' = Put(plugins, ParticlesOf(Caller.obj), From(Caller.detail))
    BY DEF ExportDetail, ExportParticles
  <2> QED BY <2>1, <2>2
<1> QED BY <1>1, <1>3, <1>4, PutIsNoVolume, VolumeCall

LEMMA VolumePrim ==
  VolumeInv /\ (SkipMeshPrim \/ ExportPrim \/ ExportVRayScene \/ ExportPacked) => VolumeInv'
<1> SUFFICES ASSUME VolumeInv, SkipMeshPrim \/ ExportPrim \/ ExportVRayScene \/ ExportPacked
             PROVE  VolumeInv'
  OBVIOUS
<1>1. work # <<>> /\ Caller.do = "prim" /\ UNCHANGED <<alive, opCache, generated>>
  BY DEF SkipMeshPrim, ExportPrim, ExportVRayScene, ExportPacked, PrimIs, Calls, Caller, scene, caches
<1>2. GoodCall(Caller) /\ Caller.obj \in Objects
  BY <1>1, CallerIsGood
<1>3. GoodCall(NextPrim)
  BY <1>2 DEF GoodCall, NextPrim
<1>4. PICK todo : GoodCalls(todo) /\ Goto(todo)
  BY <1>2, <1>3, FewCalls, CallIsGood DEF SkipMeshPrim, ExportPrim, ExportVRayScene, ExportPacked
<1>5. \A n \in DOMAIN plugins' : n.kind = "Volume" => n \in DOMAIN plugins
  <2>1. \A kind, key, o : Plugin(kind, key, o).kind = kind
    BY DEF Plugin
  <2>2. CASE SkipMeshPrim \/ ExportPacked
    BY <2>2 DEF SkipMeshPrim, ExportPacked
  <2>3. CASE ExportPrim
    <3> DEFINE name == Plugin(ThisPrim.kind,
                              IF ThisPrim.kind = "proxy" THEN FileID(ThisPrim.file) ELSE {},
                              IF ThisPrim.kind = "sphere" THEN Caller.obj ELSE None)
    <3>1. name.kind # "Volume"
      BY <2>1, <2>3 DEF ExportPrim, PrimIs
    <3>2. plugins' \in {plugins, Put(plugins, name, Of(<<>>))}
      BY <2>3 DEF ExportPrim
    <3> HIDE DEF name
    <3> QED BY <3>1, <3>2, PutIsNoVolume
  <2>4. CASE ExportVRayScene
    <3>1. PICK name : /\ name.kind # "Volume"
                      /\ plugins' \in {plugins, Put(plugins, name, Of(<<>>))}
      BY <2>1, <2>4 DEF ExportVRayScene
    <3> QED BY <3>1, PutIsNoVolume
  <2> QED BY <2>2, <2>3, <2>4
<1> QED BY <1>1, <1>4, <1>5, VolumeCall

LEMMA VolumeMeshes == VolumeInv /\ ExportMeshes => VolumeInv'
<1> SUFFICES ASSUME VolumeInv, ExportMeshes PROVE VolumeInv'
  OBVIOUS
<1>1. work # <<>> /\ Goto(<<>>) /\ UNCHANGED <<alive, opCache, generated>>
  BY DEF ExportMeshes, Calls, scene
<1>2. PICK kinds : /\ kinds \subseteq {"mesh", "hair"}
                   /\ DOMAIN plugins' = DOMAIN plugins \cup
                        {Plugin(kind, DetailID(Caller.detail), Caller.obj) : kind \in kinds}
  BY DEF ExportMeshes
<1>3. \A n \in DOMAIN plugins' : n.kind = "Volume" => n \in DOMAIN plugins
  BY <1>2 DEF Plugin
<1> QED BY <1>1, <1>3, FewCalls, VolumeCall

LEMMA VolumeInstancer == VolumeInv /\ ExportInstancer => VolumeInv'
<1> SUFFICES ASSUME VolumeInv, ExportInstancer PROVE VolumeInv'
  OBVIOUS
<1>1. work # <<>> /\ Goto(<<>>) /\ UNCHANGED <<alive, opCache, generated>>
  BY DEF ExportInstancer, Calls, scene
<1>2. CASE items = <<>>
  BY <1>1, <1>2, FewCalls, VolumeCall DEF ExportInstancer
<1>3. CASE items # <<>>
  <2>1. PICK raw : DOMAIN plugins' = (DOMAIN plugins \cup {Plugin("Node", {g}, None) : g \in raw})
                                        \cup {InstancerOf(Caller.obj)}
    BY <1>3 DEF ExportInstancer, Put
  <2>2. \A n \in DOMAIN plugins' : n.kind = "Volume" => n \in DOMAIN plugins
    BY <2>1 DEF Plugin, InstancerOf
  <2> QED BY <1>1, <2>2, FewCalls, VolumeCall
<1> QED BY <1>2, <1>3

LEMMA VolumeNode == VolumeInv /\ (ExportNode \/ ExportLightLinker) => VolumeInv'
<1> SUFFICES ASSUME VolumeInv, ExportNode \/ ExportLightLinker PROVE VolumeInv'
  OBVIOUS
<1>1. work # <<>> /\ Goto(<<>>) /\ UNCHANGED <<alive, opCache, generated>>
  BY DEF ExportNode, ExportLightLinker, Calls, scene, caches
<1>2. PICK name : /\ name.kind # "Volume"
                  /\ \/ plugins' = plugins
                     \/ \E value : plugins' = Put(plugins, name, value)
  <2>1. NodeOf(Caller.obj).kind # "Volume" /\ LightLinker.kind # "Volume"
    BY DEF NodeOf, LightLinker, Plugin
  <2> QED BY <2>1 DEF ExportNode, ExportLightLinker
<1> QED BY <1>1, <1>2, FewCalls, PutIsNoVolume, VolumeCall

LEMMA VolumeScene == VolumeInv /\ ExportScene => VolumeInv'
<1> SUFFICES ASSUME VolumeInv, ExportScene PROVE VolumeInv'
  OBVIOUS
<1>1. Bundle \o SetToSeq(Lights) \in Seq(Objects)
  <2>1. Bundle \in Seq(Geometry) /\ Geometry \subseteq Objects
    BY SceneAssumption DEF Geometry, Objects
  <2>2. SetToSeq(Lights) \in Seq(Lights) /\ Lights \subseteq Objects
    BY SceneAssumption, SetToSeqIsSeq DEF Objects
  <2> HIDE DEF Geometry, Objects
  <2> QED BY <2>1, <2>2
<1>2. GoodCalls(work)'
  <2>1. GoodCall(Call("linker", None, None, 0))
    BY CallIsGood
  <2>2. GoodCalls(Append(ObjectCalls(Bundle \o SetToSeq(Lights)), Call("linker", None, None, 0)))
    BY <1>1, <2>1, ObjectCallsGood
  <2> QED BY <2>2 DEF ExportScene, GoodCalls, GoodCall, Objects, Geometry
<1> QED BY <1>2, VolumeKeep DEF ExportScene, caches, modes

LEMMA VolumeUser ==
  VolumeInv /\ (\/ \E d \in Details : EditGeometry(d)
                \/ \E o \in Objects : EditObject(o) \/ DeleteObject(o)) => VolumeInv'
<1> SUFFICES ASSUME VolumeInv, \/ \E d \in Details : EditGeometry(d)
                               \/ \E o \in Objects : EditObject(o) \/ DeleteObject(o)
             PROVE  VolumeInv'
  OBVIOUS
<1>1. GoodCalls(work)'
  <2>1. work' = work
    BY DEF EditGeometry, EditObject, DeleteObject
  <2> QED BY <2>1 DEF VolumeInv, GoodCalls, GoodCall, Objects, Geometry
<1>2. CASE \/ \E d \in Details : EditGeometry(d)
           \/ \E o \in Objects : EditObject(o)
  <2>1. UNCHANGED <<alive, opCache, generated, plugins>>
    BY <1>2 DEF EditGeometry, EditObject, caches
  <2> QED BY <1>1, <2>1, VolumeKeep
<1>3. ASSUME NEW o \in Objects, DeleteObject(o) PROVE VolumeInv'
  <2>1. alive' \subseteq alive
    BY <1>3 DEF DeleteObject
  <2>2. CASE session = "ipr" \/ o \in Lights
    BY <1>1, <1>3, <2>1, <2>2, VolumeKeep DEF DeleteObject
  <2>3. CASE ~(session = "ipr" \/ o \in Lights)
    <3>1. /\ DOMAIN plugins' \subseteq DOMAIN plugins \ generated[o]
          /\ generated' = [generated EXCEPT ![o] = {}] /\ opCache' \subseteq opCache
      BY <1>3, <2>3 DEF DeleteObject, Drop
    <3> QED BY <1>1, <2>1, <3>1 DEF VolumeInv, Objects, Geometry
  <2> QED BY <2>2, <2>3
<1> QED BY <1>2, <1>3

\* An event clears the lists and calls for its object.
LEMMA VolumeEvents == VolumeInv /\ Events => VolumeInv'
<1> SUFFICES ASSUME VolumeInv, NEW o \in Objects, NEW kind,
                    \/ IprUpdate(kind, o) \/ RtObjectChanged(kind, o) \/ RtLightChanged(kind, o)
                    \/ RtGeometryChanged(o)
             PROVE  VolumeInv'
  BY DEF Events
<1>1. alive' = alive /\ opCache' \subseteq opCache
  BY DEF IprUpdate, RtObjectChanged, RtLightChanged, RtGeometryChanged, Deliver
<1>2. ClearPrims(o) \/ ClearPrims(None)
  BY DEF IprUpdate, RtObjectChanged, RtLightChanged, RtGeometryChanged
<1>3. GoodCalls(work)'
  <2>1. <<o>> \in Seq(Objects)
    OBVIOUS
  <2>2. GoodCalls(ObjectCalls(<<o>>))
        /\ GoodCalls(Append(ObjectCalls(<<o>>), Call("restore", None, None, 0)))
    BY <2>1, ObjectCallsGood, CallIsGood
  <2>3. \/ work' = ObjectCalls(<<o>>)
        \/ work' = Append(ObjectCalls(<<o>>), Call("restore", None, None, 0))
    BY DEF IprUpdate, RtObjectChanged, RtLightChanged, RtGeometryChanged
  <2> QED BY <2>2, <2>3 DEF GoodCalls, GoodCall, Objects, Geometry
<1> QED BY <1>1, <1>2, <1>3, VolumeClear

LEMMA VolumeStep == VolumeInv /\ [Next]_vars => VolumeInv'
<1> SUFFICES ASSUME VolumeInv, [Next]_vars PROVE VolumeInv'
  OBVIOUS
<1>1. CASE ExportStep
  BY <1>1, VolumeLight, VolumeObject, VolumeReturn, VolumeCache, VolumeGeometry, VolumePoint,
     VolumePointEnd, VolumeDetail, VolumeExport, VolumePrim, VolumeMeshes, VolumeInstancer,
     VolumeNode DEF ExportStep
<1>2. CASE User
  BY <1>2, VolumeUser DEF User
<1>3. CASE UNCHANGED vars
  <2>1. UNCHANGED <<work, alive, opCache, generated, plugins>>
    BY <1>3 DEF vars, scene, caches
  <2>2. GoodCalls(work)'
    BY <2>1 DEF VolumeInv, GoodCalls, GoodCall, Objects, Geometry
  <2> QED BY <2>1, <2>2, VolumeKeep
<1> QED BY <1>1, <1>2, <1>3, VolumeScene, VolumeEvents DEF Next

\* Every volume in the renderer is in the list of its object, by which the next update
\* or the deletion of the object finds it.
THEOREM VolumesAreTracked == Spec => []VolumesTracked
<1>1. VolumeInv => VolumesTracked
  BY DEF VolumeInv, VolumesTracked
<1> QED BY <1>1, VolumeInit, VolumeStep, PTL DEF Spec


-----------------------------------------------------------------------------
(* Objects of an IPR session are current: details and what is packed in them. *)

\* The details in a detail are the detail and those in the ones packed in it.
Closed(S) ==
  \A a \in S : \A p \in Range(Contents[a].prims) : p.kind = "packed" => p.inner \in S

LEMMA WithinIs ==
  ASSUME NEW d \in Details
  PROVE  /\ d \in Within[d]
         /\ \A p \in Range(Contents[d].prims) : p.kind = "packed" => Within[p.inner] \subseteq Within[d]
         /\ \A s \in Within[d] \ {d} :
              \E p \in Range(Contents[d].prims) : p.kind = "packed" /\ s \in Within[p.inner]
<1> DEFINE Packed(a) == {q \in Range(Contents[a].prims) : q.kind = "packed"}
           Reached(a) == {e \in Details : \A S \in SUBSET Details : a \in S /\ Closed(S) => e \in S}
           f == [a \in Details |-> Reached(a)]
           Around(a) == {a} \cup UNION {f[p.inner] : p \in Packed(a)}
<1>1. \A a \in Details : \A p \in Packed(a) : p.inner \in Details
  BY SceneAssumption
<1>2. ASSUME NEW a \in Details PROVE Reached(a) = Around(a)
  <2>1. ASSUME NEW e \in Around(a) PROVE e \in Reached(a)
    <3>1. CASE e = a
      BY <3>1
    <3>2. ASSUME NEW p \in Packed(a), e \in f[p.inner] PROVE e \in Reached(a)
      <4>1. e \in Reached(p.inner)
        BY <1>1, <3>2
      <4>2. \A S \in SUBSET Details : a \in S /\ Closed(S) => p.inner \in S
        BY DEF Closed
      <4> QED BY <4>1, <4>2
    <3> QED BY <3>1, <3>2
  <2>2. Closed(Around(a))
    <3> SUFFICES ASSUME NEW b \in Around(a), NEW q \in Packed(b) PROVE q.inner \in Around(a)
      BY DEF Closed
    <3>1. CASE b = a
      <4>1. q \in Packed(a) /\ q.inner \in Details
        BY <1>1, <3>1
      <4>2. q.inner \in Reached(q.inner)
        BY <4>1
      <4> QED BY <4>1, <4>2
    <3>2. ASSUME NEW p \in Packed(a), b \in f[p.inner] PROVE q.inner \in Around(a)
      <4>1. b \in Reached(p.inner) /\ b \in Details
        BY <1>1, <3>2
      <4>2. q.inner \in Details
        BY <4>1, <1>1
      <4>3. \A S \in SUBSET Details : b \in S /\ Closed(S) => q.inner \in S
        BY DEF Closed
      <4>4. q.inner \in Reached(p.inner)
        BY <4>1, <4>2, <4>3
      <4> QED BY <1>1, <4>4
    <3> QED BY <3>1, <3>2
  <2>3. Around(a) \subseteq Details /\ a \in Around(a)
    BY <1>1
  <2>4. Reached(a) \subseteq Around(a)
    BY <2>2, <2>3
  <2> QED BY <2>1, <2>4
<1>3. f = [a \in Details |-> {a} \cup UNION {f[p.inner] : p \in {q \in Range(Contents[a].prims) : q.kind = "packed"}}]
  <2>1. \A a \in Details : f[a] = Around(a)
    BY <1>2
  <2>2. f = [a \in Details |-> Around(a)]
    BY <2>1
  <2> QED BY <2>2
<1> HIDE DEF f
<1>4. Within = [a \in Details |-> {a} \cup UNION {Within[p.inner] : p \in {q \in Range(Contents[a].prims) : q.kind = "packed"}}]
  BY <1>3 DEF Within
<1>5. ASSUME NEW a \in Details
      PROVE  Within[a] = {a} \cup UNION {Within[p.inner] : p \in {q \in Range(Contents[a].prims) : q.kind = "packed"}}
  BY <1>4
<1> QED BY <1>5

\* An object that shows a geometry instead of instancing objects.
Leaf(o) == o \in Geometry /\ Root[o] # None /\ Contents[Root[o]].points = <<>>

-----------------------------------------------------------------------------
(* The stack of calls, and the depth of the context that each is made in. *)

Sourced == {"mesh", "hair", "Volume"}
CallOk(c) ==
  /\ DOMAIN c = {"do", "obj", "detail", "at", "list"}
  /\ c.do \notin {"object", "linker"} => c.obj \in Geometry
  /\ c.do \in {"geometry", "point", "pointend"} => c.detail = Root[c.obj] /\ c.detail \in Details
  /\ c.do \in {"point", "pointend"} =>
       /\ Contents[c.detail].points # <<>> /\ c.at \in Nat \ {0}
       /\ \E S : c.list \in Seq(S) /\ \A g \in S : g.kind \notin Sourced
  /\ c.do \in {"detail", "prim"} =>
       Leaf(c.obj) /\ c.detail \in Details /\ Within[c.detail] \subseteq Within[Root[c.obj]]
  /\ c.do = "prim" => c.at \in Nat \ {0} /\ RenderPoints[c.obj] # "all"
  /\ c.do # "restore"

\* What is called after a call, for the same object.
Chain == {"geometry", "point", "pointend", "detail", "prim", "pop", "instancer", "node"}
Follows(c, d) ==
  /\ c.obj = d.obj
  /\ c.do = "geometry" => d.do = "instancer"
  /\ c.do \in {"point", "pointend", "detail", "prim"} => d.do = "pop"
  /\ c.do = "pop" => d.do \in {"prim", "instancer"}
  /\ c.do = "instancer" => d.do = "node"
  /\ c.do = "node" => d.do \in {"cache", "full"}

\* The level that a call is in, and those it leaves at its end.
Closes(c) == IF c.do \in {"pop", "prim", "pointend"} THEN 1 ELSE 0
Depths(f, w, levels) ==
  /\ f \in [1 .. Len(w) + 1 -> Nat] /\ f[1] = Len(levels) /\ f[Len(w) + 1] = 0
  /\ \A k \in 1 .. Len(w) : f[k + 1] = f[k] - Closes(w[k])
  /\ \A i, j \in 1 .. Len(w) + 1 : i <= j => f[j] <= f[i]
IsSeq(seq) == \E S : seq \in Seq(S)
CallsOk(w) ==
  /\ IsSeq(w)
  /\ \A k \in 1 .. Len(w) :
       /\ CallOk(w[k])
       /\ w[k].do \in Chain => k < Len(w) /\ Follows(w[k], w[k + 1])
       /\ w[k].do = "linker" => k = Len(w)
Stack(w, levels) ==
  CallsOk(w) /\ IsSeq(levels) /\ \E f : Depths(f, w, levels)

LEMMA SeqFacts ==
  ASSUME NEW w, IsSeq(w)
  PROVE  /\ Len(w) \in Nat
         /\ w # <<>> => /\ IsSeq(Tail(w)) /\ Len(w) >= 1 /\ Len(Tail(w)) = Len(w) - 1
                        /\ Head(w) = w[1] /\ \A k \in 1 .. Len(w) - 1 : Tail(w)[k] = w[k + 1]
         /\ \A c : /\ IsSeq(<<c>> \o w) /\ Len(<<c>> \o w) = Len(w) + 1
                   /\ (<<c>> \o w)[1] = c
                   /\ \A k \in 1 .. Len(w) : (<<c>> \o w)[k + 1] = w[k]
                   /\ Head(<<c>> \o w) = c /\ Tail(<<c>> \o w) = w /\ <<c>> \o w # <<>>
<1>1. PICK S : w \in Seq(S)
  BY DEF IsSeq
<1>2. Len(w) \in Nat
  BY <1>1
<1>3. ASSUME w # <<>>
      PROVE  /\ IsSeq(Tail(w)) /\ Len(w) >= 1 /\ Len(Tail(w)) = Len(w) - 1
             /\ Head(w) = w[1] /\ \A k \in 1 .. Len(w) - 1 : Tail(w)[k] = w[k + 1]
  BY <1>1, <1>3 DEF IsSeq
<1>4. ASSUME NEW c
      PROVE  /\ IsSeq(<<c>> \o w) /\ Len(<<c>> \o w) = Len(w) + 1
             /\ (<<c>> \o w)[1] = c
             /\ \A k \in 1 .. Len(w) : (<<c>> \o w)[k + 1] = w[k]
             /\ Head(<<c>> \o w) = c /\ Tail(<<c>> \o w) = w /\ <<c>> \o w # <<>>
  <2> DEFINE T == S \cup {c}
             more == <<c>> \o w
  <2>1. w \in Seq(T) /\ <<c>> \in Seq(T) /\ c \in T
    BY <1>1
  <2> HIDE DEF T
  <2>2. more \in Seq(T) /\ Len(more) = Len(w) + 1 /\ more[1] = c
        /\ \A k \in 1 .. Len(w) : more[k + 1] = w[k]
    BY <2>1
  <2>3. Head(more) = c /\ Tail(more) = w
    BY <2>1
  <2>4. more # <<>>
    BY <2>2, <1>2
  <2> HIDE DEF more
  <2>5. IsSeq(more)
    BY <2>2 DEF IsSeq
  <2> QED BY <2>2, <2>3, <2>4, <2>5 DEF more
<1> QED BY <1>2, <1>3, <1>4

LEMMA LevelFacts ==
  ASSUME NEW levels, IsSeq(levels)
  PROVE  /\ Len(levels) \in Nat
         /\ Len(levels) > 0 => IsSeq(Front(levels)) /\ Len(Front(levels)) = Len(levels) - 1
         /\ \A l : LET more == Append(levels, l)
                   IN IsSeq(more) /\ Len(more) = Len(levels) + 1 /\ Front(more) = levels
<1>1. PICK S : levels \in Seq(S)
  BY DEF IsSeq
<1>2. Len(levels) \in Nat /\ SubSeq(levels, 1, Len(levels)) = levels
  BY <1>1
<1>3. ASSUME Len(levels) > 0
      PROVE  IsSeq(Front(levels)) /\ Len(Front(levels)) = Len(levels) - 1
  <2>1. Front(levels) = SubSeq(levels, 1, Len(levels) - 1)
    BY DEF Front
  <2>2. Front(levels) \in Seq(S) /\ Len(Front(levels)) = Len(levels) - 1
    BY <1>1, <1>2, <1>3, <2>1
  <2> QED BY <2>2 DEF IsSeq
<1>4. ASSUME NEW l
      PROVE  LET more == Append(levels, l)
             IN IsSeq(more) /\ Len(more) = Len(levels) + 1 /\ Front(more) = levels
  <2> DEFINE T == S \cup {l}
             more == Append(levels, l)
  <2>1. levels \in Seq(T) /\ l \in T
    BY <1>1
  <2> HIDE DEF T
  <2>2. more \in Seq(T) /\ Len(more) = Len(levels) + 1
    BY <2>1
  <2>3. \A m \in 0 .. Len(levels) : SubSeq(more, 1, m) = SubSeq(levels, 1, m)
    BY <2>1, <1>2
  <2>4. Front(more) = levels
    BY <2>2, <2>3, <1>2 DEF Front
  <2> HIDE DEF more
  <2>5. IsSeq(more)
    BY <2>2 DEF IsSeq
  <2> QED BY <2>2, <2>3, <2>4, <2>5 DEF more
<1> QED BY <1>2, <1>3, <1>4

LEMMA FrontAndLast ==
  ASSUME NEW levels, IsSeq(levels), Len(levels) > 0
  PROVE  \E l : levels = Append(Front(levels), l)
<1>1. PICK S : levels \in Seq(S)
  BY DEF IsSeq
<1> DEFINE n == Len(levels)
<1>2. n \in Nat /\ n >= 1 /\ levels[n] \in S /\ Front(levels) = SubSeq(levels, 1, n - 1)
  BY <1>1 DEF Front
<1>3. Append(SubSeq(levels, 1, n - 1), levels[n]) = levels
  BY <1>1, <1>2
<1> QED BY <1>2, <1>3

\* A call that is over, and one that is made.
LEMMA StackPop ==
  ASSUME NEW w, NEW levels, Stack(w, levels), w # <<>>
  PROVE  LET c == Head(w)
         IN /\ CallOk(c)
            /\ c.do \in Chain => Tail(w) # <<>> /\ Follows(c, Head(Tail(w)))
            /\ c.do = "linker" => Tail(w) = <<>>
            /\ Closes(c) = 1 => Len(levels) > 0
            /\ Stack(Tail(w), IF Closes(c) = 1 THEN Front(levels) ELSE levels)
<1> DEFINE c == Head(w)
           t == Tail(w)
           n == Len(w)
           less == IF Closes(c) = 1 THEN Front(levels) ELSE levels
<1>1. /\ IsSeq(w) /\ IsSeq(levels)
      /\ \A k \in 1 .. Len(w) :
           /\ CallOk(w[k])
           /\ w[k].do \in Chain => k < Len(w) /\ Follows(w[k], w[k + 1])
           /\ w[k].do = "linker" => k = Len(w)
  BY DEF Stack, CallsOk
<1>2. PICK f : Depths(f, w, levels)
  BY DEF Stack
<1>3. /\ n \in Nat /\ n >= 1 /\ IsSeq(t) /\ Len(t) = n - 1 /\ c = w[1] /\ 1 \in 1 .. n
      /\ \A k \in 1 .. n - 1 : t[k] = w[k + 1]
  BY <1>1, SeqFacts
<1>4. Closes(c) \in {0, 1}
  BY DEF Closes
<1>5. /\ Len(levels) \in Nat
      /\ Len(levels) > 0 => IsSeq(Front(levels)) /\ Len(Front(levels)) = Len(levels) - 1
  BY <1>1, LevelFacts
<1>6. /\ f \in [1 .. n + 1 -> Nat] /\ f[1] = Len(levels) /\ f[n + 1] = 0
      /\ \A k \in 1 .. n : f[k + 1] = f[k] - Closes(w[k])
      /\ \A i, j \in 1 .. n + 1 : i <= j => f[j] <= f[i]
  BY <1>2 DEF Depths
<1> HIDE DEF c, t, n
<1>7. f[2] = Len(levels) - Closes(c) /\ f[2] \in Nat
  <2>1. 2 \in 1 .. n + 1 /\ 1 + 1 = 2
    BY <1>3
  <2> QED BY <1>3, <1>6, <2>1
<1>8. Len(levels) \in Nat /\ (Closes(c) = 1 => Len(levels) > 0)
  <2>1. Len(levels) \in Nat
    BY <1>5
  <2> QED BY <1>7, <2>1
<1>9. IsSeq(less) /\ Len(less) = f[2]
  <2>1. CASE Closes(c) = 1
    <3>1. f[2] = Len(levels) - 1 /\ Len(levels) > 0 /\ less = Front(levels)
      BY <1>7, <1>8, <2>1
    <3> HIDE DEF less
    <3> QED BY <1>5, <3>1
  <2>2. CASE Closes(c) # 1
    <3>1. Closes(c) = 0 /\ less = levels
      BY <1>4, <2>2
    <3>2. f[2] = Len(levels)
      BY <1>7, <1>8, <3>1
    <3> HIDE DEF less
    <3> QED BY <1>1, <3>1, <3>2
  <2> QED BY <2>1, <2>2
<1> HIDE DEF less
<1>11. CallsOk(t)
  <2>1. ASSUME NEW k \in 1 .. n - 1
        PROVE  /\ CallOk(t[k])
               /\ t[k].do \in Chain => k < n - 1 /\ Follows(t[k], t[k + 1])
               /\ t[k].do = "linker" => k = n - 1
    <3>1. k + 1 \in 1 .. n /\ t[k] = w[k + 1]
      BY <1>3
    <3>2. k < n - 1 => t[k + 1] = w[(k + 1) + 1]
      BY <1>3
    <3>3. /\ CallOk(w[k + 1])
          /\ w[k + 1].do \in Chain => k + 1 < n /\ Follows(w[k + 1], w[(k + 1) + 1])
          /\ w[k + 1].do = "linker" => k + 1 = n
      BY <1>1, <3>1 DEF n
    <3> QED BY <1>3, <3>1, <3>2, <3>3
  <2> QED BY <1>3, <2>1 DEF CallsOk
<1>12. \E g : Depths(g, t, less)
  <2> DEFINE g == [k \in 1 .. n |-> f[k + 1]]
  <2>1. \A k \in 1 .. n : k + 1 \in 1 .. n + 1 /\ f[k + 1] \in Nat /\ f[k + 1] <= f[2]
    <3>1. ASSUME NEW k \in 1 .. n PROVE k + 1 \in 1 .. n + 1 /\ 2 \in 1 .. n + 1 /\ 2 <= k + 1
      BY <1>3
    <3> QED BY <1>6, <3>1
  <2>2. g \in [1 .. n -> Nat] /\ g[1] = Len(less) /\ g[n] = 0
    BY <1>3, <1>6, <1>9, <2>1
  <2>3. ASSUME NEW k \in 1 .. n - 1 PROVE g[k + 1] = g[k] - Closes(t[k])
    <3>1. k + 1 \in 1 .. n /\ k \in 1 .. n /\ t[k] = w[k + 1]
      BY <1>3
    <3>2. f[(k + 1) + 1] = f[k + 1] - Closes(w[k + 1])
      BY <1>6, <3>1
    <3> QED BY <3>1, <3>2
  <2>4. \A i, j \in 1 .. n : i <= j => g[j] <= g[i]
    <3>1. ASSUME NEW i \in 1 .. n, NEW j \in 1 .. n, i <= j PROVE g[j] <= g[i]
      <4>1. i + 1 \in 1 .. n + 1 /\ j + 1 \in 1 .. n + 1 /\ i + 1 <= j + 1
        BY <1>3, <3>1
      <4> QED BY <1>6, <4>1
    <3> QED BY <3>1
  <2>5. Len(t) + 1 = n
    BY <1>3
  <2> HIDE DEF g
  <2>6. Depths(g, t, less)
    BY <1>3, <2>2, <2>3, <2>4, <2>5 DEF Depths
  <2> QED BY <2>6
<1>13. Stack(t, less)
  BY <1>9, <1>11, <1>12 DEF Stack
<1>14. CallOk(c)
  BY <1>1, <1>3 DEF n
<1>15. c.do \in Chain => t # <<>> /\ Follows(c, Head(t))
  <2> SUFFICES ASSUME c.do \in Chain PROVE t # <<>> /\ Follows(c, Head(t))
    OBVIOUS
  <2>1. 1 < n /\ Follows(w[1], w[1 + 1])
    BY <1>1, <1>3 DEF n
  <2>2. t # <<>>
    BY <1>3, <2>1
  <2>3. Head(t) = t[1] /\ t[1] = w[1 + 1]
    BY <1>3, <2>1, <2>2, SeqFacts
  <2> QED BY <1>3, <2>1, <2>2, <2>3
<1>16. c.do = "linker" => t = <<>>
  <2> SUFFICES ASSUME c.do = "linker" PROVE t = <<>>
    OBVIOUS
  <2>1. Len(t) = 0
    BY <1>1, <1>3 DEF n
  <2> QED BY <1>3, <2>1, SeqFacts
<1> QED BY <1>8, <1>13, <1>14, <1>15, <1>16 DEF c, t, less

LEMMA StackPush ==
  ASSUME NEW w, NEW levels, Stack(w, levels), NEW c, NEW more,
         CallOk(c), c.do # "linker", c.do \in Chain => w # <<>> /\ Follows(c, Head(w)),
         \/ Closes(c) = 0 /\ more = levels
         \/ Closes(c) = 1 /\ \E l : more = Append(levels, l)
  PROVE  Stack(<<c>> \o w, more)
<1> DEFINE v == <<c>> \o w
           n == Len(w)
<1>1. /\ IsSeq(w) /\ IsSeq(levels)
      /\ \A k \in 1 .. Len(w) :
           /\ CallOk(w[k])
           /\ w[k].do \in Chain => k < Len(w) /\ Follows(w[k], w[k + 1])
           /\ w[k].do = "linker" => k = Len(w)
  BY DEF Stack, CallsOk
<1>2. PICK f : Depths(f, w, levels)
  BY DEF Stack
<1>3. /\ n \in Nat /\ IsSeq(v) /\ Len(v) = n + 1 /\ v[1] = c
      /\ \A k \in 1 .. n : v[k + 1] = w[k]
      /\ w # <<>> => n >= 1 /\ Head(w) = w[1]
  BY <1>1, SeqFacts
<1>4. /\ f \in [1 .. n + 1 -> Nat] /\ f[1] = Len(levels) /\ f[n + 1] = 0
      /\ \A k \in 1 .. n : f[k + 1] = f[k] - Closes(w[k])
      /\ \A i, j \in 1 .. n + 1 : i <= j => f[j] <= f[i]
  BY <1>2 DEF Depths
<1> HIDE DEF v, n
<1>5. IsSeq(more) /\ Len(more) = Len(levels) + Closes(c) /\ Len(levels) \in Nat
  <2>1. Len(levels) \in Nat
    BY <1>1, LevelFacts
  <2>2. CASE Closes(c) = 0 /\ more = levels
    BY <1>1, <2>1, <2>2, LevelFacts
  <2>3. ASSUME NEW l, Closes(c) = 1, more = Append(levels, l)
        PROVE  IsSeq(more) /\ Len(more) = Len(levels) + Closes(c)
    BY <1>1, <2>3, LevelFacts
  <2> QED BY <2>1, <2>2, <2>3
<1>6. CallsOk(v)
  <2>1. ASSUME NEW k \in 1 .. n + 1
        PROVE  /\ CallOk(v[k])
               /\ v[k].do \in Chain => k < n + 1 /\ Follows(v[k], v[k + 1])
               /\ v[k].do = "linker" => k = n + 1
    <3>1. CASE k = 1
      <4>1. CallOk(v[1]) /\ v[1].do # "linker"
        BY <1>3
      <4>2. ASSUME c.do \in Chain PROVE 1 < n + 1 /\ Follows(v[1], v[1 + 1])
        <5>1. n >= 1 /\ Follows(c, w[1])
          BY <1>3, <4>2
        <5>2. 1 \in 1 .. n
          BY <1>3, <5>1
        <5>3. v[1 + 1] = w[1]
          BY <1>3, <5>2
        <5> QED BY <1>3, <5>1, <5>3
      <4> QED BY <1>3, <3>1, <4>1, <4>2
    <3>2. CASE k # 1
      <4>1. PICK j \in 1 .. n : k = j + 1
        <5>1. k - 1 \in 1 .. n /\ k = (k - 1) + 1
          BY <1>3, <3>2
        <5> QED BY <5>1
      <4>2. v[k] = w[j]
        BY <1>3, <4>1
      <4>3. j < n => j + 1 \in 1 .. n /\ v[(j + 1) + 1] = w[j + 1]
        BY <1>3
      <4>4. /\ CallOk(w[j])
            /\ w[j].do \in Chain => j < n /\ Follows(w[j], w[j + 1])
            /\ w[j].do = "linker" => j = n
        BY <1>1 DEF n
      <4> QED BY <1>3, <4>1, <4>2, <4>3, <4>4
    <3> QED BY <3>1, <3>2
  <2> QED BY <1>3, <2>1 DEF CallsOk
<1>7. \E g : Depths(g, v, more)
  <2> DEFINE g == [k \in 1 .. n + 2 |-> IF k = 1 THEN Len(more) ELSE f[k - 1]]
  <2>1. \A k \in 1 .. n + 1 : k + 1 \in 1 .. n + 2 /\ g[k + 1] = f[k] /\ f[k] \in 0 .. Len(levels)
    <3>1. ASSUME NEW k \in 1 .. n + 1 PROVE f[k] \in Nat /\ f[k] <= f[1]
      BY <1>3, <1>4
    <3> QED BY <1>3, <1>4, <1>5, <3>1
  <2>2. Closes(c) \in {0, 1}
    BY DEF Closes
  <2>3. g[1] = Len(more) /\ Len(more) \in Nat
    BY <1>3, <1>5, <2>2
  <2>4. g \in [1 .. n + 2 -> Nat]
    <3>1. ASSUME NEW k \in 1 .. n + 2 PROVE g[k] \in Nat
      <4>1. CASE k = 1
        BY <2>3, <4>1
      <4>2. CASE k # 1
        <5>1. k - 1 \in 1 .. n + 1
          BY <1>3, <4>2
        <5>2. f[k - 1] \in Nat
          BY <1>4, <5>1
        <5> QED BY <4>2, <5>2
      <4> QED BY <4>1, <4>2
    <3> QED BY <3>1
  <2>5. g[n + 2] = 0
    BY <1>3, <1>4, <2>1
  <2> HIDE DEF g
  <2>6. ASSUME NEW k \in 1 .. n + 1
        PROVE  g[k + 1] = g[k] - Closes(v[k])
    <3>1. CASE k = 1
      <4>1. 1 \in 1 .. n + 1
        BY <1>3
      <4>2. g[1 + 1] = Len(levels)
        BY <1>4, <2>1, <4>1
      <4>3. g[1 + 1] = g[1] - Closes(c)
        BY <1>5, <2>2, <2>3, <4>2
      <4> QED BY <1>3, <1>5, <2>3, <3>1, <4>3
    <3>2. CASE k # 1
      <4>1. PICK j \in 1 .. n : k = j + 1
        <5>1. k - 1 \in 1 .. n /\ k = (k - 1) + 1
          BY <1>3, <3>2
        <5> QED BY <5>1
      <4>2. j \in 1 .. n + 1 /\ j + 1 \in 1 .. n + 1
        BY <1>3
      <4>3. g[k] = f[j] /\ g[k + 1] = f[j + 1] /\ v[k] = w[j] /\ f[j] \in 0 .. Len(levels)
        BY <1>3, <2>1, <4>1, <4>2
      <4>4. f[j + 1] = f[j] - Closes(w[j])
        BY <1>4
      <4> QED BY <1>5, <4>3, <4>4
    <3> QED BY <3>1, <3>2
  <2>7. ASSUME NEW i \in 1 .. n + 2, NEW j \in 1 .. n + 2, i <= j PROVE g[j] <= g[i]
    <3>1. CASE j = 1
      <4>1. i = 1
        BY <2>7, <3>1
      <4> QED BY <2>3, <3>1, <4>1
    <3>2. CASE i = 1 /\ j # 1
      <4>1. j - 1 \in 1 .. n + 1 /\ (j - 1) + 1 = j
        BY <1>3, <3>2
      <4>2. g[j] \in 0 .. Len(levels)
        BY <2>1, <4>1
      <4> QED BY <1>5, <2>2, <2>3, <3>2, <4>2
    <3>3. CASE i # 1 /\ j # 1
      <4>1. /\ i - 1 \in 1 .. n + 1 /\ j - 1 \in 1 .. n + 1 /\ i - 1 <= j - 1
            /\ (i - 1) + 1 = i /\ (j - 1) + 1 = j
        BY <1>3, <2>7, <3>3
      <4>2. g[i] = f[i - 1] /\ g[j] = f[j - 1]
        BY <2>1, <4>1
      <4> QED BY <1>4, <4>1, <4>2
    <3> QED BY <3>1, <3>2, <3>3
  <2>8. Len(v) + 1 = n + 2 /\ Len(v) = n + 1
    BY <1>3
  <2>9. Depths(g, v, more)
    BY <2>3, <2>4, <2>5, <2>6, <2>7, <2>8 DEF Depths
  <2> QED BY <2>9
<1> QED BY <1>5, <1>6, <1>7 DEF Stack, v

\* No call is open at the start and at the end.
LEMMA StackEmpty ==
  /\ Stack(<<>>, <<>>)
  /\ \A levels : Stack(<<>>, levels) => levels = <<>>
<1>1. /\ \A f : Depths(f, <<>>, <<>>) <=>
                  f \in [1 .. 1 -> Nat] /\ f[1] = 0 /\ \A i, j \in 1 .. 1 : i <= j => f[j] <= f[i]
      /\ <<>> \in Seq({})
  <2>1. Len(<<>>) = 0 /\ 1 .. 0 = {}
    OBVIOUS
  <2> QED BY <2>1 DEF Depths
<1>2. Depths([k \in 1 .. 1 |-> 0], <<>>, <<>>)
  BY <1>1
<1>3. CallsOk(<<>>) /\ IsSeq(<<>>)
  BY <1>1 DEF CallsOk, IsSeq
<1>4. ASSUME NEW levels, Stack(<<>>, levels) PROVE levels = <<>>
  <2>1. PICK f : Depths(f, <<>>, levels)
    BY <1>4 DEF Stack
  <2>2. Len(levels) = 0
    BY <2>1 DEF Depths
  <2>3. PICK S : levels \in Seq(S)
    BY <1>4 DEF Stack, IsSeq
  <2> QED BY <2>2, <2>3
<1> QED BY <1>2, <1>3, <1>4 DEF Stack

LEMMA NoCalls ==
  ASSUME NEW t, IsSeq(t)
  PROVE  <<>> \o t = t
BY DEF IsSeq

LEMMA Append3 ==
  ASSUME NEW a, NEW b, NEW c, NEW d
  PROVE  Append(<<a, b, c>>, d) = <<a, b, c, d>>
<1> DEFINE T == {a, b, c, d}
           x == Append(<<a, b, c>>, d)
<1>1. Len(x) = 4 /\ x[1] = a /\ x[2] = b /\ x[3] = c /\ x[4] = d
  OBVIOUS
<1>2. <<a, b, c>> \in Seq(T) /\ d \in T
  <2>1. a \in T /\ b \in T /\ c \in T /\ d \in T
    OBVIOUS
  <2> HIDE DEF T
  <2> QED BY <2>1
<1> HIDE DEF T
<1>3. x \in Seq(T)
  BY <1>2
<1> HIDE DEF x
<1>4. x = <<a, b, c, d>>
  BY <1>1, <1>3
<1> QED BY <1>4 DEF x

LEMMA TwoCalls ==
  ASSUME NEW t, IsSeq(t), NEW a, NEW b
  PROVE  <<a, b>> \o t = <<a>> \o (<<b>> \o t)
<1>1. PICK S : t \in Seq(S)
  BY DEF IsSeq
<1> DEFINE T == S \cup {a, b}
           x == <<a>> \o <<b>>
<1>2. t \in Seq(T) /\ <<a>> \in Seq(T) /\ <<b>> \in Seq(T)
  <2>1. t \in Seq(T) /\ a \in T /\ b \in T
    BY <1>1
  <2> HIDE DEF T
  <2> QED BY <2>1
<1>3. Len(x) = 2 /\ x[1] = a /\ x[2] = b
  OBVIOUS
<1> HIDE DEF T
<1>4. x \in Seq(T)
  BY <1>2
<1>5. x \o t = <<a>> \o (<<b>> \o t)
  BY <1>2, ConcatAssociative
<1> HIDE DEF x
<1>6. x = <<a, b>>
  BY <1>3, <1>4
<1> QED BY <1>5, <1>6 DEF x

ThreeCalls(a, b, c, t) == <<a, b, c>> \o t
ThreeInTurn(a, b, c, t) == <<a>> \o (<<b>> \o (<<c>> \o t))
LEMMA ThreeCallsAre ==
  ASSUME NEW t, IsSeq(t), NEW a, NEW b, NEW c
  PROVE  ThreeCalls(a, b, c, t) = ThreeInTurn(a, b, c, t)
<1>1. PICK S : t \in Seq(S)
  BY DEF IsSeq
<1> DEFINE T == S \cup {a, b, c}
           x == <<a>> \o <<b, c>>
<1>2. t \in Seq(T) /\ <<a>> \in Seq(T) /\ <<b, c>> \in Seq(T)
  <2>1. t \in Seq(T) /\ a \in T /\ b \in T /\ c \in T
    BY <1>1
  <2> HIDE DEF T
  <2> QED BY <2>1
<1>3. Len(x) = 3 /\ x[1] = a /\ x[2] = b /\ x[3] = c
  OBVIOUS
<1> HIDE DEF T
<1>4. x \in Seq(T)
  BY <1>2
<1>5. x \o t = <<a>> \o (<<b, c>> \o t)
  BY <1>2, ConcatAssociative
<1> HIDE DEF x
<1>6. x = <<a, b, c>>
  BY <1>3, <1>4
<1>7. <<b, c>> \o t = <<b>> \o (<<c>> \o t)
  BY TwoCalls
<1> QED BY <1>5, <1>6, <1>7 DEF x, ThreeCalls, ThreeInTurn

FourCalls(a, b, c, d, t) == <<a, b, c, d>> \o t
FourInTurn(a, b, c, d, t) == <<a>> \o (<<b>> \o (<<c>> \o (<<d>> \o t)))
LEMMA FourCallsAre ==
  ASSUME NEW t, IsSeq(t), NEW a, NEW b, NEW c, NEW d
  PROVE  FourCalls(a, b, c, d, t) = FourInTurn(a, b, c, d, t)
<1>1. PICK S : t \in Seq(S)
  BY DEF IsSeq
<1> DEFINE T == S \cup {a, b, c, d}
           x == <<a>> \o <<b, c, d>>
<1>2. t \in Seq(T) /\ <<a>> \in Seq(T) /\ <<b, c, d>> \in Seq(T)
  <2>1. t \in Seq(T) /\ a \in T /\ b \in T /\ c \in T /\ d \in T
    BY <1>1
  <2> HIDE DEF T
  <2> QED BY <2>1
<1>3. Len(x) = 4 /\ x[1] = a /\ x[2] = b /\ x[3] = c /\ x[4] = d
  OBVIOUS
<1> HIDE DEF T
<1>4. x \in Seq(T)
  BY <1>2
<1>5. x \o t = <<a>> \o (<<b, c, d>> \o t)
  BY <1>2, ConcatAssociative
<1> HIDE DEF x
<1>6. x = <<a, b, c, d>>
  BY <1>3, <1>4
<1>7. <<b, c, d>> \o t = <<b>> \o (<<c>> \o (<<d>> \o t))
  BY ThreeCallsAre DEF ThreeCalls, ThreeInTurn
<1> QED BY <1>5, <1>6, <1>7 DEF x, FourCalls, FourInTurn

-----------------------------------------------------------------------------
(* The calls that will make the items of an object anew. *)

\* At the end of one of the calls the mode is full again.
HasFull(w) == \E k \in 1 .. Len(w) : w[k].do = "full"

\* The next calls are all for o, up to its instancer at m.
WayAt(w, o, m) ==
  /\ w[m].do = "instancer"
  /\ \A j \in 1 .. m : w[j].obj = o
  /\ \A j \in 1 .. m - 1 : w[j].do \in {"geometry", "detail", "prim", "pop"}
Way(w, o) == \E m \in 1 .. Len(w) : WayAt(w, o, m)
\* The call makes a mesh or hair of the detail s, or for one that it is in.
Leads(c, s) ==
  \/ c.do = "geometry"
  \/ c.do = "detail" /\ s \in Within[c.detail]
  \/ c.do = "prim" /\ \/ s = c.detail
                      \/ \E i \in DOMAIN Contents[c.detail].prims :
                           /\ c.at <= i /\ Contents[c.detail].prims[i].kind = "packed"
                           /\ s \in Within[Contents[c.detail].prims[i].inner]
Promised(w, o, s) ==
  \E m \in 1 .. Len(w) : WayAt(w, o, m) /\ \E k \in 1 .. m : Leads(w[k], s)

LEMMA FullPop ==
  ASSUME NEW w, IsSeq(w), w # <<>>, HasFull(w), Head(w).do # "full"
  PROVE  HasFull(Tail(w))
<1>1. PICK k \in 1 .. Len(w) : w[k].do = "full"
  BY DEF HasFull
<1>2. Len(w) \in Nat /\ Len(Tail(w)) = Len(w) - 1 /\ Head(w) = w[1]
      /\ \A j \in 1 .. Len(w) - 1 : Tail(w)[j] = w[j + 1]
  BY SeqFacts
<1>3. k - 1 \in 1 .. Len(w) - 1 /\ (k - 1) + 1 = k
  BY <1>1, <1>2
<1> QED BY <1>1, <1>2, <1>3 DEF HasFull

LEMMA FullPush ==
  ASSUME NEW w, IsSeq(w), NEW c
  PROVE  HasFull(w) \/ c.do = "full" => HasFull(<<c>> \o w)
<1> DEFINE v == <<c>> \o w
<1>1. Len(w) \in Nat /\ Len(v) = Len(w) + 1 /\ v[1] = c /\ \A k \in 1 .. Len(w) : v[k + 1] = w[k]
  BY SeqFacts
<1> HIDE DEF v
<1>2. ASSUME NEW k \in 1 .. Len(w), w[k].do = "full" PROVE HasFull(v)
  <2>1. k + 1 \in 1 .. Len(v)
    BY <1>1
  <2> QED BY <1>1, <1>2, <2>1 DEF HasFull
<1>3. ASSUME c.do = "full" PROVE HasFull(v)
  <2>1. 1 \in 1 .. Len(v)
    BY <1>1
  <2> QED BY <1>1, <1>3, <2>1 DEF HasFull
<1> QED BY <1>2, <1>3 DEF HasFull, v

LEMMA WayPop ==
  ASSUME NEW w, IsSeq(w), w # <<>>, NEW o, NEW m \in 1 .. Len(w), WayAt(w, o, m),
         Head(w).do # "instancer"
  PROVE  /\ Head(w).obj = o /\ Head(w).do \in {"geometry", "detail", "prim", "pop"}
         /\ m - 1 \in 1 .. Len(Tail(w)) /\ WayAt(Tail(w), o, m - 1)
<1>1. Len(w) \in Nat /\ Len(w) >= 1 /\ Len(Tail(w)) = Len(w) - 1 /\ Head(w) = w[1]
      /\ \A j \in 1 .. Len(w) - 1 : Tail(w)[j] = w[j + 1]
  BY SeqFacts
<1>2. /\ w[m].do = "instancer"
      /\ \A j \in 1 .. m : w[j].obj = o
      /\ \A j \in 1 .. m - 1 : w[j].do \in {"geometry", "detail", "prim", "pop"}
  BY DEF WayAt
<1>3. m # 1
  BY <1>1, <1>2
<1>4. m - 1 \in 1 .. Len(w) - 1 /\ 1 \in 1 .. m - 1 /\ 1 \in 1 .. m /\ (m - 1) + 1 = m
  BY <1>1, <1>3
<1>5. \A j \in 1 .. m - 1 : j + 1 \in 1 .. m /\ j \in 1 .. Len(w) - 1
  BY <1>1
<1>6. \A j \in 1 .. (m - 1) - 1 : j + 1 \in 1 .. m - 1 /\ j \in 1 .. Len(w) - 1
  BY <1>1
<1>7. WayAt(Tail(w), o, m - 1)
  <2>1. Tail(w)[m - 1].do = "instancer"
    BY <1>1, <1>2, <1>4
  <2>2. \A j \in 1 .. m - 1 : Tail(w)[j].obj = o
    BY <1>1, <1>2, <1>5
  <2>3. \A j \in 1 .. (m - 1) - 1 : Tail(w)[j].do \in {"geometry", "detail", "prim", "pop"}
    BY <1>1, <1>2, <1>6
  <2> QED BY <2>1, <2>2, <2>3 DEF WayAt
<1> QED BY <1>1, <1>2, <1>4, <1>7

LEMMA WayPush ==
  ASSUME NEW w, IsSeq(w), NEW o, NEW m \in 1 .. Len(w), WayAt(w, o, m), NEW c, c.obj = o,
         c.do \in {"geometry", "detail", "prim", "pop"}
  PROVE  m + 1 \in 1 .. Len(<<c>> \o w) /\ WayAt(<<c>> \o w, o, m + 1)
<1> DEFINE v == <<c>> \o w
<1>1. Len(w) \in Nat /\ Len(v) = Len(w) + 1 /\ v[1] = c /\ \A k \in 1 .. Len(w) : v[k + 1] = w[k]
  BY SeqFacts
<1>2. /\ w[m].do = "instancer"
      /\ \A j \in 1 .. m : w[j].obj = o
      /\ \A j \in 1 .. m - 1 : w[j].do \in {"geometry", "detail", "prim", "pop"}
  BY DEF WayAt
<1> HIDE DEF v
<1>3. \A j \in 1 .. m + 1 :
        j # 1 => j - 1 \in 1 .. m /\ j - 1 \in 1 .. Len(w) /\ (j - 1) + 1 = j
  BY <1>1
<1>4. \A j \in 1 .. (m + 1) - 1 : j \in 1 .. m + 1 /\ (j = 1 \/ j - 1 \in 1 .. m - 1)
  BY <1>1
<1>5. \A j \in 1 .. m + 1 : v[j] = IF j = 1 THEN c ELSE w[j - 1]
  BY <1>1, <1>3
<1>6. WayAt(v, o, m + 1)
  <2>1. v[m + 1].do = "instancer"
    BY <1>1, <1>2
  <2>2. \A j \in 1 .. m + 1 : v[j].obj = o
    BY <1>2, <1>3, <1>5
  <2>3. \A j \in 1 .. (m + 1) - 1 : v[j].do \in {"geometry", "detail", "prim", "pop"}
    BY <1>2, <1>4, <1>5
  <2> QED BY <2>1, <2>2, <2>3 DEF WayAt
<1>7. m + 1 \in 1 .. Len(v)
  BY <1>1
<1> QED BY <1>6, <1>7 DEF v

\* The first of the calls is over: it was the one that leads there, or another one is.
LEMMA PromisedPop ==
  ASSUME NEW w, IsSeq(w), w # <<>>, NEW o, Head(w).do # "instancer"
  PROVE  /\ Way(w, o) => /\ Head(w).obj = o /\ Head(w).do \in {"geometry", "detail", "prim", "pop"}
                         /\ Way(Tail(w), o)
         /\ \A s : Promised(w, o, s) =>
              Way(w, o) /\ (Leads(Head(w), s) \/ Promised(Tail(w), o, s))
<1>1. Way(w, o) => /\ Head(w).obj = o /\ Head(w).do \in {"geometry", "detail", "prim", "pop"}
                   /\ Way(Tail(w), o)
  BY WayPop DEF Way
<1>2. ASSUME NEW s, Promised(w, o, s), ~Leads(Head(w), s)
      PROVE  Promised(Tail(w), o, s)
  <2>1. PICK m \in 1 .. Len(w) : WayAt(w, o, m) /\ \E k \in 1 .. m : Leads(w[k], s)
    BY <1>2 DEF Promised
  <2>2. PICK k \in 1 .. m : Leads(w[k], s)
    BY <2>1
  <2>3. m - 1 \in 1 .. Len(Tail(w)) /\ WayAt(Tail(w), o, m - 1)
    BY <2>1, WayPop
  <2>4. Len(w) \in Nat /\ Head(w) = w[1] /\ \A j \in 1 .. Len(w) - 1 : Tail(w)[j] = w[j + 1]
    BY SeqFacts
  <2>5. k # 1
    BY <1>2, <2>2, <2>4
  <2>6. k - 1 \in 1 .. m - 1 /\ k - 1 \in 1 .. Len(w) - 1 /\ (k - 1) + 1 = k
    BY <2>4, <2>5
  <2>7. Leads(Tail(w)[k - 1], s)
    BY <2>2, <2>4, <2>6
  <2> QED BY <2>3, <2>6, <2>7 DEF Promised
<1> QED BY <1>1, <1>2 DEF Promised, Way

LEMMA PromisedPush ==
  ASSUME NEW w, IsSeq(w), NEW o, NEW c, c.obj = o, c.do \in {"geometry", "detail", "prim", "pop"}
  PROVE  /\ Way(w, o) => Way(<<c>> \o w, o)
         /\ \A s :
              Promised(w, o, s) \/ (Way(w, o) /\ Leads(c, s))
                => Promised(<<c>> \o w, o, s)
<1> DEFINE v == <<c>> \o w
<1>1. Len(w) \in Nat /\ Len(v) = Len(w) + 1 /\ v[1] = c /\ \A k \in 1 .. Len(w) : v[k + 1] = w[k]
  BY SeqFacts
<1>2. \A m \in 1 .. Len(w) : WayAt(w, o, m) => m + 1 \in 1 .. Len(v) /\ WayAt(v, o, m + 1)
  BY WayPush
<1> HIDE DEF v
<1>3. Way(w, o) => Way(v, o)
  BY <1>2 DEF Way
<1>4. ASSUME NEW s, Promised(w, o, s) PROVE Promised(v, o, s)
  <2>1. PICK m \in 1 .. Len(w) : WayAt(w, o, m) /\ \E k \in 1 .. m : Leads(w[k], s)
    BY <1>4 DEF Promised
  <2>2. PICK k \in 1 .. m : Leads(w[k], s)
    BY <2>1
  <2>3. k + 1 \in 1 .. m + 1 /\ k \in 1 .. Len(w)
    BY <1>1
  <2>4. Leads(v[k + 1], s)
    BY <1>1, <2>2, <2>3
  <2> QED BY <1>2, <2>1, <2>3, <2>4 DEF Promised
<1>5. ASSUME NEW s, Way(w, o), Leads(c, s) PROVE Promised(v, o, s)
  <2>1. PICK m \in 1 .. Len(w) : WayAt(w, o, m)
    BY <1>5 DEF Way
  <2>2. 1 \in 1 .. m + 1
    BY <1>1
  <2> QED BY <1>1, <1>2, <1>5, <2>1, <2>2 DEF Promised
<1> QED BY <1>3, <1>4, <1>5 DEF v

-----------------------------------------------------------------------------
(* Each call leaves a stack of calls. *)

LEMMA CallFields ==
  ASSUME NEW do, NEW o, NEW d, NEW i
  PROVE  LET c == Call(do, o, d, i)
         IN /\ DOMAIN c = {"do", "obj", "detail", "at", "list"}
            /\ c.do = do /\ c.obj = o /\ c.detail = d /\ c.at = i /\ c.list = <<>>
BY DEF Call

LEMMA StackCaller ==
  ASSUME Stack(work, ctx), work # <<>>
  PROVE  /\ CallOk(Caller)
         /\ Caller.do \in Chain => Tail(work) # <<>> /\ Follows(Caller, Head(Tail(work)))
         /\ Caller.do = "linker" => Tail(work) = <<>>
         /\ IsSeq(work) /\ IsSeq(Tail(work)) /\ IsSeq(ctx)
         /\ Closes(Caller) = 1 => Stack(Tail(work), Front(ctx)) /\ Len(ctx) > 0
         /\ Closes(Caller) = 0 => Stack(Tail(work), ctx)
<1>1. /\ CallOk(Caller)
      /\ Caller.do \in Chain => Tail(work) # <<>> /\ Follows(Caller, Head(Tail(work)))
      /\ Caller.do = "linker" => Tail(work) = <<>>
      /\ Closes(Caller) = 1 => Len(ctx) > 0
      /\ Stack(Tail(work), IF Closes(Caller) = 1 THEN Front(ctx) ELSE ctx)
  BY StackPop DEF Caller
<1>2. IsSeq(work) /\ IsSeq(ctx)
  BY DEF Stack, CallsOk
<1>3. IsSeq(Tail(work))
  BY <1>2, SeqFacts
<1> QED BY <1>1, <1>2, <1>3

\* A call that returns.
LEMMA StackReturn ==
  ASSUME Stack(work, ctx), work # <<>>, Goto(<<>>),
         ctx' = IF Closes(Caller) = 1 THEN Front(ctx) ELSE ctx
  PROVE  Stack(work', ctx')
<1>1. Closes(Caller) \in {0, 1}
  BY DEF Closes
<1>2. work' = Tail(work)
  BY StackCaller, NoCalls DEF Goto
<1> QED BY <1>1, <1>2, StackCaller

\* A call that goes on under another name, in the same level.
LEMMA StackGoOn ==
  ASSUME Stack(work, ctx), work # <<>>, NEW c, Goto(<<c>>), ctx' = ctx,
         CallOk(c), c.do # "linker", Closes(c) = Closes(Caller),
         c.do \in Chain => Caller.do \in Chain /\ Follows(c, Head(Tail(work)))
  PROVE  Stack(work', ctx')
<1>1. work' = <<c>> \o Tail(work)
  BY DEF Goto
<1>2. c.do \in Chain => Tail(work) # <<>> /\ Follows(c, Head(Tail(work)))
  BY StackCaller
<1>3. CASE Closes(c) = 0
  <2>1. Stack(Tail(work), ctx)
    BY <1>3, StackCaller
  <2>2. Stack(<<c>> \o Tail(work), ctx)
    BY <1>2, <1>3, <2>1, StackPush
  <2> QED BY <1>1, <2>2
<1>4. CASE Closes(c) = 1
  <2>1. Stack(Tail(work), Front(ctx)) /\ Len(ctx) > 0 /\ IsSeq(ctx)
    BY <1>4, StackCaller
  <2>2. \E l : ctx = Append(Front(ctx), l)
    BY <2>1, FrontAndLast
  <2>3. Stack(<<c>> \o Tail(work), ctx)
    BY <1>2, <1>4, <2>1, <2>2, StackPush
  <2> QED BY <1>1, <2>3
<1> QED BY <1>3, <1>4 DEF Closes

LEMMA StackObject ==
  ASSUME Stack(work, ctx), ExportCached \/ ExportNew, opCache \subseteq Geometry
  PROVE  Stack(work', ctx')
<1>1. /\ work # <<>> /\ Caller.do = "object" /\ Caller.obj \in Geometry /\ ctx' = ctx
      /\ Root[Caller.obj] # None
      /\ \E d : /\ d.do \in {"cache", "full"} /\ d.obj = Caller.obj
                /\ DOMAIN d = {"do", "obj", "detail", "at", "list"}
                /\ Goto(Append(NodeCalls(Caller.obj), d))
  BY CallFields DEF ExportCached, ExportNew, Calls, Caller
<1>2. PICK t, o : t = Tail(work) /\ o = Caller.obj
  OBVIOUS
<1>3. PICK a, b, n, d :
        /\ a = Call("geometry", o, Root[o], 0) /\ b = Call("instancer", o, None, 0)
        /\ n = Call("node", o, None, 0)
        /\ d.do \in {"cache", "full"} /\ d.obj = o /\ DOMAIN d = {"do", "obj", "detail", "at", "list"}
        /\ Goto(Append(NodeCalls(o), d))
  BY <1>1, <1>2
<1>4. IsSeq(t) /\ Stack(t, ctx)
  <2>1. Closes(Caller) = 0
    BY <1>1 DEF Closes
  <2> QED BY <1>1, <1>2, <2>1, StackCaller
<1>5. work' = <<a>> \o (<<b>> \o (<<n>> \o (<<d>> \o t)))
  <2>1. NodeCalls(o) = <<a, b, n>>
    BY <1>3 DEF NodeCalls
  <2>2. work' = FourCalls(a, b, n, d, t)
    BY <1>2, <1>3, <2>1, Append3 DEF Goto, FourCalls
  <2>3. IsSeq(t)
    BY <1>4
  <2>4. FourCalls(a, b, n, d, t) = FourInTurn(a, b, n, d, t)
    BY <2>3, FourCallsAre
  <2> QED BY <2>2, <2>4 DEF FourInTurn
<1>6. /\ a.do = "geometry" /\ b.do = "instancer" /\ n.do = "node"
      /\ a.obj = o /\ b.obj = o /\ n.obj = o /\ a.detail = Root[o]
      /\ \A c \in {a, b, n} : DOMAIN c = {"do", "obj", "detail", "at", "list"}
  BY <1>3, CallFields
<1>7. CallOk(a) /\ CallOk(b) /\ CallOk(n) /\ CallOk(d)
  <2>1. o \in Geometry /\ Root[o] \in Details
    BY <1>1, <1>2, SceneAssumption
  <2> QED BY <1>3, <1>6, <2>1 DEF CallOk
<1>8. Closes(a) = 0 /\ Closes(b) = 0 /\ Closes(n) = 0 /\ Closes(d) = 0
  BY <1>3, <1>6 DEF Closes
<1>9. Follows(n, d) /\ Follows(b, n) /\ Follows(a, b)
  BY <1>3, <1>6 DEF Follows
<1>10. /\ a.do # "linker" /\ b.do # "linker" /\ n.do # "linker" /\ d.do # "linker" /\ d.do \notin Chain
  BY <1>3, <1>6 DEF Chain
<1>11. Stack(<<d>> \o t, ctx) /\ IsSeq(<<d>> \o t)
  BY <1>4, <1>7, <1>8, <1>10, StackPush, SeqFacts
<1>12. Stack(<<n>> \o (<<d>> \o t), ctx) /\ IsSeq(<<n>> \o (<<d>> \o t))
  <2>1. Head(<<d>> \o t) = d /\ <<d>> \o t # <<>>
    BY <1>4, SeqFacts
  <2> QED BY <1>7, <1>8, <1>9, <1>10, <1>11, <2>1, StackPush, SeqFacts
<1>13. Stack(<<b>> \o (<<n>> \o (<<d>> \o t)), ctx) /\ IsSeq(<<b>> \o (<<n>> \o (<<d>> \o t)))
  <2>1. Head(<<n>> \o (<<d>> \o t)) = n /\ <<n>> \o (<<d>> \o t) # <<>>
    BY <1>11, SeqFacts
  <2> QED BY <1>7, <1>8, <1>9, <1>10, <1>12, <2>1, StackPush, SeqFacts
<1>14. Stack(work', ctx)
  <2>1. Head(<<b>> \o (<<n>> \o (<<d>> \o t))) = b /\ <<b>> \o (<<n>> \o (<<d>> \o t)) # <<>>
    BY <1>12, SeqFacts
  <2> QED BY <1>5, <1>7, <1>8, <1>9, <1>10, <1>13, <2>1, StackPush
<1> QED BY <1>1, <1>14

\* Two calls in a new level: the second leaves it.
LEMMA StackTwo ==
  ASSUME Stack(work, ctx), work # <<>>, Closes(Caller) = 0,
         NEW a, NEW b, NEW l, Goto(<<a, b>>), ctx' = Append(ctx, l),
         CallOk(a), CallOk(b), a.do # "linker", b.do # "linker", Closes(a) = 0, Closes(b) = 1,
         b.do \in Chain, Follows(b, Head(Tail(work))), Tail(work) # <<>>,
         a.do \in Chain => Follows(a, b)
  PROVE  Stack(work', ctx')
<1> DEFINE t == Tail(work)
           more == Append(ctx, l)
<1>1. Stack(t, ctx) /\ IsSeq(t)
  BY StackCaller
<1>2. work' = <<a>> \o (<<b>> \o t)
  BY <1>1, TwoCalls DEF Goto
<1> HIDE DEF t
<1>3. Stack(<<b>> \o t, more)
  BY <1>1, StackPush DEF t
<1>4. Head(<<b>> \o t) = b /\ <<b>> \o t # <<>> /\ IsSeq(<<b>> \o t)
  BY <1>1, SeqFacts
<1> HIDE DEF more
<1>5. Stack(<<a>> \o (<<b>> \o t), more)
  BY <1>3, <1>4, StackPush DEF more
<1> QED BY <1>2, <1>5 DEF more

LEMMA StackGeometry ==
  ASSUME Stack(work, ctx), ExportGeometry
  PROVE  Stack(work', ctx')
<1>1. work # <<>> /\ Caller.do = "geometry" /\ Closes(Caller) = 0
  BY DEF ExportGeometry, Calls, Caller, Closes
<1>2. PICK o, d : o = Caller.obj /\ d = Caller.detail
  OBVIOUS
<1>3. Stack(work', ctx')
  <2>2. /\ o \in Geometry /\ d = Root[o] /\ d # None /\ d \in Details
        /\ Tail(work) # <<>> /\ Head(Tail(work)).do = "instancer" /\ Head(Tail(work)).obj = o
    <3>1. CallOk(Caller) /\ Tail(work) # <<>> /\ Follows(Caller, Head(Tail(work)))
      BY <1>1, StackCaller DEF Chain
    <3>2. o \in Geometry /\ d = Root[o] /\ d \in Details
      BY <1>1, <1>2, <3>1 DEF CallOk
    <3> QED BY <1>1, <1>2, <3>1, <3>2, SceneAssumption DEF Follows
  <2>3. PICK l, a, b :
          /\ l = Level(None, DetailID(d)) /\ b = Call("pop", o, d, 0)
          /\ a = IF Contents[d].points # <<>> THEN Call("point", o, d, 1) ELSE Call("detail", o, d, 0)
    OBVIOUS
  <2>4. Goto(<<a, b>>) /\ ctx' = Append(ctx, l)
    BY <1>2, <2>3 DEF ExportGeometry
  <2>6. b.do = "pop" /\ b.obj = o /\ DOMAIN b = {"do", "obj", "detail", "at", "list"}
    BY <2>3, CallFields
  <2>7. /\ CallOk(b) /\ b.do \in Chain /\ b.do # "linker" /\ Closes(b) = 1
        /\ Follows(b, Head(Tail(work)))
    BY <2>2, <2>6 DEF CallOk, Chain, Closes, Follows
  <2>8. CASE Contents[d].points # <<>>
    <3>1. /\ a.do = "point" /\ a.obj = o /\ a.detail = d /\ a.at = 1 /\ a.list = <<>>
          /\ DOMAIN a = {"do", "obj", "detail", "at", "list"}
      BY <2>3, <2>8, CallFields
    <3>2. CallOk(a)
      <4>1. a.list \in Seq({})
        BY <3>1
      <4>2. \E S : a.list \in Seq(S) /\ \A g \in S : g.kind \notin Sourced
        BY <4>1
      <4>3. d \in Details /\ Contents[d].points # <<>> /\ d = Root[o] /\ o \in Geometry
        BY <2>2, <2>8
      <4> QED BY <3>1, <4>2, <4>3 DEF CallOk
    <3>3. Closes(a) = 0 /\ a.do # "linker" /\ Follows(a, b)
      BY <2>6, <3>1 DEF Closes, Follows
    <3> QED BY <1>1, <2>2, <2>4, <2>7, <3>2, <3>3, StackTwo
  <2>9. CASE Contents[d].points = <<>>
    <3>1. /\ a.do = "detail" /\ a.obj = o /\ a.detail = d
          /\ DOMAIN a = {"do", "obj", "detail", "at", "list"}
      BY <2>3, <2>9, CallFields
    <3>2. Leaf(o)
      BY <2>2, <2>9 DEF Leaf
    <3>3. CallOk(a)
      BY <2>2, <3>1, <3>2 DEF CallOk
    <3>4. Closes(a) = 0 /\ a.do # "linker" /\ Follows(a, b)
      BY <2>6, <3>1 DEF Closes, Follows
    <3> QED BY <1>1, <2>2, <2>4, <2>7, <3>3, <3>4, StackTwo
  <2> QED BY <2>8, <2>9
<1> QED BY <1>3

LEMMA StackPoint ==
  ASSUME Stack(work, ctx), ExportPoint
  PROVE  Stack(work', ctx')
<1>1. work # <<>> /\ Caller.do = "point" /\ Closes(Caller) = 0
  BY DEF ExportPoint, Calls, Caller, Closes
<1>2. PICK c, d, i, o, next :
        /\ c = Caller /\ d = Caller.obj /\ i = Caller.at
        /\ o = Contents[Caller.detail].points[i] /\ next = [Caller EXCEPT !.at = i + 1]
  OBVIOUS
<1>3. CallOk(c) /\ Tail(work) # <<>> /\ Follows(c, Head(Tail(work)))
  BY <1>1, <1>2, StackCaller DEF Chain
<1>4. PICK end, call : end = [next EXCEPT !.do = "pointend"] /\ call = Call("object", o, None, 0)
  OBVIOUS
<1>5. /\ DOMAIN c = {"do", "obj", "detail", "at", "list"} /\ c.do = "point" /\ c.at \in Nat \ {0}
      /\ c.detail = Root[d]
  BY <1>1, <1>2, <1>3 DEF CallOk
<1>6. /\ DOMAIN next = DOMAIN c /\ next.do = "point" /\ next.obj = d /\ next.at \in Nat \ {0}
      /\ next.detail = c.detail /\ next.list = c.list
      /\ DOMAIN end = DOMAIN c /\ end.do = "pointend" /\ end.obj = d /\ end.at \in Nat \ {0}
      /\ end.detail = c.detail /\ end.list = c.list
  BY <1>2, <1>4, <1>5
<1>7. CallOk(next) /\ CallOk(end)
  BY <1>2, <1>3, <1>5, <1>6 DEF CallOk
<1>8. Follows(next, Head(Tail(work))) /\ Follows(end, Head(Tail(work)))
  BY <1>2, <1>3, <1>5, <1>6 DEF Follows
<1>9. CASE i > Len(Contents[Caller.detail].points)
  BY <1>1, <1>2, <1>9, StackReturn DEF ExportPoint
<1>10. CASE ~(i > Len(Contents[Caller.detail].points)) /\ o \notin alive
  <2>1. Goto(<<next>>) /\ ctx' = ctx
    BY <1>2, <1>10 DEF ExportPoint
  <2>2. Closes(next) = 0 /\ next.do # "linker" /\ Caller.do \in Chain
    BY <1>1, <1>6 DEF Closes, Chain
  <2> QED BY <1>1, <1>7, <1>8, <2>1, <2>2, StackGoOn
<1>11. CASE ~(i > Len(Contents[Caller.detail].points)) /\ o \in alive
  <2>1. PICK l : Goto(<<call, end>>) /\ ctx' = Append(ctx, l)
    BY <1>2, <1>4, <1>11 DEF ExportPoint
  <2>2. /\ DOMAIN call = {"do", "obj", "detail", "at", "list"} /\ call.do = "object" /\ call.obj = o
    BY <1>4, CallFields
  <2>3. CallOk(call) /\ Closes(call) = 0 /\ call.do # "linker" /\ call.do \notin Chain
    BY <2>2 DEF CallOk, Closes, Chain
  <2>4. Closes(end) = 1 /\ end.do # "linker" /\ end.do \in Chain
    BY <1>6 DEF Closes, Chain
  <2> QED BY <1>1, <1>3, <1>7, <1>8, <2>1, <2>3, <2>4, StackTwo
<1> QED BY <1>9, <1>10, <1>11

LEMMA StackPointEnd ==
  ASSUME Stack(work, ctx), PointEnd, result.kind \notin Sourced
  PROVE  Stack(work', ctx')
<1>1. work # <<>> /\ Caller.do = "pointend" /\ Closes(Caller) = 1
  BY DEF PointEnd, Calls, Caller, Closes
<1>2. PICK c, list, next :
        /\ c = Caller /\ list \in {c.list, Append(c.list, result)}
        /\ next = [c EXCEPT !.do = "point", !.list = list]
        /\ Goto(<<next>>) /\ ctx' = Front(ctx)
  BY DEF PointEnd
<1>3. /\ CallOk(c) /\ Tail(work) # <<>>
      /\ Follows(c, Head(Tail(work))) /\ IsSeq(Tail(work)) /\ Stack(Tail(work), Front(ctx))
  BY <1>1, <1>2, StackCaller DEF Chain
<1>4. PICK S : c.list \in Seq(S) /\ \A g \in S : g.kind \notin Sourced
  BY <1>1, <1>2, <1>3 DEF CallOk
<1>5. \E T : list \in Seq(T) /\ \A g \in T : g.kind \notin Sourced
  <2>1. CASE list = c.list
    BY <1>4, <2>1
  <2>2. CASE list = Append(c.list, result)
    <3> DEFINE T == S \cup {result}
    <3>1. c.list \in Seq(T) /\ result \in T /\ \A g \in T : g.kind \notin Sourced
      BY <1>4
    <3> HIDE DEF T
    <3>2. list \in Seq(T)
      BY <2>2, <3>1
    <3> QED BY <3>1, <3>2
  <2> QED BY <1>2, <2>1, <2>2
<1>6. /\ DOMAIN c = {"do", "obj", "detail", "at", "list"} /\ c.do = "pointend" /\ c.at \in Nat \ {0}
  BY <1>1, <1>2, <1>3 DEF CallOk
<1>7. /\ DOMAIN next = DOMAIN c /\ next.do = "point" /\ next.obj = c.obj /\ next.at = c.at
      /\ next.detail = c.detail /\ next.list = list
  BY <1>2, <1>6
<1>8. CallOk(next)
  BY <1>3, <1>5, <1>6, <1>7 DEF CallOk
<1>9. Follows(next, Head(Tail(work)))
  BY <1>3, <1>6, <1>7 DEF Follows
<1>10. Closes(next) = 0 /\ next.do # "linker"
  BY <1>7 DEF Closes
<1>11. Stack(<<next>> \o Tail(work), Front(ctx))
  BY <1>3, <1>8, <1>9, <1>10, StackPush
<1> QED BY <1>2, <1>11 DEF Goto

LEMMA StackDetail ==
  ASSUME Stack(work, ctx), ExportDetail
  PROVE  Stack(work', ctx')
<1>1. work # <<>> /\ Caller.do = "detail" /\ Closes(Caller) = 0
  BY DEF ExportDetail, Calls, Caller, Closes
<1>2. CASE RenderPoints[Caller.obj] = "all"
  BY <1>1, <1>2, StackReturn DEF ExportDetail
<1>3. CASE RenderPoints[Caller.obj] # "all"
  <2>1. PICK c, o, d, l : c = Caller /\ o = Caller.obj /\ d = Caller.detail /\ l = Level(o, {})
    OBVIOUS
  <2>2. PICK a : a = Call("prim", o, d, 1)
    OBVIOUS
  <2>3. Goto(<<a>>) /\ ctx' = Append(ctx, l)
    BY <1>3, <2>1, <2>2 DEF ExportDetail
  <2>4. /\ CallOk(c) /\ Tail(work) # <<>>
        /\ Follows(c, Head(Tail(work))) /\ IsSeq(ctx) /\ Stack(Tail(work), ctx)
    BY <1>1, <2>1, StackCaller DEF Chain
  <2>5. /\ DOMAIN a = {"do", "obj", "detail", "at", "list"}
        /\ a.do = "prim" /\ a.obj = o /\ a.detail = d /\ a.at = 1 /\ RenderPoints[o] # "all"
    BY <1>3, <2>1, <2>2, CallFields
  <2>6. Leaf(o) /\ d \in Details /\ Within[d] \subseteq Within[Root[o]] /\ o \in Geometry
    BY <1>1, <2>1, <2>4 DEF CallOk, Leaf
  <2>7. CallOk(a)
    BY <2>5, <2>6 DEF CallOk
  <2>8. Closes(a) = 1 /\ a.do # "linker" /\ Follows(a, Head(Tail(work)))
    BY <1>1, <2>1, <2>4, <2>5 DEF Closes, Follows
  <2>9. Stack(<<a>> \o Tail(work), Append(ctx, l))
    BY <2>4, <2>7, <2>8, StackPush
  <2> QED BY <2>3, <2>9 DEF Goto
<1> QED BY <1>2, <1>3

LEMMA NextPrimIs ==
  ASSUME Stack(work, ctx), work # <<>>, Caller.do = "prim"
  PROVE  /\ CallOk(Caller)
         /\ Leaf(Caller.obj) /\ Caller.obj \in Geometry /\ Caller.detail \in Details
         /\ Within[Caller.detail] \subseteq Within[Root[Caller.obj]]
         /\ Caller.at \in Nat \ {0} /\ Tail(work) # <<>>
         /\ Head(Tail(work)).do = "pop" /\ Head(Tail(work)).obj = Caller.obj
         /\ CallOk(NextPrim) /\ NextPrim.do = "prim" /\ NextPrim.obj = Caller.obj
         /\ NextPrim.detail = Caller.detail /\ NextPrim.at = Caller.at + 1
         /\ Follows(NextPrim, Head(Tail(work)))
         /\ Closes(NextPrim) = 1
<1>1. PICK c, next, h : c = Caller /\ next = NextPrim /\ h = Head(Tail(work))
  OBVIOUS
<1>2. CallOk(c) /\ Tail(work) # <<>> /\ Follows(c, h)
  BY <1>1, StackCaller DEF Chain
<1>3. /\ DOMAIN c = {"do", "obj", "detail", "at", "list"} /\ c.at \in Nat \ {0}
      /\ RenderPoints[c.obj] # "all"
      /\ Leaf(c.obj) /\ c.obj \in Geometry /\ c.detail \in Details
      /\ Within[c.detail] \subseteq Within[Root[c.obj]]
  BY <1>1, <1>2 DEF CallOk, Leaf
<1>4. h.do = "pop" /\ h.obj = c.obj
  BY <1>1, <1>2 DEF Follows
<1>5. next = [c EXCEPT !.at = c.at + 1]
  BY <1>1 DEF NextPrim
<1>6. /\ DOMAIN next = DOMAIN c /\ next.do = "prim" /\ next.obj = c.obj /\ next.detail = c.detail
      /\ next.at = c.at + 1 /\ next.at \in Nat \ {0}
  BY <1>1, <1>3, <1>5
<1>7. CallOk(next)
  BY <1>3, <1>6 DEF CallOk
<1>8. Follows(next, h) /\ Closes(next) = 1
  BY <1>4, <1>6 DEF Follows, Closes
<1> QED BY <1>1, <1>2, <1>3, <1>4, <1>6, <1>7, <1>8

LEMMA StackPrim ==
  ASSUME Stack(work, ctx), work # <<>>, Caller.do = "prim",
         Goto(<<NextPrim>>), ctx' = ctx
  PROVE  Stack(work', ctx')
<1>1. Closes(Caller) = 1 /\ Caller.do \in Chain
  BY DEF Closes, Chain
<1>2. NextPrim.do # "linker"
  BY NextPrimIs
<1> QED BY <1>1, <1>2, NextPrimIs, StackGoOn

LEMMA StackPacked ==
  ASSUME Stack(work, ctx), ExportPacked
  PROVE  Stack(work', ctx')
<1>1. work # <<>> /\ Caller.do = "prim" /\ Closes(Caller) = 1
  BY DEF ExportPacked, PrimIs, Calls, Caller, Closes
<1>2. CASE ~doGeometry
  BY <1>1, <1>2, StackPrim DEF ExportPacked
<1>3. CASE doGeometry
  <2>1. PICK a, b, c, l, o, t, v :
          /\ a = Call("detail", o, ThisPrim.inner, 0) /\ b = Call("pop", o, None, 0)
          /\ c = NextPrim /\ l = PrimLevel /\ o = Caller.obj /\ t = Tail(work) /\ v = Front(ctx)
    OBVIOUS
  <2>2. Goto(<<a, b, c>>) /\ ctx' = Append(ctx, l)
    BY <1>3, <2>1 DEF ExportPacked
  <2>3. IsSeq(t) /\ Stack(t, v) /\ Len(ctx) > 0 /\ IsSeq(ctx)
    BY <1>1, <2>1, StackCaller
  <2>4. work' = <<a>> \o (<<b>> \o (<<c>> \o t))
    <3>1. ThreeCalls(a, b, c, t) = ThreeInTurn(a, b, c, t)
      BY <2>3, ThreeCallsAre
    <3>2. work' = ThreeCalls(a, b, c, t)
      BY <2>1, <2>2 DEF Goto, ThreeCalls
    <3> QED BY <3>1, <3>2 DEF ThreeInTurn
  <2>5. /\ CallOk(c) /\ Closes(c) = 1 /\ c.do = "prim" /\ c.obj = o
        /\ t # <<>> /\ Follows(c, Head(t)) /\ Leaf(o) /\ o \in Geometry
    BY <1>1, <2>1, NextPrimIs
  <2>6. Stack(<<c>> \o t, ctx) /\ IsSeq(<<c>> \o t) /\ Head(<<c>> \o t) = c /\ <<c>> \o t # <<>>
    <3>1. \E e : ctx = Append(v, e)
      BY <2>1, <2>3, FrontAndLast
    <3>2. c.do # "linker"
      BY <2>5
    <3>3. Stack(<<c>> \o t, ctx)
      BY <2>3, <2>5, <3>1, <3>2, StackPush
    <3> QED BY <2>3, <3>3, SeqFacts
  <2>7. /\ DOMAIN a = {"do", "obj", "detail", "at", "list"}
        /\ a.do = "detail" /\ a.obj = o /\ a.detail = ThisPrim.inner
        /\ DOMAIN b = {"do", "obj", "detail", "at", "list"} /\ b.do = "pop" /\ b.obj = o
    BY <2>1, CallFields
  <2>8. CallOk(a) /\ CallOk(b)
    <3>1. PICK p, d : p = ThisPrim /\ d = Caller.detail
      OBVIOUS
    <3>2. /\ d \in Details /\ Within[d] \subseteq Within[Root[o]] /\ Caller.at \in Nat \ {0}
          /\ Caller.at <= Len(Contents[d].prims) /\ p = Contents[d].prims[Caller.at]
          /\ p.kind = "packed"
      BY <1>1, <2>1, <3>1, NextPrimIs DEF ExportPacked, PrimIs, ThisPrim
    <3>3. p \in Range(Contents[d].prims)
      <4>1. Contents[d].prims \in Seq(Range(Contents[d].prims))
        BY <3>2, SceneAssumption
      <4>2. Caller.at \in DOMAIN Contents[d].prims
        BY <3>2, <4>1
      <4> QED BY <3>2, <4>2 DEF Range
    <3>4. p.inner \in Details /\ Within[p.inner] \subseteq Within[Root[o]]
      <4>1. p.inner \in Details
        BY <3>2, <3>3, SceneAssumption
      <4>2. Within[p.inner] \subseteq Within[d]
        BY <3>2, <3>3, WithinIs
      <4> QED BY <3>2, <4>1, <4>2
    <3>5. a.detail = p.inner
      BY <2>7, <3>1
    <3>6. CallOk(a)
      BY <2>5, <2>7, <3>4, <3>5 DEF CallOk
    <3>7. CallOk(b)
      BY <2>5, <2>7 DEF CallOk
    <3> QED BY <3>6, <3>7
  <2>9. /\ Closes(b) = 1 /\ b.do # "linker" /\ Follows(b, c)
        /\ Closes(a) = 0 /\ a.do # "linker" /\ Follows(a, b)
    BY <2>5, <2>7 DEF Closes, Follows
  <2>10. /\ Stack(<<b>> \o (<<c>> \o t), Append(ctx, l)) /\ IsSeq(<<b>> \o (<<c>> \o t))
         /\ Head(<<b>> \o (<<c>> \o t)) = b /\ <<b>> \o (<<c>> \o t) # <<>>
    <3>1. PICK u, more : u = <<c>> \o t /\ more = Append(ctx, l)
      OBVIOUS
    <3>2. Stack(<<b>> \o u, more)
      <4>1. \E e : more = Append(ctx, e)
        BY <3>1
      <4>2. Stack(u, ctx) /\ Head(u) = c /\ u # <<>>
        BY <2>6, <3>1
      <4> QED BY <2>8, <2>9, <4>1, <4>2, StackPush
    <3>3. IsSeq(<<b>> \o u) /\ Head(<<b>> \o u) = b /\ <<b>> \o u # <<>>
      <4>1. IsSeq(u)
        BY <2>6, <3>1
      <4> QED BY <4>1, SeqFacts
    <3> QED BY <3>1, <3>2, <3>3
  <2>11. Stack(<<a>> \o (<<b>> \o (<<c>> \o t)), Append(ctx, l))
    <3>1. PICK more : more = Append(ctx, l)
      OBVIOUS
    <3>2. Stack(<<a>> \o (<<b>> \o (<<c>> \o t)), more)
      BY <2>8, <2>9, <2>10, <3>1, StackPush
    <3> QED BY <3>1, <3>2
  <2> QED BY <2>2, <2>4, <2>11
<1> QED BY <1>2, <1>3

\* Every call of an export keeps the stack.
LEMMA StackStep ==
  ASSUME Stack(work, ctx), ExportStep, opCache \subseteq Geometry,
         result.kind \notin Sourced
  PROVE  Stack(work', ctx') /\ ~RestoreGeometry /\ work # <<>>
<1>1. work # <<>>
  BY DEF ExportStep, ExportLight, ExportNothing, ExportCached, ExportNew, ModeFull, CacheNode,
     ExportGeometry, Pop, ExportPoint, PointEnd, ExportDetail, SkipMeshPrim, ExportVolume, ExportPrim,
     ExportVRayScene, ExportPacked, ExportMeshes, ExportInstancer, ExportNode, ExportLightLinker,
     RestoreGeometry, PrimIs, Calls
<1>2. ~RestoreGeometry
  BY <1>1, StackCaller DEF RestoreGeometry, Calls, Caller, CallOk
<1>3. CASE \/ ExportLight \/ ExportNothing \/ ModeFull \/ CacheNode \/ ExportInstancer
           \/ ExportNode \/ ExportLightLinker
  <2>1. Closes(Caller) = 0
    BY <1>3 DEF ExportLight, ExportNothing, ModeFull, CacheNode, ExportInstancer, ExportNode,
                ExportLightLinker, Calls, Caller, Closes
  <2>2. Goto(<<>>) /\ ctx' = ctx
    BY <1>3 DEF ExportLight, ExportNothing, ModeFull, CacheNode, ExportInstancer, ExportNode,
                ExportLightLinker
  <2> QED BY <1>1, <1>2, <2>1, <2>2, StackReturn
<1>4. CASE Pop \/ ExportMeshes
  <2>1. Closes(Caller) = 1
    BY <1>4 DEF Pop, ExportMeshes, Calls, Caller, Closes
  <2>2. Goto(<<>>) /\ ctx' = Front(ctx)
    BY <1>4 DEF Pop, ExportMeshes
  <2> QED BY <1>1, <1>2, <2>1, <2>2, StackReturn
<1>5. CASE SkipMeshPrim \/ ExportVolume \/ ExportPrim \/ ExportVRayScene
  <2>1. Caller.do = "prim" /\ Goto(<<NextPrim>>) /\ ctx' = ctx
    BY <1>5 DEF SkipMeshPrim, ExportVolume, ExportPrim, ExportVRayScene, PrimIs, Calls, Caller
  <2> QED BY <1>1, <1>2, <2>1, StackPrim
<1> QED BY <1>1, <1>2, <1>3, <1>4, <1>5, StackObject, StackGeometry, StackPoint, StackPointEnd,
           StackDetail, StackPacked DEF ExportStep

-----------------------------------------------------------------------------
(* What the plugins show, and whether it is of the last version. *)

\* A plugin that an object's instancer shows is of its own geometry.  Particles are left
\* out of all that follows.
Good(g, o) ==
  g.kind \in Sourced =>
    /\ Leaf(o) /\ g.kind # "Volume" /\ RenderPoints[o] # "all"
    /\ \E d \in Within[Root[o]] : g.key = DetailID(d) /\ g.kind \in KindsOf(d) /\ d \in Details

\* A plugin exported for the detail d has a name that says so.
NameFor(n, d) ==
  \/ n.kind = "GeomParticleSystem"
  \/ n.kind \in {"mesh", "hair"} /\ n.key = DetailID(d)
  \/ n.kind = "Volume" /\ n.obj \in Geometry /\ d \in DetailsOf(n.obj)

\* The export of o makes a mesh or hair of the detail s.
Wanted(o, s) ==
  /\ Leaf(o) /\ RenderPoints[o] # "all" /\ s \in Details /\ s \in Within[Root[o]]
  /\ {"mesh", "hair"} \cap KindsOf(s) # {}

Fresh(g) == g \in DOMAIN plugins /\ g.kind \in Sourced => IsCurrent(g)

CallsInv == Stack(work, ctx)
ModesInv ==
  /\ phase \in {"new", "scene", "live"} /\ DOMAIN version = Details
  /\ phase # "live" => pending = {}
  /\ phase = "new" => work = <<>> /\ geoCache = {}
  /\ mode = "full" \/ HasFull(work)
  /\ doGeometry /\ opCache \subseteq Geometry /\ result.kind \notin Sourced
  /\ IsFiniteSet(geoCache) /\ IsSeq(items)
SourceInv ==
  \A n \in DOMAIN plugins : plugins[n].source # <<>> =>
    plugins[n].source[1] \in Details /\ NameFor(n, plugins[n].source[1])
FreshInv ==
  /\ phase # "live" => \A n \in DOMAIN plugins : IsCurrent(n)
  /\ work # <<>> => \A g \in geoCache \cup Range(items) : Fresh(g)
ItemInv ==
  items # <<>> =>
    /\ work # <<>> /\ Head(work).do \in {"detail", "prim", "pop", "instancer"}
    /\ \A g \in Range(items) : Good(g, Head(work).obj)

\* The items of o will be collected again before the work is done.
Coming(o, s) ==
  /\ mode = "full"
  /\ \/ work = ObjectCalls(<<o>>) /\ o \notin opCache
     \/ Way(work, o) /\ items # <<>>
     \/ Promised(work, o, s)
Due(o, g) ==
  \/ Fresh(g) \/ <<"geometry", o>> \in pending
  \/ \E s : Wanted(o, s) /\ Coming(o, s)
ShowsInv ==
  /\ \A o \in alive \cap Geometry : InstancerOf(o) \in DOMAIN plugins =>
       \A g \in Range(plugins[InstancerOf(o)].items) : Good(g, o) /\ Due(o, g)
  /\ \A n \in DOMAIN plugins : n.kind = "Volume" /\ n.obj \in alive =>
       Fresh(n) \/ <<"geometry", n.obj>> \in pending
IprInv == CallsInv /\ ModesInv /\ SourceInv /\ FreshInv /\ ItemInv /\ ShowsInv

LEMMA GoodWanted ==
  ASSUME NEW g, g.kind \in Sourced, NEW o, Good(g, o)
  PROVE  \E s : Wanted(o, s) /\ g.key = DetailID(s)
BY DEF Good, Wanted, Sourced

\* A step that exports nothing but what is of the last version.
Kept ==
  /\ version' = version
  /\ \A n \in DOMAIN plugins' :
       \/ n \in DOMAIN plugins /\ plugins'[n] = plugins[n]
       \/ plugins'[n].source = <<>>
       \/ \E d \in Details : plugins'[n].source = <<d, version[d]>> /\ NameFor(n, d)

LEMMA KeptFacts ==
  ASSUME Kept, SourceInv
  PROVE  /\ SourceInv'
         /\ \A n : Fresh(n) => Fresh(n)'
         /\ \A n \in DOMAIN plugins' : n \notin DOMAIN plugins \/ plugins'[n] # plugins[n] => Fresh(n)'
         /\ (\A n \in DOMAIN plugins : IsCurrent(n)) => \A n \in DOMAIN plugins' : IsCurrent(n)'
<1>1. ASSUME NEW n \in DOMAIN plugins'
      PROVE  \/ n \in DOMAIN plugins /\ plugins'[n] = plugins[n]
             \/ IsCurrent(n)' /\ (plugins'[n].source # <<>> =>
                  plugins'[n].source[1] \in Details /\ NameFor(n, plugins'[n].source[1]))
  <2>1. CASE plugins'[n].source = <<>>
    BY <2>1 DEF IsCurrent
  <2>2. ASSUME NEW d \in Details, plugins'[n].source = <<d, version[d]>>, NameFor(n, d)
        PROVE  IsCurrent(n)' /\ plugins'[n].source[1] \in Details /\ NameFor(n, plugins'[n].source[1])
    <3>1. plugins'[n].source[1] = d /\ plugins'[n].source[2] = version'[d]
      BY <2>2 DEF Kept
    <3> QED BY <2>2, <3>1 DEF IsCurrent
  <2> QED BY <2>1, <2>2 DEF Kept
<1>2. ASSUME NEW n \in DOMAIN plugins, n \in DOMAIN plugins', plugins'[n] = plugins[n]
      PROVE  /\ IsCurrent(n) => IsCurrent(n)'
             /\ plugins'[n].source # <<>> =>
                  plugins'[n].source[1] \in Details /\ NameFor(n, plugins'[n].source[1])
  BY <1>2 DEF Kept, IsCurrent, SourceInv
<1>3. SourceInv'
  <2>1. ASSUME NEW n \in DOMAIN plugins', plugins'[n].source # <<>>
        PROVE  plugins'[n].source[1] \in Details /\ NameFor(n, plugins'[n].source[1])
    BY <1>1, <1>2, <2>1
  <2> QED BY <2>1 DEF SourceInv, NameFor, Details, Geometry, DetailsOf
<1>4. \A n : Fresh(n) => Fresh(n)'
  <2> SUFFICES ASSUME NEW n, Fresh(n), n \in DOMAIN plugins', n.kind \in Sourced PROVE IsCurrent(n)'
    BY DEF Fresh, Sourced
  <2> QED BY <1>1, <1>2 DEF Fresh
<1> QED BY <1>1, <1>2, <1>3, <1>4 DEF Fresh

\* Items stay as they are, but for those of an instancer.
ItemsKept ==
  \A o \in Geometry : InstancerOf(o) \in DOMAIN plugins' =>
    InstancerOf(o) \in DOMAIN plugins /\ plugins'[InstancerOf(o)].items = plugins[InstancerOf(o)].items

\* What will be collected again still will be.
StillComing == \A o, s : Wanted(o, s) /\ Coming(o, s) => Coming(o, s)'

LEMMA VolumesShown ==
  ASSUME Kept, SourceInv, alive' \subseteq alive, pending' = pending, ShowsInv
  PROVE  \A n \in DOMAIN plugins' : n.kind = "Volume" /\ n.obj \in alive' =>
           Fresh(n)' \/ <<"geometry", n.obj>> \in pending'
<1> SUFFICES ASSUME NEW n \in DOMAIN plugins', n.kind = "Volume", n.obj \in alive', ~Fresh(n)'
             PROVE  <<"geometry", n.obj>> \in pending
  OBVIOUS
<1>1. n \in DOMAIN plugins /\ ~Fresh(n)
  BY KeptFacts
<1> QED BY <1>1 DEF ShowsInv

LEMMA DueKept ==
  ASSUME Kept, SourceInv, pending' = pending, NEW o, NEW g, Due(o, g),
         \A s : Wanted(o, s) /\ Coming(o, s) => Coming(o, s)'
  PROVE  Due(o, g)'
<1>1. CASE Fresh(g)
  BY <1>1, KeptFacts DEF Due
<1>2. CASE <<"geometry", o>> \in pending
  BY <1>2 DEF Due
<1>3. ASSUME NEW s, Wanted(o, s), Coming(o, s) PROVE Due(o, g)'
  <2>1. Coming(o, s)'
    BY <1>3
  <2>2. Wanted(o, s)'
    BY <1>3 DEF Wanted, Leaf, Geometry, Details, KindsOf
  <2> QED BY <2>1, <2>2 DEF Due
<1> QED BY <1>1, <1>2, <1>3 DEF Due

LEMMA ShowsKept ==
  ASSUME Kept, SourceInv, ShowsInv, ItemsKept, StillComing, alive' \subseteq alive, pending' = pending
  PROVE  ShowsInv'
<1>1. ASSUME NEW o \in alive' \cap Geometry, InstancerOf(o) \in DOMAIN plugins',
             NEW g \in Range(plugins'[InstancerOf(o)].items)
      PROVE  Good(g, o) /\ Due(o, g)'
  <2>1. /\ InstancerOf(o) \in DOMAIN plugins
        /\ plugins'[InstancerOf(o)].items = plugins[InstancerOf(o)].items
    BY <1>1 DEF ItemsKept
  <2>2. Good(g, o) /\ Due(o, g)
    BY <1>1, <2>1 DEF ShowsInv
  <2> QED BY <2>2, DueKept DEF StillComing
<1>2. \A o, g : Good(g, o)' <=> Good(g, o)
  BY DEF Good, Leaf, Geometry, Details, Sourced, DetailID, KindsOf
<1>3. \A o : InstancerOf(o)' = InstancerOf(o)
  BY DEF InstancerOf, Plugin
<1> QED BY <1>1, <1>2, <1>3, VolumesShown DEF ShowsInv, Geometry

-----------------------------------------------------------------------------
(* The calls, one by one. *)

LEMMA ComingCaller ==
  ASSUME work # <<>>, IsSeq(work), NEW o, NEW s, Coming(o, s)
  PROVE  /\ Caller.obj = o /\ mode = "full"
         /\ \/ Caller.do = "object" /\ o \notin opCache
            \/ Caller.do = "instancer"
            \/ /\ Caller.do \in {"geometry", "detail", "prim", "pop"} /\ Way(Tail(work), o)
               /\ items # <<>> \/ Leads(Caller, s) \/ Promised(Tail(work), o, s)
<1>1. CASE work = ObjectCalls(<<o>>) /\ o \notin opCache
  <2>1. Caller = Call("object", o, None, 0)
    BY <1>1 DEF Caller, ObjectCalls
  <2> QED BY <1>1, <2>1, CallFields DEF Coming
<1>2. CASE Way(work, o) /\ (items # <<>> \/ Promised(work, o, s))
  <2>1. Caller.obj = o
    <3>1. PICK m \in 1 .. Len(work) : WayAt(work, o, m)
      BY <1>2 DEF Way
    <3>2. Caller = work[1] /\ 1 \in 1 .. m
      BY <3>1, SeqFacts DEF Caller
    <3> QED BY <3>1, <3>2 DEF WayAt
  <2>2. CASE Caller.do # "instancer"
    <3>1. /\ Caller.do \in {"geometry", "detail", "prim", "pop"} /\ Way(Tail(work), o)
          /\ Promised(work, o, s) => Leads(Caller, s) \/ Promised(Tail(work), o, s)
      BY <1>2, <2>2, PromisedPop DEF Caller
    <3> QED BY <1>2, <2>1, <3>1 DEF Coming
  <2> QED BY <2>1, <2>2 DEF Coming
<1>3. Promised(work, o, s) => Way(work, o)
  BY DEF Promised, Way
<1> QED BY <1>1, <1>2, <1>3 DEF Coming

LEMMA NothingComes ==
  ASSUME work # <<>>, IsSeq(work),
         Caller.do \notin {"object", "instancer", "geometry", "detail", "prim", "pop"}
  PROVE  StillComing
BY ComingCaller DEF StillComing

LEMMA PutKeeps ==
  ASSUME version' = version, NEW name, NEW value, plugins' = Put(plugins, name, value),
         name.kind # "Instancer2",
         \/ value.source = <<>>
         \/ \E d \in Details : value.source = <<d, version[d]>> /\ NameFor(name, d)
  PROVE  Kept /\ ItemsKept
<1>1. /\ DOMAIN plugins' = DOMAIN plugins \cup {name} /\ plugins'[name] = value
      /\ \A n \in DOMAIN plugins \ {name} : plugins'[n] = plugins[n]
  BY DEF Put
<1>2. Kept
  BY <1>1 DEF Kept
<1>3. \A o : InstancerOf(o) # name
  BY DEF InstancerOf, Plugin
<1>4. ItemsKept
  BY <1>1, <1>3 DEF ItemsKept
<1> QED BY <1>2, <1>4

LEMMA SameKeeps ==
  ASSUME version' = version, plugins' = plugins
  PROVE  Kept /\ ItemsKept
BY DEF Kept, ItemsKept

\* What a call does to the caches and the items.
Cached ==
  \A g \in geoCache' \cup Range(items') : g \in geoCache \cup Range(items) \/ Fresh(g)'
Done == Kept /\ ItemsKept /\ StillComing /\ ItemInv' /\ Cached /\ ModesInv'

LEMMA IprFacts ==
  ASSUME IprInv, work # <<>>
  PROVE  /\ IsSeq(work) /\ IsSeq(Tail(work)) /\ CallOk(Caller)
         /\ Caller.do \in Chain => Tail(work) # <<>> /\ Follows(Caller, Head(Tail(work)))
         /\ Caller.do \notin {"detail", "prim", "pop", "instancer"} => items = <<>>
         /\ Caller.do # "full" => mode = "full" \/ HasFull(Tail(work))
         /\ phase \in {"scene", "live"}
<1>1. Stack(work, ctx)
  BY DEF IprInv, CallsInv
<1>2. Caller.do # "full" => mode = "full" \/ HasFull(Tail(work))
  BY <1>1, StackCaller, FullPop DEF IprInv, ModesInv, Caller
<1> QED BY <1>1, <1>2, StackCaller DEF IprInv, ModesInv, ItemInv, Caller

\* A call that returns, or goes on, without touching the caches and the items.
LEMMA QuietCall ==
  ASSUME IprInv, work # <<>>, UNCHANGED <<scene, doGeometry, geoCache, items>>, items = <<>>,
         NEW calls0, Goto(calls0), HasFull(Tail(work)) => HasFull(work)', opCache' \subseteq Geometry,
         Caller.do = "full" => mode' = "full", result'.kind \notin Sourced,
         mode' \in {mode, "full"} \/ HasFull(work)'
  PROVE  ItemInv' /\ Cached /\ ModesInv'
<1>1. ItemInv' /\ Cached
  BY DEF ItemInv, Cached
<1>2. mode' = "full" \/ HasFull(work)'
  BY IprFacts
<1>3. ModesInv'
  BY <1>2, IprFacts DEF IprInv, ModesInv, scene, Details, Geometry, Sourced
<1> QED BY <1>1, <1>3

LEMMA LightDone == IprInv /\ ExportLight => Done
<1> SUFFICES ASSUME IprInv, ExportLight PROVE Done
  OBVIOUS
<1>1. /\ work # <<>> /\ Caller.do = "object" /\ Caller.obj \in Lights /\ Goto(<<>>)
      /\ UNCHANGED <<scene, doGeometry, geoCache, items, opCache, mode>>
  BY DEF ExportLight, Calls, Caller, modes
<1>2. PICK name : name.kind = "Light" /\ result' = name /\ plugins' = Put(plugins, name, Of(<<>>))
  <2>1. \A key, o : Plugin("Light", key, o).kind = "Light"
    BY DEF Plugin
  <2> QED BY <2>1 DEF ExportLight
<1>3. work' = Tail(work)
  BY <1>1, IprFacts, NoCalls DEF Goto
<1>4. ItemInv' /\ Cached /\ ModesInv'
  <2>1. items = <<>> /\ opCache \subseteq Geometry /\ result'.kind \notin Sourced
    BY <1>1, <1>2, IprFacts DEF IprInv, ModesInv, Sourced
  <2> QED BY <1>1, <1>3, <2>1, QuietCall
<1>5. Kept /\ ItemsKept
  <2>1. version' = version /\ Of(<<>>).source = <<>>
    BY <1>1 DEF scene, Of
  <2> QED BY <1>2, <2>1, PutKeeps
<1>6. StillComing
  <2>1. ASSUME NEW o, NEW s, Wanted(o, s), Coming(o, s) PROVE FALSE
    <3>1. o \in Geometry /\ Caller.obj = o
      BY <1>1, <2>1, ComingCaller, IprFacts DEF Wanted, Leaf
    <3> QED BY <1>1, <3>1, SceneAssumption
  <2> QED BY <2>1 DEF StillComing
<1> QED BY <1>4, <1>5, <1>6 DEF Done

LEMMA CachedDone == IprInv /\ ExportCached => Done
<1> SUFFICES ASSUME IprInv, ExportCached PROVE Done
  OBVIOUS
<1>1. /\ work # <<>> /\ Caller.do = "object" /\ Caller.obj \in opCache
      /\ UNCHANGED <<scene, doGeometry, geoCache, items, opCache, result, plugins>>
  BY DEF ExportCached, Calls, Caller, caches
<1>2. PICK d : d.do = "full" /\ Goto(Append(NodeCalls(Caller.obj), d))
  <2>1. Goto(Append(NodeCalls(Caller.obj), Call("full", Caller.obj, None, 0)))
    BY DEF ExportCached
  <2> QED BY <2>1, CallFields
<1>3. HasFull(work)'
  <2>1. PICK a, b, n, t : NodeCalls(Caller.obj) = <<a, b, n>> /\ t = Tail(work)
    BY DEF NodeCalls
  <2>2. work' = FourCalls(a, b, n, d, t)
    BY <1>2, <2>1, Append3 DEF Goto, FourCalls
  <2>3. IsSeq(t)
    BY <1>1, <2>1, IprFacts
  <2>4. work' = FourInTurn(a, b, n, d, t)
    BY <2>2, <2>3, FourCallsAre
  <2>5. PICK u : u = <<d>> \o t
    OBVIOUS
  <2>6. PICK v : v = <<n>> \o u
    OBVIOUS
  <2>7. PICK w : w = <<b>> \o v
    OBVIOUS
  <2>8. work' = <<a>> \o w
    BY <2>4, <2>5, <2>6, <2>7 DEF FourInTurn
  <2>9. IsSeq(u) /\ HasFull(u)
    BY <1>2, <2>3, <2>5, SeqFacts, FullPush
  <2>10. IsSeq(v) /\ HasFull(v)
    BY <2>6, <2>9, SeqFacts, FullPush
  <2>11. IsSeq(w) /\ HasFull(w)
    BY <2>7, <2>10, SeqFacts, FullPush
  <2>12. HasFull(<<a>> \o w)
    BY <2>11, FullPush
  <2> QED BY <2>8, <2>12 DEF HasFull
<1>4. ItemInv' /\ Cached /\ ModesInv'
  <2>1. items = <<>> /\ opCache \subseteq Geometry /\ result.kind \notin Sourced
    BY <1>1, IprFacts DEF IprInv, ModesInv
  <2> QED BY <1>1, <1>2, <1>3, <2>1, QuietCall
<1>5. Kept /\ ItemsKept
  BY <1>1, SameKeeps DEF scene
<1>6. StillComing
  BY <1>1, ComingCaller, IprFacts DEF StillComing
<1> QED BY <1>4, <1>5, <1>6 DEF Done

LEMMA NewDone == IprInv /\ ExportNew => Done
<1> SUFFICES ASSUME IprInv, ExportNew PROVE Done
  OBVIOUS
<1>1. /\ work # <<>> /\ Caller.do = "object"
      /\ UNCHANGED <<scene, doGeometry, mode, geoCache, items, opCache, result, plugins>>
  BY DEF ExportNew, Calls, Caller, caches, modes
<1>2. PICK d, a, b, n, t, o :
        /\ o = Caller.obj /\ t = Tail(work) /\ a = Call("geometry", o, Root[o], 0)
        /\ b = Call("instancer", o, None, 0) /\ n = Call("node", o, None, 0)
        /\ d = Call("cache", o, None, 0)
  OBVIOUS
<1>3. NodeCalls(o) = <<a, b, n>> /\ Goto(Append(NodeCalls(o), d))
  BY <1>2 DEF NodeCalls, ExportNew
<1>4. work' = FourCalls(a, b, n, d, t)
  BY <1>2, <1>3, Append3 DEF Goto, FourCalls
<1>5. IsSeq(t)
  BY <1>1, <1>2, IprFacts
<1>6. work' = FourInTurn(a, b, n, d, t)
  BY <1>4, <1>5, FourCallsAre
<1>7. PICK u, v, w : u = <<d>> \o t /\ v = <<n>> \o u /\ w = <<b>> \o v
  OBVIOUS
<1>8. work' = <<a>> \o w
  BY <1>6, <1>7 DEF FourInTurn
<1>9. IsSeq(u) /\ (HasFull(t) => HasFull(u))
  BY <1>5, <1>7, SeqFacts, FullPush
<1>10. IsSeq(v) /\ (HasFull(t) => HasFull(v))
  BY <1>7, <1>9, SeqFacts, FullPush
<1>11. IsSeq(w) /\ (HasFull(t) => HasFull(w)) /\ Len(w) \in Nat /\ Len(w) >= 1 /\ w[1] = b
  <2>1. IsSeq(v) /\ w = <<b>> \o v
    BY <1>7, <1>10
  <2>2. IsSeq(w) /\ Len(w) = Len(v) + 1 /\ w[1] = b /\ Len(v) \in Nat
    BY <2>1, SeqFacts
  <2> QED BY <1>10, <2>1, <2>2, FullPush
<1>12. HasFull(t) => HasFull(<<a>> \o w)
  BY <1>11, FullPush
<1>13. ItemInv' /\ Cached /\ ModesInv'
  <2>1. items = <<>> /\ opCache \subseteq Geometry /\ result.kind \notin Sourced
    BY <1>1, IprFacts DEF IprInv, ModesInv
  <2>2. HasFull(Tail(work)) => HasFull(work)'
    BY <1>2, <1>8, <1>12 DEF HasFull
  <2> QED BY <1>1, <1>3, <2>1, <2>2, QuietCall
<1>14. Way(w, o)
  <2>1. b.do = "instancer" /\ b.obj = o
    BY <1>2, CallFields
  <2>2. WayAt(w, o, 1)
    <3>1. \A j \in 1 .. 1 : w[j].obj = o
      BY <1>11, <2>1
    <3> QED BY <1>11, <2>1, <3>1 DEF WayAt
  <2>3. 1 \in 1 .. Len(w)
    BY <1>11
  <2> QED BY <2>2, <2>3 DEF Way
<1>15. \A s : Promised(work', o, s)
  <2>1. a.obj = o /\ a.do = "geometry"
    BY <1>2, CallFields
  <2>2. \A s : Leads(a, s)
    BY <2>1 DEF Leads
  <2>3. \A s : Promised(<<a>> \o w, o, s)
    BY <1>11, <1>14, <2>1, <2>2, PromisedPush
  <2> QED BY <1>8, <2>3
<1>16. StillComing
  <2>1. ASSUME NEW q, NEW s, Coming(q, s) PROVE Coming(q, s)'
    <3>1. q = o /\ mode' = "full"
      BY <1>1, <1>2, <2>1, ComingCaller, IprFacts
    <3>2. Promised(work', q, s)
      BY <1>15, <3>1
    <3>3. Promised(work, q, s)'
      BY <3>2
    <3> QED BY <3>1, <3>3 DEF Coming
  <2> QED BY <2>1 DEF StillComing
<1>17. Kept /\ ItemsKept
  BY <1>1, SameKeeps DEF scene
<1> QED BY <1>13, <1>16, <1>17 DEF Done

\* An object that is not exported shows nothing.
LEMMA NothingDone == IprInv /\ ExportNothing => Done
<1> SUFFICES ASSUME IprInv, ExportNothing PROVE Done
  OBVIOUS
<1>1. /\ work # <<>> /\ Caller.do = "object" /\ Root[Caller.obj] = None /\ Goto(<<>>)
      /\ UNCHANGED <<scene, doGeometry, geoCache, items, opCache, mode, plugins>>
      /\ result'.kind \notin Sourced
  BY DEF ExportNothing, Calls, Caller, modes, caches, NoPlugin, Plugin, Sourced
<1>2. work' = Tail(work)
  BY <1>1, IprFacts, NoCalls DEF Goto
<1>3. ItemInv' /\ Cached /\ ModesInv'
  <2>1. items = <<>> /\ opCache \subseteq Geometry
    BY <1>1, IprFacts DEF IprInv, ModesInv
  <2> QED BY <1>1, <1>2, <2>1, QuietCall
<1>4. Kept /\ ItemsKept
  BY <1>1, SameKeeps DEF scene
<1>5. StillComing
  <2>1. ASSUME NEW o, NEW s, Wanted(o, s), Coming(o, s) PROVE FALSE
    <3>1. Root[o] # None /\ Caller.obj = o
      BY <1>1, <2>1, ComingCaller, IprFacts DEF Wanted, Leaf
    <3> QED BY <1>1, <3>1
  <2> QED BY <2>1 DEF StillComing
<1> QED BY <1>3, <1>4, <1>5 DEF Done

LEMMA ReturnDone == IprInv /\ (ModeFull \/ CacheNode \/ ExportNode) => Done
<1> SUFFICES ASSUME IprInv, ModeFull \/ CacheNode \/ ExportNode PROVE Done
  OBVIOUS
<1>1. /\ work # <<>> /\ Caller.do \in {"full", "cache", "node"} /\ Goto(<<>>)
      /\ UNCHANGED <<scene, doGeometry, geoCache, items>>
      /\ mode' \in {mode, "full"} /\ (Caller.do = "full" => mode' = "full")
  BY DEF ModeFull, CacheNode, ExportNode, Calls, Caller, caches, modes
<1>2. work' = Tail(work) /\ CallOk(Caller) /\ items = <<>>
  BY <1>1, IprFacts, NoCalls DEF Goto
<1>3. Caller.obj \in Geometry
  BY <1>1, <1>2 DEF CallOk
<1>4. opCache' \subseteq Geometry /\ result'.kind \notin Sourced
  <2>1. NodeOf(Caller.obj).kind = "Node" /\ NoPlugin.kind = "none"
    BY DEF NodeOf, NoPlugin, Plugin
  <2>2. opCache \subseteq Geometry /\ result.kind \notin Sourced
    BY DEF IprInv, ModesInv
  <2> QED BY <1>3, <2>1, <2>2 DEF ModeFull, CacheNode, ExportNode, caches, Sourced
<1>5. ItemInv' /\ Cached /\ ModesInv'
  BY <1>1, <1>2, <1>4, QuietCall
<1>6. Kept /\ ItemsKept
  <2>1. version' = version
    BY <1>1 DEF scene
  <2>2. CASE plugins' = plugins
    BY <2>1, <2>2, SameKeeps
  <2>3. CASE plugins' # plugins
    <3>1. PICK list : plugins' = Put(plugins, NodeOf(Caller.obj), Of(list))
      BY <2>3 DEF ModeFull, CacheNode, ExportNode, caches
    <3>2. NodeOf(Caller.obj).kind = "Node" /\ Of(list).source = <<>>
      BY DEF NodeOf, Plugin, Of
    <3> QED BY <2>1, <3>1, <3>2, PutKeeps
  <2> QED BY <2>2, <2>3
<1>7. StillComing
  BY <1>1, IprFacts, NothingComes
<1> QED BY <1>5, <1>6, <1>7 DEF Done

LEMMA PointEndDone == IprInv /\ PointEnd => Done
<1> SUFFICES ASSUME IprInv, PointEnd PROVE Done
  OBVIOUS
<1>1. /\ work # <<>> /\ Caller.do = "pointend"
      /\ UNCHANGED <<scene, doGeometry, mode, geoCache, items, opCache, result, plugins>>
  BY DEF PointEnd, Calls, Caller, caches, modes
<1>2. PICK next : Goto(<<next>>)
  BY DEF PointEnd
<1>3. items = <<>> /\ opCache \subseteq Geometry /\ result.kind \notin Sourced
  BY <1>1, IprFacts DEF IprInv, ModesInv
<1>4. HasFull(Tail(work)) => HasFull(work)'
  <2>1. HasFull(Tail(work)) => HasFull(<<next>> \o Tail(work))
    BY <1>1, IprFacts, FullPush
  <2> QED BY <1>2, <2>1 DEF Goto, HasFull
<1>5. ItemInv' /\ Cached /\ ModesInv'
  BY <1>1, <1>2, <1>3, <1>4, QuietCall
<1>6. StillComing
  BY <1>1, IprFacts, NothingComes
<1> QED BY <1>1, <1>5, <1>6, SameKeeps DEF Done, scene

LEMMA LinkerDone == IprInv /\ ExportLightLinker => Kept /\ ItemsKept /\ StillComing /\ work' = <<>>
<1> SUFFICES ASSUME IprInv, ExportLightLinker
             PROVE  Kept /\ ItemsKept /\ StillComing /\ work' = <<>>
  OBVIOUS
<1>1. work # <<>> /\ Caller.do = "linker" /\ Goto(<<>>) /\ version' = version
  BY DEF ExportLightLinker, Calls, Caller
<1>2. work' = <<>>
  <2>1. Stack(work, ctx)
    BY DEF IprInv, CallsInv
  <2>2. Tail(work) = <<>>
    BY <1>1, <2>1, StackCaller
  <2> QED BY <1>1, <2>2 DEF Goto
<1>3. Kept /\ ItemsKept
  <2>1. PICK list : plugins' = Put(plugins, LightLinker, Of(list))
    BY DEF ExportLightLinker
  <2>2. LightLinker.kind = "SettingsLightLinker" /\ Of(list).source = <<>>
    BY DEF LightLinker, Plugin, Of
  <2> QED BY <1>1, <2>1, <2>2, PutKeeps
<1> QED BY <1>1, <1>2, <1>3, IprFacts, NothingComes

LEMMA GeometryDone == IprInv /\ ExportGeometry => Done
<1> SUFFICES ASSUME IprInv, ExportGeometry PROVE Done
  OBVIOUS
<1>1. /\ work # <<>> /\ Caller.do = "geometry"
      /\ UNCHANGED <<scene, doGeometry, mode, geoCache, items, opCache, result, plugins>>
  BY DEF ExportGeometry, Calls, Caller, caches, modes
<1>2. PICK o, d, t : o = Caller.obj /\ d = Caller.detail /\ t = Tail(work)
  OBVIOUS
<1>3. IsSeq(t) /\ d = Root[o] /\ items = <<>>
  BY <1>1, <1>2, IprFacts DEF CallOk
<1>4. PICK calls0 : Goto(calls0)
  BY DEF ExportGeometry
<1>5. PICK a, b :
        /\ b = Call("pop", o, d, 0)
        /\ a = IF Contents[d].points # <<>> THEN Call("point", o, d, 1) ELSE Call("detail", o, d, 0)
  OBVIOUS
<1>6. Goto(<<a, b>>)
  BY <1>2, <1>5 DEF ExportGeometry
<1>7. PICK u : u = <<b>> \o t
  OBVIOUS
<1>8. work' = <<a>> \o u
  BY <1>2, <1>3, <1>6, <1>7, TwoCalls DEF Goto
<1>9. IsSeq(u) /\ (HasFull(t) => HasFull(u))
  BY <1>3, <1>7, SeqFacts, FullPush
<1>10. HasFull(t) => HasFull(<<a>> \o u)
  BY <1>9, FullPush
<1>11. ItemInv' /\ Cached /\ ModesInv'
  <2>1. opCache \subseteq Geometry /\ result.kind \notin Sourced
    BY DEF IprInv, ModesInv
  <2>2. HasFull(Tail(work)) => HasFull(work)'
    BY <1>2, <1>8, <1>10 DEF HasFull
  <2> QED BY <1>1, <1>3, <1>4, <2>1, <2>2, QuietCall
<1>12. StillComing
  <2>1. ASSUME NEW q, NEW s, Wanted(q, s), Coming(q, s)
        PROVE  Coming(q, s)'
    <3>1. q = o /\ mode' = "full" /\ Way(t, o)
      BY <1>1, <1>2, <2>1, ComingCaller, IprFacts
    <3>2. a = Call("detail", o, d, 0) /\ s \in Within[d]
      BY <1>3, <1>5, <2>1, <3>1 DEF Wanted, Leaf
    <3>3. a.do = "detail" /\ a.obj = o /\ a.detail = d /\ b.do = "pop" /\ b.obj = o
      BY <1>5, <3>2, CallFields
    <3>4. Way(u, o)
      BY <1>3, <1>7, <3>1, <3>3, PromisedPush
    <3>5. Leads(a, s)
      BY <3>2, <3>3 DEF Leads
    <3>6. Promised(<<a>> \o u, o, s)
      BY <1>9, <3>3, <3>4, <3>5, PromisedPush
    <3>7. Promised(work, q, s)'
      BY <1>8, <3>1, <3>6
    <3> QED BY <3>1, <3>7 DEF Coming
  <2> QED BY <2>1 DEF StillComing
<1> QED BY <1>1, <1>11, <1>12, SameKeeps DEF Done, scene

LEMMA PointDone == IprInv /\ ExportPoint => Done
<1> SUFFICES ASSUME IprInv, ExportPoint PROVE Done
  OBVIOUS
<1>1. /\ work # <<>> /\ Caller.do = "point"
      /\ UNCHANGED <<scene, doGeometry, mode, geoCache, opCache, result, plugins>>
  BY DEF ExportPoint, Calls, Caller, caches, modes
<1>2. PICK c, t : c = Caller /\ t = Tail(work)
  OBVIOUS
<1>3. /\ CallOk(c) /\ IsSeq(t) /\ t # <<>> /\ items = <<>>
      /\ Head(t).do = "pop" /\ Head(t).obj = c.obj
  BY <1>1, <1>2, IprFacts DEF Chain, Follows
<1>4. opCache \subseteq Geometry /\ result.kind \notin Sourced
  BY DEF IprInv, ModesInv
<1>5. CASE items' = items
  <2>1. CASE Goto(<<>>)
    <3>1. work' = t
      BY <1>2, <1>3, <2>1, NoCalls DEF Goto
    <3>2. HasFull(Tail(work)) => HasFull(work)'
      BY <1>2, <3>1 DEF HasFull
    <3> QED BY <1>1, <1>3, <1>4, <1>5, <2>1, <3>2, QuietCall, IprFacts, NothingComes, SameKeeps
               DEF Done, scene
  <2>2. ASSUME NEW a, Goto(<<a>>) PROVE Done
    <3>1. HasFull(t) => HasFull(<<a>> \o t)
      BY <1>3, FullPush
    <3>2. HasFull(Tail(work)) => HasFull(work)'
      BY <1>2, <2>2, <3>1 DEF HasFull, Goto
    <3>3. ItemInv' /\ Cached /\ ModesInv'
      BY <1>1, <1>3, <1>4, <1>5, <2>2, <3>2, QuietCall
    <3> QED BY <1>1, <3>3, IprFacts, NothingComes, SameKeeps DEF Done, scene
  <2>3. ASSUME NEW a, NEW b, Goto(<<a, b>>) PROVE Done
    <3>1. PICK u : u = <<b>> \o t
      OBVIOUS
    <3>2. work' = <<a>> \o u
      BY <1>2, <1>3, <2>3, <3>1, TwoCalls DEF Goto
    <3>3. IsSeq(u) /\ (HasFull(t) => HasFull(u))
      BY <1>3, <3>1, SeqFacts, FullPush
    <3>4. HasFull(t) => HasFull(<<a>> \o u)
      BY <3>3, FullPush
    <3>5. HasFull(Tail(work)) => HasFull(work)'
      BY <1>2, <3>2, <3>4 DEF HasFull
    <3>6. ItemInv' /\ Cached /\ ModesInv'
      BY <1>1, <1>3, <1>4, <1>5, <2>3, <3>5, QuietCall
    <3> QED BY <1>1, <3>6, IprFacts, NothingComes, SameKeeps DEF Done, scene
  <2> QED BY <2>1, <2>2, <2>3 DEF ExportPoint
<1>6. CASE items' # items
  <2>1. items' = items \o c.list /\ Goto(<<>>)
    BY <1>2, <1>6 DEF ExportPoint
  <2>2. work' = t
    BY <1>2, <1>3, <2>1, NoCalls DEF Goto
  <2>3. PICK S : c.list \in Seq(S) /\ \A g \in S : g.kind \notin Sourced
    BY <1>1, <1>2, <1>3 DEF CallOk
  <2>4. items' \in Seq(S)
    BY <1>3, <2>1, <2>3
  <2>5. \A g \in Range(items') : g.kind \notin Sourced
    BY <2>3, <2>4 DEF Range
  <2>6. ItemInv'
    BY <1>3, <2>2, <2>5 DEF ItemInv, Good, Sourced
  <2>7. Cached
    <3>1. \A g \in Range(items') : Fresh(g)'
      BY <2>5 DEF Fresh, Sourced
    <3> QED BY <1>1, <3>1 DEF Cached
  <2>8. ModesInv'
    <3>1. HasFull(Tail(work)) => HasFull(work)'
      BY <1>2, <2>2 DEF HasFull
    <3>2. mode' = "full" \/ HasFull(work)'
      BY <1>1, <3>1, IprFacts
    <3>3. IsSeq(items')
      BY <2>4 DEF IsSeq
    <3> QED BY <1>1, <3>2, <3>3, IprFacts DEF IprInv, ModesInv, scene, Details, Geometry, Sourced, IsSeq
  <2> QED BY <1>1, <2>6, <2>7, <2>8, IprFacts, NothingComes, SameKeeps DEF Done, scene
<1> QED BY <1>5, <1>6

\* A call that may collect items.
LEMMA CollectingCall ==
  ASSUME IprInv, work # <<>>, Caller.do # "full",
         UNCHANGED <<scene, doGeometry, mode, opCache, result>>,
         HasFull(Tail(work)) => HasFull(work)', IsSeq(items'),
         NEW new, geoCache' = geoCache \cup new, IsFiniteSet(new)
  PROVE  ModesInv'
<1>1. mode' = "full" \/ HasFull(work)'
  BY IprFacts
<1>2. IsFiniteSet(geoCache')
  BY FS_Union DEF IprInv, ModesInv
<1> QED BY <1>1, <1>2, IprFacts DEF IprInv, ModesInv, scene, Details, Geometry, Sourced, IsSeq

\* Plugins of other kinds have no version.
LEMMA FreshKinds ==
  ASSUME NEW g, g.kind \notin Sourced
  PROVE  Fresh(g)'
BY DEF Fresh, Sourced

LEMMA PopDone == IprInv /\ Pop => Done
<1> SUFFICES ASSUME IprInv, Pop PROVE Done
  OBVIOUS
<1>1. /\ work # <<>> /\ Caller.do = "pop" /\ Goto(<<>>)
      /\ UNCHANGED <<scene, doGeometry, mode, geoCache, items, opCache, result, plugins>>
  BY DEF Pop, Calls, Caller, caches, modes
<1>2. PICK c, t : c = Caller /\ t = Tail(work)
  OBVIOUS
<1>3. /\ IsSeq(t) /\ t # <<>> /\ Head(t).do \in {"prim", "instancer"} /\ Head(t).obj = c.obj
      /\ work' = t
  BY <1>1, <1>2, IprFacts, NoCalls DEF Chain, Follows, Goto
<1>4. ItemInv'
  BY <1>1, <1>2, <1>3 DEF IprInv, ItemInv, Caller, Good, Leaf, Geometry, Details, Sourced, DetailID, KindsOf
<1>5. ModesInv'
  <2>1. HasFull(Tail(work)) => HasFull(work)'
    BY <1>2, <1>3 DEF HasFull
  <2>2. geoCache' = geoCache \cup {} /\ IsFiniteSet({}) /\ IsSeq(items')
    BY <1>1, FS_EmptySet DEF IprInv, ModesInv, IsSeq
  <2> QED BY <1>1, <2>1, <2>2, CollectingCall
<1>6. StillComing
  <2>1. ASSUME NEW q, NEW s, Coming(q, s) PROVE Coming(q, s)'
    <3>1. mode = "full" /\ Way(t, q) /\ (items # <<>> \/ Promised(t, q, s))
      BY <1>1, <1>2, <2>1, ComingCaller, IprFacts DEF Leads
    <3>2. Way(work, q)' /\ (items' # <<>> \/ Promised(work, q, s)')
      BY <1>1, <1>3, <3>1
    <3> QED BY <1>1, <3>1, <3>2 DEF Coming
  <2> QED BY <2>1 DEF StillComing
<1> QED BY <1>1, <1>4, <1>5, <1>6, SameKeeps DEF Done, Cached, scene

\* Items that are added at the end.
LEMMA MoreItems ==
  ASSUME NEW s, IsSeq(s), NEW t, IsSeq(t)
  PROVE  /\ IsSeq(s \o t) /\ Range(s \o t) = Range(s) \cup Range(t)
         /\ (s # <<>> \/ t # <<>> => s \o t # <<>>)
         /\ \A e : IsSeq(Append(s, e)) /\ Range(Append(s, e)) = Range(s) \cup {e}
                   /\ Append(s, e) # <<>>
<1>1. PICK S, T : s \in Seq(S) /\ t \in Seq(T)
  BY DEF IsSeq
<1>2. PICK U : U = S \cup T
  OBVIOUS
<1>3. s \in Seq(U) /\ t \in Seq(U)
  BY <1>1, <1>2
<1>4. /\ s \o t \in Seq(U) /\ Len(s \o t) = Len(s) + Len(t) /\ Len(s) \in Nat /\ Len(t) \in Nat
      /\ \A i \in 1 .. Len(s) : (s \o t)[i] = s[i]
      /\ \A i \in 1 .. Len(t) : (s \o t)[Len(s) + i] = t[i]
      /\ DOMAIN s = 1 .. Len(s) /\ DOMAIN t = 1 .. Len(t)
      /\ DOMAIN (s \o t) = 1 .. Len(s) + Len(t)
  BY <1>3
<1>5. PICK both : both = s \o t
  OBVIOUS
<1>6. /\ both \in Seq(U) /\ Len(both) = Len(s) + Len(t) /\ Len(s) \in Nat /\ Len(t) \in Nat
      /\ \A i \in 1 .. Len(s) : both[i] = s[i]
      /\ \A i \in 1 .. Len(t) : both[Len(s) + i] = t[i]
      /\ DOMAIN s = 1 .. Len(s) /\ DOMAIN t = 1 .. Len(t) /\ DOMAIN both = 1 .. Len(s) + Len(t)
  BY <1>4, <1>5
<1>7. Range(both) = Range(s) \cup Range(t)
  <2>1. ASSUME NEW i \in 1 .. Len(s) + Len(t) PROVE both[i] \in Range(s) \cup Range(t)
    <3>1. CASE i \in 1 .. Len(s)
      BY <1>6, <3>1 DEF Range
    <3>2. CASE i \notin 1 .. Len(s)
      <4>1. i - Len(s) \in 1 .. Len(t) /\ Len(s) + (i - Len(s)) = i
        BY <1>6, <3>2
      <4> QED BY <1>6, <4>1 DEF Range
    <3> QED BY <3>1, <3>2
  <2>2. ASSUME NEW i \in 1 .. Len(s) PROVE s[i] \in Range(both)
    <3>1. i \in DOMAIN both
      BY <1>6
    <3> QED BY <1>6, <3>1 DEF Range
  <2>3. ASSUME NEW i \in 1 .. Len(t) PROVE t[i] \in Range(both)
    <3>1. Len(s) + i \in DOMAIN both
      BY <1>6
    <3> QED BY <1>6, <3>1 DEF Range
  <2> QED BY <1>6, <2>1, <2>2, <2>3 DEF Range
<1>8. s # <<>> \/ t # <<>> => both # <<>>
  <2>1. (s # <<>> => Len(s) > 0) /\ (t # <<>> => Len(t) > 0) /\ (both = <<>> => Len(both) = 0)
    BY <1>1, <1>6
  <2> QED BY <1>6, <2>1
<1>9. ASSUME NEW e
      PROVE  IsSeq(Append(s, e)) /\ Range(Append(s, e)) = Range(s) \cup {e} /\ Append(s, e) # <<>>
  <2>1. PICK V, more : V = S \cup {e} /\ more = Append(s, e)
    OBVIOUS
  <2>2. s \in Seq(V) /\ e \in V
    BY <1>1, <2>1
  <2>3. /\ more \in Seq(V) /\ DOMAIN more = 1 .. Len(s) + 1 /\ more[Len(s) + 1] = e
        /\ Len(more) = Len(s) + 1 /\ \A i \in 1 .. Len(s) : more[i] = s[i]
    BY <1>6, <2>1, <2>2
  <2>4. Range(more) = Range(s) \cup {e}
    <3>1. \A i \in 1 .. Len(s) + 1 : i \in 1 .. Len(s) \/ i = Len(s) + 1
      BY <1>6
    <3>2. Len(s) + 1 \in 1 .. Len(s) + 1 /\ \A i \in 1 .. Len(s) : i \in 1 .. Len(s) + 1
      BY <1>6
    <3>3. ASSUME NEW i \in 1 .. Len(s) + 1 PROVE more[i] \in Range(s) \cup {e}
      BY <1>6, <2>3, <3>1 DEF Range
    <3>4. ASSUME NEW i \in 1 .. Len(s) PROVE s[i] \in Range(more)
      BY <2>3, <3>2 DEF Range
    <3>5. e \in Range(more)
      BY <2>3, <3>2 DEF Range
    <3> QED BY <1>6, <2>3, <3>3, <3>4, <3>5 DEF Range
  <2>5. more # <<>>
    BY <1>6, <2>3
  <2> QED BY <2>1, <2>3, <2>4, <2>5 DEF IsSeq
<1> QED BY <1>5, <1>6, <1>7, <1>8, <1>9 DEF IsSeq

LEMMA SetItems ==
  ASSUME NEW S, IsFiniteSet(S)
  PROVE  /\ IsSeq(SetToSeq(S)) /\ Range(SetToSeq(S)) \subseteq S
         /\ S # {} => SetToSeq(S) # <<>>
<1>1. SetToSeq(S) \in Seq(S) /\ Range(SetToSeq(S)) \subseteq S
  BY SetToSeqIsSeq
<1>2. Cardinality(S) \in Nat /\ \E f \in [1..Cardinality(S) -> S] : IsInjective(f)
  BY FS_CardinalityType DEF ExistsBijection, Bijection, Injection, IsInjective
<1>3. SetToSeq(S) \in [1..Cardinality(S) -> S]
  BY <1>2 DEF SetToSeq
<1>4. S # {} => Cardinality(S) # 0
  BY FS_EmptySet
<1>5. SetToSeq(S) = <<>> => Len(SetToSeq(S)) = 0
  OBVIOUS
<1>6. Len(SetToSeq(S)) = Cardinality(S)
  BY <1>2, <1>3
<1> QED BY <1>1, <1>4, <1>5, <1>6 DEF IsSeq

-----------------------------------------------------------------------------
(* Particles, meshes and the other plugins of a detail. *)

\* The calls that can be made for what is in a detail.
LEMMA DetailLeads ==
  ASSUME NEW d \in Details, NEW o, NEW s, s \in Within[d]
  PROVE  Leads(Call("prim", o, d, 1), s)
<1>1. PICK c : c = Call("prim", o, d, 1)
  OBVIOUS
<1>2. c.do = "prim" /\ c.detail = d /\ c.at = 1
  BY <1>1, CallFields
<1>3. CASE s = d
  BY <1>1, <1>2, <1>3 DEF Leads
<1>4. CASE s # d
  <2>1. PICK p \in Range(Contents[d].prims) : p.kind = "packed" /\ s \in Within[p.inner]
    BY <1>4, WithinIs
  <2>2. PICK i \in DOMAIN Contents[d].prims : p = Contents[d].prims[i]
    BY <2>1 DEF Range
  <2>3. 1 <= i
    BY <2>2, SceneAssumption
  <2> QED BY <1>1, <1>2, <2>1, <2>2, <2>3 DEF Leads
<1> QED BY <1>1, <1>3, <1>4

\* The particles of a detail, whatever the cache has for its context.
LEMMA ParticlesAre ==
  ASSUME IprInv, ExportDetail
  PROVE  /\ Kept /\ ItemsKept /\ IsSeq(items') /\ (items # <<>> => items' # <<>>)
         /\ \A g \in Range(items') : g \in Range(items) \/ g.kind \notin Sourced
         /\ \E new : /\ geoCache' = geoCache \cup new /\ IsFiniteSet(new)
                     /\ \A n \in new : n.kind \notin Sourced
<1>1. work # <<>> /\ Caller.do = "detail" /\ version' = version /\ IsSeq(items)
  BY DEF ExportDetail, Calls, Caller, scene, IprInv, ModesInv
<1>2. PICK o, d : o = Caller.obj /\ d = Caller.detail
  OBVIOUS
<1>3. ExportParticles(d, o)
  BY <1>2 DEF ExportDetail
<1>4. CASE RenderPoints[o] = "none"
  <2>1. UNCHANGED <<items, plugins, geoCache>>
    BY <1>3, <1>4 DEF ExportParticles
  <2>2. geoCache' = geoCache \cup {} /\ IsFiniteSet({})
    BY <2>1, FS_EmptySet
  <2> QED BY <1>1, <2>1, <2>2, SameKeeps
<1>5. CASE RenderPoints[o] # "none"
  <2>1. PICK found, owner, entry, added :
          /\ found = CachedAs("points", ContextID(ctx))
          /\ owner = IF RenderPoints[o] \in Contents[d].particles THEN o ELSE None
          /\ entry = IF found # {} THEN found ELSE {PointsEntry(ContextID(ctx), owner)}
          /\ added = {ParticlesOf(n.obj) : n \in {m \in entry : m.obj # None}}
    OBVIOUS
  <2>2. /\ geoCache' = geoCache \cup entry /\ items' = items \o SetToSeq(added)
        /\ \/ plugins' = plugins
           \/ plugins' = Put(plugins, ParticlesOf(o), From(d))
    BY <1>3, <1>5, <2>1 DEF ExportParticles
  <2>3. found \subseteq geoCache /\ IsFiniteSet(found) /\ \A n \in found : n.kind = "points"
    <3>1. found \subseteq geoCache /\ IsFiniteSet(geoCache)
      BY <2>1 DEF CachedAs, IprInv, ModesInv
    <3> QED BY <2>1, <3>1, FS_Subset DEF CachedAs
  <2>4. IsFiniteSet(entry) /\ \A n \in entry : n.kind \notin Sourced
    <3>1. PICK name : name = PointsEntry(ContextID(ctx), owner)
      OBVIOUS
    <3>2. name.kind = "points" /\ IsFiniteSet({name})
      BY <3>1, FS_Singleton DEF PointsEntry, Plugin
    <3> QED BY <2>1, <2>3, <3>1, <3>2 DEF Sourced
  <2>5. IsFiniteSet(added) /\ \A g \in added : g.kind \notin Sourced
    <3>1. PICK owned : owned = {m \in entry : m.obj # None}
      OBVIOUS
    <3>2. IsFiniteSet(owned)
      BY <2>4, <3>1, FS_Subset
    <3>3. added = {ParticlesOf(n.obj) : n \in owned}
      BY <2>1, <3>1
    <3>4. IsFiniteSet(added)
      <4>1. PICK f : f = [n \in owned |-> ParticlesOf(n.obj)]
        OBVIOUS
      <4>2. f \in [owned -> added] /\ \A g \in added : \E n \in owned : f[n] = g
        BY <3>3, <4>1
      <4>3. f \in Surjection(owned, added)
        BY <4>2 DEF Surjection
      <4> QED BY <3>2, <4>3, FS_Surjection
    <3>5. \A n : ParticlesOf(n).kind = "GeomParticleSystem"
      BY DEF ParticlesOf, Plugin
    <3> QED BY <3>3, <3>4, <3>5 DEF Sourced
  <2>6. /\ IsSeq(items') /\ (items # <<>> => items' # <<>>)
        /\ \A g \in Range(items') : g \in Range(items) \/ g.kind \notin Sourced
    <3>1. PICK more : more = SetToSeq(added)
      OBVIOUS
    <3>2. IsSeq(more) /\ Range(more) \subseteq added
      BY <2>5, <3>1, SetItems
    <3>3. /\ IsSeq(items') /\ Range(items') = Range(items) \cup Range(more)
          /\ items # <<>> => items' # <<>>
      BY <1>1, <2>2, <3>1, <3>2, MoreItems
    <3> QED BY <2>5, <3>2, <3>3
  <2>7. Kept /\ ItemsKept
    <3>1. CASE plugins' = plugins
      BY <1>1, <3>1, SameKeeps
    <3>2. CASE plugins' = Put(plugins, ParticlesOf(o), From(d))
      <4>1. PICK name, value : name = ParticlesOf(o) /\ value = From(d)
        OBVIOUS
      <4>2. name.kind = "GeomParticleSystem" /\ value.source = <<d, version[d]>>
        BY <4>1 DEF ParticlesOf, Plugin, From
      <4>3. d \in Details
        BY <1>1, <1>2, IprFacts DEF CallOk
      <4> QED BY <1>1, <3>2, <4>1, <4>2, <4>3, PutKeeps DEF NameFor
    <3> QED BY <2>2, <3>1, <3>2
  <2> QED BY <2>2, <2>4, <2>6, <2>7
<1> QED BY <1>4, <1>5

LEMMA DetailDone == IprInv /\ ExportDetail => Done
<1> SUFFICES ASSUME IprInv, ExportDetail PROVE Done
  OBVIOUS
<1>1. /\ work # <<>> /\ Caller.do = "detail"
      /\ UNCHANGED <<scene, doGeometry, mode, opCache, result>>
  BY DEF ExportDetail, Calls, Caller, modes
<1>2. PICK c, o, d, t, a :
        /\ c = Caller /\ o = c.obj /\ d = c.detail /\ t = Tail(work) /\ a = Call("prim", o, d, 1)
  OBVIOUS
<1>3. /\ CallOk(c) /\ IsSeq(t) /\ t # <<>> /\ Head(t).do = "pop" /\ Head(t).obj = o
  BY <1>1, <1>2, IprFacts DEF Chain, Follows
<1>4. Leaf(o) /\ d \in Details
  BY <1>1, <1>2, <1>3 DEF CallOk
<1>5. items # <<>> => \A g \in Range(items) : Good(g, o)
  BY <1>1, <1>2 DEF IprInv, ItemInv, Caller
<1>6. a.do = "prim" /\ a.obj = o
  BY <1>2, CallFields
<1>7. /\ Kept /\ ItemsKept /\ IsSeq(items') /\ (items # <<>> => items' # <<>>)
      /\ \A g \in Range(items') : g \in Range(items) \/ g.kind \notin Sourced
  BY ParticlesAre
<1>8. PICK new : /\ geoCache' = geoCache \cup new /\ IsFiniteSet(new)
                 /\ \A n \in new : n.kind \notin Sourced
  BY ParticlesAre
<1>9. IF RenderPoints[o] = "all" THEN work' = t ELSE work' = <<a>> \o t
  <2>1. CASE RenderPoints[o] = "all"
    BY <1>2, <1>3, <2>1, NoCalls DEF ExportDetail, Goto
  <2>2. CASE RenderPoints[o] # "all"
    BY <1>2, <2>2 DEF ExportDetail, Goto
  <2> QED BY <2>1, <2>2
<1>10. Cached
  BY <1>7, <1>8 DEF Cached, Fresh, Sourced
<1>11. ItemInv'
  <2>1. Head(work').do \in {"prim", "pop"} /\ Head(work').obj = o /\ work' # <<>>
    BY <1>3, <1>6, <1>9, SeqFacts
  <2>2. \A g \in Range(items') : Good(g, o)
    <3>1. items = <<>> => Range(items) = {}
      BY DEF Range
    <3> QED BY <1>5, <1>7, <3>1 DEF Good
  <2> QED BY <2>1, <2>2 DEF ItemInv, Good, Leaf, Geometry, Details, Sourced, DetailID, KindsOf
<1>12. ModesInv'
  <2>1. HasFull(t) => HasFull(<<a>> \o t)
    BY <1>3, FullPush
  <2>2. HasFull(Tail(work)) => HasFull(work)'
    BY <1>2, <1>9, <2>1 DEF HasFull
  <2> QED BY <1>1, <1>7, <1>8, <2>2, CollectingCall
<1>13. StillComing
  <2>1. ASSUME NEW q, NEW s, Wanted(q, s), Coming(q, s) PROVE Coming(q, s)'
    <3>1. /\ q = o /\ mode' = "full" /\ Way(t, o)
          /\ items # <<>> \/ Leads(c, s) \/ Promised(t, o, s)
      BY <1>1, <1>2, <2>1, ComingCaller, IprFacts
    <3>2. work' = <<a>> \o t
      BY <1>9, <2>1, <3>1 DEF Wanted
    <3>3. Leads(c, s) => Leads(a, s)
      <4>1. Leads(c, s) => s \in Within[d]
        BY <1>1, <1>2 DEF Leads
      <4> QED BY <1>2, <1>4, <4>1, DetailLeads
    <3>4. Way(work', o) /\ (items' # <<>> \/ Promised(work', o, s))
      BY <1>3, <1>6, <1>7, <3>1, <3>2, <3>3, PromisedPush
    <3>5. Way(work, q)' /\ (items' # <<>> \/ Promised(work, q, s)')
      BY <3>1, <3>4
    <3> QED BY <3>1, <3>5 DEF Coming
  <2> QED BY <2>1 DEF StillComing
<1> QED BY <1>7, <1>10, <1>11, <1>12, <1>13 DEF Done

\* A primitive that leaves no geometry of its own leads to nothing.
LEMMA NextLeads ==
  ASSUME NEW c, CallOk(c), c.do = "prim", c.at <= Len(Contents[c.detail].prims),
         Contents[c.detail].prims[c.at].kind # "packed", NEW s, Leads(c, s)
  PROVE  Leads([c EXCEPT !.at = @ + 1], s)
<1>1. PICK d, next : d = c.detail /\ next = [c EXCEPT !.at = @ + 1]
  OBVIOUS
<1>2. DOMAIN c = {"do", "obj", "detail", "at", "list"} /\ d \in Details /\ c.at \in Nat
  BY <1>1 DEF CallOk
<1>3. next.do = "prim" /\ next.detail = d /\ next.at = c.at + 1
  BY <1>1, <1>2
<1>4. CASE s = d
  BY <1>1, <1>3, <1>4 DEF Leads
<1>5. ASSUME NEW i \in DOMAIN Contents[d].prims, c.at <= i, Contents[d].prims[i].kind = "packed",
             s \in Within[Contents[d].prims[i].inner]
      PROVE  Leads(next, s)
  <2>1. i \in Nat /\ i # c.at
    <3>1. Contents[d].prims \in Seq(Range(Contents[d].prims))
      BY <1>2, SceneAssumption
    <3> QED BY <1>1, <1>5, <3>1
  <2>2. c.at + 1 <= i
    BY <1>2, <1>5, <2>1
  <2> QED BY <1>3, <1>5, <2>2 DEF Leads
<1>6. \/ s = d
      \/ \E i \in DOMAIN Contents[d].prims :
           /\ c.at <= i /\ Contents[d].prims[i].kind = "packed"
           /\ s \in Within[Contents[d].prims[i].inner]
  BY <1>1 DEF Leads
<1> QED BY <1>1, <1>4, <1>5, <1>6

LEMMA PrimFacts ==
  ASSUME IprInv, work # <<>>, Caller.do = "prim"
  PROVE  /\ CallOk(Caller) /\ Leaf(Caller.obj) /\ Caller.obj \in Geometry /\ Caller.detail \in Details
         /\ RenderPoints[Caller.obj] # "all"
         /\ Within[Caller.detail] \subseteq Within[Root[Caller.obj]]
         /\ NextPrim.do = "prim" /\ NextPrim.obj = Caller.obj
         /\ IsSeq(Tail(work)) /\ Tail(work) # <<>>
         /\ Head(Tail(work)).do = "pop" /\ Head(Tail(work)).obj = Caller.obj
         /\ IsSeq(items) /\ (items # <<>> => \A g \in Range(items) : Good(g, Caller.obj))
<1>1. Stack(work, ctx)
  BY DEF IprInv, CallsInv
<1>2. IsSeq(Tail(work)) /\ IsSeq(items)
  BY IprFacts DEF IprInv, ModesInv
<1>3. items # <<>> => \A g \in Range(items) : Good(g, Caller.obj)
  BY DEF IprInv, ItemInv, Caller
<1>4. RenderPoints[Caller.obj] # "all"
  BY IprFacts DEF CallOk
<1> QED BY <1>1, <1>2, <1>3, <1>4, NextPrimIs

LEMMA PrimDone ==
  ASSUME IprInv, work # <<>>, Caller.do = "prim", Kept, ItemsKept,
         Caller.at <= Len(Contents[Caller.detail].prims), ThisPrim.kind # "packed",
         Goto(<<NextPrim>>), UNCHANGED <<scene, doGeometry, mode, opCache, result>>,
         IsSeq(items'), items # <<>> => items' # <<>>,
         \A g \in Range(items') : g \in Range(items) \/ g.kind \notin Sourced,
         NEW new, geoCache' = geoCache \cup new, IsFiniteSet(new),
         \A n \in new : n.kind \notin Sourced
  PROVE  Done
<1>1. PICK c, o, t, a : c = Caller /\ o = c.obj /\ t = Tail(work) /\ a = NextPrim
  OBVIOUS
<1>2. /\ CallOk(c) /\ a.do = "prim" /\ a.obj = o /\ IsSeq(t) /\ t # <<>>
      /\ items # <<>> => \A g \in Range(items) : Good(g, o)
  BY <1>1, PrimFacts
<1>3. work' = <<a>> \o t
  BY <1>1 DEF Goto
<1>4. StillComing
  <2>1. ASSUME NEW q, NEW s, Wanted(q, s), Coming(q, s)
        PROVE  Coming(q, s)'
    <3>1. /\ q = o /\ mode' = "full" /\ Way(t, o)
          /\ items # <<>> \/ Leads(c, s) \/ Promised(t, o, s)
      BY <1>1, <2>1, ComingCaller, IprFacts
    <3>2. Leads(c, s) => Leads(a, s)
      BY <1>1, <1>2, NextLeads DEF NextPrim, ThisPrim
    <3>3. Way(work', o) /\ (items' # <<>> \/ Promised(work', o, s))
      BY <1>2, <1>3, <3>1, <3>2, PromisedPush
    <3>4. Way(work, q)' /\ (items' # <<>> \/ Promised(work, q, s)')
      BY <3>1, <3>3
    <3> QED BY <3>1, <3>4 DEF Coming
  <2> QED BY <2>1 DEF StillComing
<1>5. ItemInv'
  <2>1. Head(work') = a /\ work' # <<>>
    BY <1>2, <1>3, SeqFacts
  <2>2. ASSUME NEW g \in Range(items') PROVE Good(g, o)
    <3>1. items = <<>> => Range(items) = {}
      BY DEF Range
    <3> QED BY <1>2, <3>1 DEF Good
  <2> QED BY <1>2, <2>1, <2>2 DEF ItemInv, Good, Leaf, Geometry, Details, Sourced, DetailID, KindsOf
<1>6. Cached
  BY FreshKinds DEF Cached
<1>7. ModesInv'
  <2>1. HasFull(t) => HasFull(<<a>> \o t)
    BY <1>2, FullPush
  <2>2. HasFull(Tail(work)) => HasFull(work)'
    BY <1>1, <1>3, <2>1 DEF HasFull
  <2> QED BY <2>2, CollectingCall
<1> QED BY <1>4, <1>5, <1>6, <1>7 DEF Done

LEMMA SkipDone == IprInv /\ (SkipMeshPrim \/ ExportVolume \/ ExportVRayScene) => Done
<1> SUFFICES ASSUME IprInv, SkipMeshPrim \/ ExportVolume \/ ExportVRayScene PROVE Done
  OBVIOUS
<1>1. /\ work # <<>> /\ Caller.do = "prim" /\ Caller.at <= Len(Contents[Caller.detail].prims)
      /\ ThisPrim.kind # "packed" /\ Goto(<<NextPrim>>)
      /\ UNCHANGED <<scene, doGeometry, mode, opCache, result, items, geoCache>>
  BY DEF SkipMeshPrim, ExportVolume, ExportVRayScene, PrimIs, Calls, Caller, modes, caches
<1>2. Kept /\ ItemsKept
  <2>1. CASE plugins' = plugins
    BY <1>1, <2>1, SameKeeps DEF scene
  <2>2. CASE ExportVolume
    <3>1. PICK name, d : /\ name.kind = "Volume" /\ name.obj = Caller.obj /\ d = Caller.detail
                         /\ plugins' = Put(plugins, name, From(d))
      BY <2>2 DEF ExportVolume, Plugin
    <3>2. d \in Details /\ NameFor(name, d)
      <4>1. /\ d \in Details /\ Within[d] \subseteq Within[Root[name.obj]] /\ Leaf(name.obj)
            /\ name.obj \in Geometry
        BY <1>1, <3>1, PrimFacts
      <4>2. d \in DetailsOf(name.obj)
        BY <4>1, WithinIs DEF DetailsOf, Leaf
      <4> QED BY <3>1, <4>1, <4>2 DEF NameFor
    <3>3. From(d).source = <<d, version[d]>>
      BY DEF From
    <3> QED BY <1>1, <3>1, <3>2, <3>3, PutKeeps DEF scene
  <2>3. CASE ExportVRayScene /\ plugins' # plugins
    <3>1. PICK name : name.kind = "VRayScene" /\ plugins' = Put(plugins, name, Of(<<>>))
      BY <2>3 DEF ExportVRayScene, Plugin
    <3>2. Of(<<>>).source = <<>>
      BY DEF Of
    <3> QED BY <1>1, <3>1, <3>2, PutKeeps DEF scene
  <2>4. SkipMeshPrim => plugins' = plugins
    BY DEF SkipMeshPrim
  <2> QED BY <2>1, <2>2, <2>3, <2>4
<1>3. geoCache' = geoCache \cup {} /\ IsFiniteSet({}) /\ IsSeq(items')
  BY <1>1, PrimFacts, FS_EmptySet
<1> QED BY <1>1, <1>2, <1>3, PrimDone

LEMMA CachedAreFew ==
  ASSUME IprInv, NEW S, S \subseteq geoCache
  PROVE  IsFiniteSet(S)
BY FS_Subset DEF IprInv, ModesInv

LEMMA ShapeDone == IprInv /\ ExportPrim => Done
<1> SUFFICES ASSUME IprInv, ExportPrim PROVE Done
  OBVIOUS
<1>1. /\ work # <<>> /\ Caller.do = "prim" /\ Caller.at <= Len(Contents[Caller.detail].prims)
      /\ ThisPrim.kind \in {"sphere", "proxy", "plane"} /\ ThisPrim.kind # "packed" /\ Goto(<<NextPrim>>)
      /\ UNCHANGED <<scene, doGeometry, mode, opCache, result>>
  BY DEF ExportPrim, PrimIs, Calls, Caller, modes
<1>2. PICK name, found :
        /\ name.kind = ThisPrim.kind /\ name = Plugin(name.kind, name.key, name.obj)
        /\ found \subseteq geoCache /\ (\A n \in found : n.kind = name.kind)
        /\ IF found # {} THEN items' = items \o SetToSeq(found) /\ UNCHANGED <<plugins, geoCache>>
           ELSE \/ UNCHANGED <<plugins, geoCache, items>>
                \/ /\ plugins' = Put(plugins, name, Of(<<>>)) /\ items' = Append(items, name)
                   /\ geoCache' \in {geoCache, geoCache \cup {name}}
  <2>1. PICK kind, name, found :
          /\ kind = ThisPrim.kind
          /\ name = Plugin(kind, IF kind = "proxy" THEN FileID(ThisPrim.file) ELSE {},
                           IF kind = "sphere" THEN Caller.obj ELSE None)
          /\ found = IF kind = "plane" THEN {} ELSE CachedAs(name.kind, name.key)
          /\ IF found # {} THEN items' = items \o SetToSeq(found) /\ UNCHANGED <<plugins, geoCache>>
             ELSE \/ UNCHANGED <<plugins, geoCache, items>>
                  \/ /\ plugins' = Put(plugins, name, Of(<<>>)) /\ items' = Append(items, name)
                     /\ geoCache' \in {geoCache, geoCache \cup {name}}
    BY DEF ExportPrim
  <2>2. name.kind = kind /\ name = Plugin(name.kind, name.key, name.obj)
    BY <2>1 DEF Plugin
  <2>3. found \subseteq geoCache /\ \A n \in found : n.kind = name.kind
    BY <2>1 DEF CachedAs
  <2>4. name.kind = ThisPrim.kind
    BY <2>1, <2>2
  <2>5. \/ found # {} /\ items' = items \o SetToSeq(found) /\ UNCHANGED <<plugins, geoCache>>
        \/ found = {} /\ UNCHANGED <<plugins, geoCache, items>>
        \/ /\ found = {} /\ plugins' = Put(plugins, name, Of(<<>>)) /\ items' = Append(items, name)
           /\ geoCache' \in {geoCache, geoCache \cup {name}}
    BY <2>1
  <2> HIDE DEF Put, Of
  <2> QED BY <2>2, <2>3, <2>4, <2>5
<1>3. name.kind \notin Sourced /\ name.kind # "Instancer2" /\ Of(<<>>).source = <<>>
      /\ version' = version /\ IsSeq(items) /\ IsFiniteSet(found) /\ IsFiniteSet({name})
      /\ IsFiniteSet({})
  BY <1>1, <1>2, PrimFacts, CachedAreFew, FS_Singleton, FS_EmptySet DEF Sourced, Of, scene
<1>4. CASE found # {}
  <2>1. Kept /\ ItemsKept /\ geoCache' = geoCache \cup {} /\ items' = items \o SetToSeq(found)
    BY <1>2, <1>3, <1>4, SameKeeps
  <2>2. /\ IsSeq(items') /\ Range(items') = Range(items) \cup Range(SetToSeq(found))
        /\ items' # <<>> /\ Range(SetToSeq(found)) \subseteq found
    BY <1>3, <1>4, <2>1, SetItems, MoreItems
  <2>3. \A g \in Range(items') : g \in Range(items) \/ g.kind \notin Sourced
    BY <1>2, <1>3, <2>2
  <2> QED BY <1>1, <1>3, <2>1, <2>2, <2>3, PrimDone
<1>5. CASE UNCHANGED <<plugins, geoCache, items>>
  <2>1. Kept /\ ItemsKept /\ geoCache' = geoCache \cup {} /\ IsSeq(items')
    BY <1>3, <1>5, SameKeeps
  <2> QED BY <1>1, <1>3, <1>5, <2>1, PrimDone
<1>6. CASE /\ plugins' = Put(plugins, name, Of(<<>>)) /\ items' = Append(items, name)
           /\ geoCache' \in {geoCache, geoCache \cup {name}}
  <2>1. Kept /\ ItemsKept
    BY <1>3, <1>6, PutKeeps
  <2>2. IsSeq(items') /\ Range(items') = Range(items) \cup {name} /\ items' # <<>>
    BY <1>3, <1>6, MoreItems
  <2>3. \A g \in Range(items') : g \in Range(items) \/ g.kind \notin Sourced
    BY <1>3, <2>2
  <2>4. PICK new : new \in {{}, {name}} /\ geoCache' = geoCache \cup new
    BY <1>6
  <2>5. IsFiniteSet(new) /\ \A n \in new : n.kind \notin Sourced
    BY <1>2, <1>3, <2>4
  <2> QED BY <1>1, <2>1, <2>2, <2>3, <2>4, <2>5, PrimDone
<1> QED BY <1>2, <1>4, <1>5, <1>6

LEMMA PackedDone == IprInv /\ ExportPacked => Done
<1> SUFFICES ASSUME IprInv, ExportPacked PROVE Done
  OBVIOUS
<1>1. /\ work # <<>> /\ Caller.do = "prim" /\ Caller.at <= Len(Contents[Caller.detail].prims)
      /\ ThisPrim.kind = "packed" /\ doGeometry
      /\ UNCHANGED <<scene, doGeometry, mode, opCache, result, plugins, items, geoCache>>
  BY DEF ExportPacked, PrimIs, Calls, Caller, modes, caches, IprInv, ModesInv
<1>2. PICK c, o, d, t, a, b, n :
        /\ c = Caller /\ o = c.obj /\ d = c.detail /\ t = Tail(work) /\ n = NextPrim
        /\ a = Call("detail", o, ThisPrim.inner, 0) /\ b = Call("pop", o, None, 0)
  OBVIOUS
<1>3. /\ a.do = "detail" /\ a.obj = o /\ a.detail = ThisPrim.inner
      /\ b.do = "pop" /\ b.obj = o
  BY <1>2, CallFields
<1>4. /\ CallOk(c) /\ n.do = "prim" /\ n.obj = o /\ IsSeq(t) /\ t # <<>>
      /\ IsSeq(items) /\ (items # <<>> => \A g \in Range(items) : Good(g, o))
  BY <1>1, <1>2, PrimFacts
<1>5. PICK u, v : u = <<n>> \o t /\ v = <<b>> \o u
  OBVIOUS
<1>6. work' = <<a>> \o v
  <2>1. ThreeCalls(a, b, n, t) = ThreeInTurn(a, b, n, t)
    BY <1>4, ThreeCallsAre
  <2>2. work' = ThreeCalls(a, b, n, t)
    BY <1>1, <1>2 DEF ExportPacked, Goto, ThreeCalls
  <2> QED BY <1>5, <2>1, <2>2 DEF ThreeInTurn
<1>7. IsSeq(u) /\ (HasFull(t) => HasFull(u))
  BY <1>4, <1>5, SeqFacts, FullPush
<1>8. IsSeq(v) /\ (HasFull(t) => HasFull(v))
  BY <1>5, <1>7, SeqFacts, FullPush
<1>9. HasFull(t) => HasFull(<<a>> \o v)
  BY <1>8, FullPush
<1>10. ModesInv'
  <2>1. HasFull(Tail(work)) => HasFull(work)'
    BY <1>2, <1>6, <1>9 DEF HasFull
  <2>2. geoCache' = geoCache \cup {} /\ IsFiniteSet({}) /\ IsSeq(items')
    BY <1>1, <1>4, FS_EmptySet
  <2> QED BY <1>1, <2>1, <2>2, CollectingCall
<1>11. StillComing
  <2>1. ASSUME NEW q, NEW s, Wanted(q, s), Coming(q, s)
        PROVE  Coming(q, s)'
    <3>1. /\ q = o /\ mode' = "full" /\ Way(t, o)
          /\ items # <<>> \/ Leads(c, s) \/ Promised(t, o, s)
      BY <1>1, <1>2, <2>1, ComingCaller, IprFacts
    <3>2. Leads(c, s) => Leads(a, s) \/ Leads(n, s)
      <4>1. /\ c.do = "prim" /\ DOMAIN c = {"do", "obj", "detail", "at", "list"} /\ d \in Details
            /\ c.at \in Nat \ {0} /\ ThisPrim = Contents[d].prims[c.at]
        BY <1>1, <1>2, <1>4 DEF CallOk, ThisPrim
      <4>2. n.do = "prim" /\ n.detail = d /\ n.at = c.at + 1
        BY <1>2, <4>1 DEF NextPrim
      <4>3. CASE s = d
        BY <4>2, <4>3 DEF Leads
      <4>4. ASSUME NEW i \in DOMAIN Contents[d].prims, c.at <= i, Contents[d].prims[i].kind = "packed",
                   s \in Within[Contents[d].prims[i].inner]
            PROVE  Leads(a, s) \/ Leads(n, s)
        <5>1. i \in Nat
          BY <4>1, SceneAssumption
        <5>2. CASE i = c.at
          BY <1>3, <4>1, <4>4, <5>2 DEF Leads
        <5>3. CASE i # c.at
          <6>1. c.at + 1 <= i
            BY <4>1, <4>4, <5>1, <5>3
          <6> QED BY <4>2, <4>4, <6>1 DEF Leads
        <5> QED BY <5>2, <5>3
      <4> QED BY <1>2, <4>1, <4>3, <4>4 DEF Leads
    <3>3. Way(u, o) /\ (Leads(n, s) \/ Promised(t, o, s) => Promised(u, o, s))
      BY <1>4, <1>5, <3>1, PromisedPush
    <3>4. Way(v, o) /\ (Promised(u, o, s) => Promised(v, o, s))
      BY <1>3, <1>5, <1>7, <3>3, PromisedPush
    <3>5. /\ Way(<<a>> \o v, o)
          /\ Leads(a, s) \/ Promised(v, o, s) => Promised(<<a>> \o v, o, s)
      BY <1>3, <1>8, <3>4, PromisedPush
    <3>6. Way(work', o) /\ (items' # <<>> \/ Promised(work', o, s))
      BY <1>1, <1>6, <3>1, <3>2, <3>3, <3>4, <3>5
    <3>7. Way(work, q)' /\ (items' # <<>> \/ Promised(work, q, s)')
      BY <3>1, <3>6
    <3> QED BY <3>1, <3>7 DEF Coming
  <2> QED BY <2>1 DEF StillComing
<1>12. ItemInv'
  <2>1. Head(work') = a /\ work' # <<>>
    BY <1>6, <1>8, SeqFacts
  <2> QED BY <1>1, <1>3, <1>4, <2>1 DEF ItemInv, Good, Leaf, Geometry, Details, Sourced, DetailID, KindsOf
<1> QED BY <1>1, <1>10, <1>11, <1>12, SameKeeps DEF Done, Cached, scene

\* What the meshes and hair of a detail are, those in the cache and the new ones.
LEMMA MeshesAre ==
  ASSUME IprInv, ExportMeshes
  PROVE  \E added, new, d :
           /\ d = Caller.detail /\ new \subseteq added /\ added \subseteq geoCache \cup new
           /\ items' = items \o SetToSeq(added) /\ geoCache' = geoCache \cup new
           /\ DOMAIN plugins' = DOMAIN plugins \cup new
           /\ \A n \in DOMAIN plugins' : plugins'[n] = IF n \in new THEN From(d) ELSE plugins[n]
           /\ IsFiniteSet(new) /\ IsFiniteSet(added)
           /\ \A n \in added : n.kind \in {"mesh", "hair"} /\ n.key = DetailID(d) /\ n.kind \in KindsOf(d)
           /\ mode = "full" /\ {"mesh", "hair"} \cap KindsOf(d) # {} => added # {}
<1>a. PICK d, o : d = Caller.detail /\ o = Caller.obj
  OBVIOUS
<1>b. PICK exported :
        exported = IF mode = "full" /\ doGeometry THEN {"mesh", "hair"} \cap KindsOf(d) ELSE {}
  OBVIOUS
<1>c. PICK found : found = UNION {CachedAs(kind, DetailID(d)) : kind \in exported}
  OBVIOUS
<1>d. PICK new : new = {Plugin(kind, DetailID(d), o) : kind \in exported \ {n.kind : n \in found}}
  OBVIOUS
<1>1. /\ items' = items \o SetToSeq(found \cup new) /\ geoCache' = geoCache \cup new
      /\ plugins' = [n \in DOMAIN plugins \cup new |-> IF n \in new THEN From(d) ELSE plugins[n]]
  BY <1>a, <1>b, <1>c, <1>d DEF ExportMeshes
<1>2. PICK added : added = found \cup new
  OBVIOUS
<1>3. found \subseteq geoCache /\ \A n \in found : n.kind \in exported /\ n.key = DetailID(d)
  BY <1>c DEF CachedAs
<1>4. \A n \in new : n.kind \in exported /\ n.key = DetailID(d) /\ n = Plugin(n.kind, n.key, o)
  BY <1>d DEF Plugin
<1>5. exported \subseteq {"mesh", "hair"} /\ exported \subseteq KindsOf(d)
  BY <1>b
<1>6. IsFiniteSet(new)
  <2>1. PICK m, h : m = Plugin("mesh", DetailID(d), o) /\ h = Plugin("hair", DetailID(d), o)
    OBVIOUS
  <2>2. new \subseteq {m} \cup {h}
    BY <1>4, <1>5, <2>1
  <2>3. IsFiniteSet({m}) /\ IsFiniteSet({h})
    BY FS_Singleton
  <2>4. IsFiniteSet({m} \cup {h})
    BY <2>3, FS_Union
  <2> QED BY <2>2, <2>4, FS_Subset
<1>7. IsFiniteSet(added)
  <2>1. IsFiniteSet(found)
    BY <1>3, CachedAreFew
  <2> QED BY <1>2, <1>6, <2>1, FS_Union
<1>8. mode = "full" /\ {"mesh", "hair"} \cap KindsOf(d) # {} => added # {}
  <2> SUFFICES ASSUME NEW kind \in exported PROVE added # {}
    BY <1>b DEF IprInv, ModesInv
  <2>1. CASE kind \in {n.kind : n \in found}
    BY <1>2, <2>1
  <2>2. CASE kind \notin {n.kind : n \in found}
    BY <1>d, <1>2, <2>2
  <2> QED BY <2>1, <2>2
<1>9. /\ DOMAIN plugins' = DOMAIN plugins \cup new
      /\ \A n \in DOMAIN plugins' : plugins'[n] = IF n \in new THEN From(d) ELSE plugins[n]
  BY <1>1
<1>10. /\ items' = items \o SetToSeq(added) /\ geoCache' = geoCache \cup new
       /\ new \subseteq added /\ added \subseteq geoCache \cup new
       /\ \A n \in added : n.kind \in {"mesh", "hair"} /\ n.key = DetailID(d) /\ n.kind \in KindsOf(d)
  BY <1>1, <1>2, <1>3, <1>4, <1>5
<1>11. d = Caller.detail
  BY <1>a
<1> WITNESS added, new, d
<1> QED BY <1>6, <1>7, <1>8, <1>9, <1>10, <1>11

LEMMA MeshesDone == IprInv /\ ExportMeshes => Done
<1> SUFFICES ASSUME IprInv, ExportMeshes PROVE Done
  OBVIOUS
<1>1. /\ work # <<>> /\ Caller.do = "prim" /\ Caller.at > Len(Contents[Caller.detail].prims)
      /\ Goto(<<>>) /\ UNCHANGED <<scene, doGeometry, mode, opCache, result>>
  BY DEF ExportMeshes, Calls, Caller, modes
<1>2. PICK added, new, d :
        /\ d = Caller.detail /\ new \subseteq added /\ added \subseteq geoCache \cup new
        /\ items' = items \o SetToSeq(added) /\ geoCache' = geoCache \cup new
        /\ DOMAIN plugins' = DOMAIN plugins \cup new
        /\ \A n \in DOMAIN plugins' : plugins'[n] = IF n \in new THEN From(d) ELSE plugins[n]
        /\ IsFiniteSet(new) /\ IsFiniteSet(added)
        /\ \A n \in added : n.kind \in {"mesh", "hair"} /\ n.key = DetailID(d) /\ n.kind \in KindsOf(d)
        /\ mode = "full" /\ {"mesh", "hair"} \cap KindsOf(d) # {} => added # {}
  BY MeshesAre
<1>3. PICK c, o, t : c = Caller /\ o = c.obj /\ t = Tail(work)
  OBVIOUS
<1>4. /\ CallOk(c) /\ Leaf(o) /\ d \in Details /\ d \in Within[Root[o]] /\ IsSeq(t) /\ t # <<>>
      /\ RenderPoints[o] # "all"
      /\ Head(t).do = "pop" /\ Head(t).obj = o /\ IsSeq(items)
      /\ (items # <<>> => \A g \in Range(items) : Good(g, o))
  BY <1>1, <1>2, <1>3, PrimFacts, WithinIs
<1>5. work' = t
  BY <1>1, <1>3, <1>4, NoCalls DEF Goto
<1>6. /\ IsSeq(items') /\ Range(items') \subseteq Range(items) \cup added
      /\ items # <<>> \/ added # {} => items' # <<>>
  <2>1. PICK more : more = SetToSeq(added)
    OBVIOUS
  <2>2. IsSeq(more) /\ Range(more) \subseteq added /\ (added # {} => more # <<>>)
    BY <1>2, <2>1, SetItems
  <2>3. IsSeq(items') /\ Range(items') = Range(items) \cup Range(more)
        /\ (items # <<>> \/ more # <<>> => items' # <<>>)
    BY <1>2, <1>4, <2>1, <2>2, MoreItems
  <2> QED BY <2>2, <2>3
<1>7. Kept
  <2>1. \A n \in new : NameFor(n, d)
    BY <1>2 DEF NameFor
  <2>2. From(d).source = <<d, version[d]>>
    BY DEF From
  <2>3. version' = version
    BY <1>1 DEF scene
  <2> QED BY <1>2, <1>4, <2>1, <2>2, <2>3 DEF Kept
<1>8. ItemsKept
  <2>1. \A q : InstancerOf(q).kind = "Instancer2"
    BY DEF InstancerOf, Plugin
  <2>2. \A q : InstancerOf(q) \notin new
    BY <1>2, <2>1
  <2> QED BY <1>2, <2>2 DEF ItemsKept
<1>9. Cached
  <2>1. \A n \in new : Fresh(n)'
    <3>1. From(d).source = <<d, version[d]>> /\ version' = version
      BY <1>1 DEF From, scene
    <3> QED BY <1>2, <3>1 DEF Fresh, IsCurrent
  <2> QED BY <1>2, <1>6, <2>1 DEF Cached
<1>10. StillComing
  <2>1. ASSUME NEW q, NEW s, Wanted(q, s), Coming(q, s)
        PROVE  Coming(q, s)'
    <3>1. /\ q = o /\ mode = "full" /\ Way(t, o)
          /\ items # <<>> \/ Leads(c, s) \/ Promised(t, o, s)
      BY <1>1, <1>3, <2>1, ComingCaller, IprFacts
    <3>2. Leads(c, s) => items' # <<>>
      <4>1. \A i \in DOMAIN Contents[d].prims : ~(c.at <= i)
        <5>1. Contents[d].prims \in Seq(Range(Contents[d].prims)) /\ c.at \in Nat
          BY <1>1, <1>3, <1>4, SceneAssumption DEF CallOk
        <5> QED BY <1>1, <1>2, <1>3, <5>1
      <4>2. Leads(c, s) => s = d
        BY <1>1, <1>2, <1>3, <4>1 DEF Leads
      <4> QED BY <1>2, <1>6, <2>1, <3>1, <4>2 DEF Wanted
    <3>3. Way(work', o) /\ (items' # <<>> \/ Promised(work', o, s))
      BY <1>5, <1>6, <3>1, <3>2
    <3>4. Way(work, q)' /\ (items' # <<>> \/ Promised(work, q, s)')
      BY <3>1, <3>3
    <3> QED BY <1>1, <3>1, <3>4 DEF Coming
  <2> QED BY <2>1 DEF StillComing
<1>11. ItemInv'
  <2>1. \A g \in added : Good(g, o)
    BY <1>2, <1>4 DEF Good
  <2>2. \A g \in Range(items') : Good(g, o)
    <3>1. items = <<>> => Range(items) = {}
      BY DEF Range
    <3> QED BY <1>4, <1>6, <2>1, <3>1
  <2> QED BY <1>4, <1>5, <2>2 DEF ItemInv, Good, Leaf, Geometry, Details, Sourced, DetailID, KindsOf
<1>12. ModesInv'
  <2>1. HasFull(Tail(work)) => HasFull(work)'
    BY <1>3, <1>5 DEF HasFull
  <2> QED BY <1>1, <1>2, <1>6, <2>1, CollectingCall
<1> QED BY <1>7, <1>8, <1>9, <1>10, <1>11, <1>12 DEF Done

\* The items become those of the instancer, and are as fresh as they were.
LEMMA InstancerShows ==
  ASSUME IprInv, ExportInstancer, items # <<>>
  PROVE  Kept /\ ShowsInv'
<1>1. /\ work # <<>> /\ Caller.do = "instancer" /\ UNCHANGED scene /\ version' = version
      /\ pending' = pending /\ alive' = alive
  BY DEF ExportInstancer, Calls, Caller, scene
<1>2. PICK o, wrappers, name :
        /\ o = Caller.obj /\ name = InstancerOf(o) /\ \A n \in wrappers : n.kind = "Node"
        /\ plugins' = Put([n \in DOMAIN plugins \cup wrappers |->
                             IF n \in wrappers THEN Of(SetToSeq(n.key)) ELSE plugins[n]], name, Of(items))
  <2>1. PICK raw, wrappers : /\ raw = {g \in Range(items) : g.kind # "Node"}
                             /\ wrappers = {Plugin("Node", {g}, None) : g \in raw}
    OBVIOUS
  <2>2. \A n \in wrappers : n.kind = "Node"
    BY <2>1 DEF Plugin
  <2>3. plugins' = Put([n \in DOMAIN plugins \cup wrappers |->
                          IF n \in wrappers THEN Of(SetToSeq(n.key)) ELSE plugins[n]],
                       InstancerOf(Caller.obj), Of(items))
    BY <2>1 DEF ExportInstancer
  <2> QED BY <2>2, <2>3
<1>3. /\ DOMAIN plugins' = DOMAIN plugins \cup wrappers \cup {name}
      /\ plugins'[name] = Of(items)
      /\ \A n \in wrappers \ {name} : plugins'[n] = Of(SetToSeq(n.key))
      /\ \A n \in DOMAIN plugins \ (wrappers \cup {name}) : plugins'[n] = plugins[n]
  <2> HIDE DEF Of
  <2> QED BY <1>2 DEF Put
<1>4. Kept
  <2>1. \A list : Of(list).source = <<>>
    BY DEF Of
  <2> QED BY <1>1, <1>3, <2>1 DEF Kept
<1>5. o \in Geometry /\ \A g \in Range(items) : Good(g, o) /\ Fresh(g)
  <2>1. \A g \in Range(items) : Good(g, o) /\ Fresh(g)
    BY <1>1, <1>2 DEF IprInv, ItemInv, FreshInv, Caller
  <2> QED BY <1>1, <1>2, <2>1, IprFacts DEF CallOk
<1>6. ASSUME NEW q \in alive' \cap Geometry, InstancerOf(q) \in DOMAIN plugins',
             NEW g \in Range(plugins'[InstancerOf(q)].items)
      PROVE  Good(g, q) /\ Due(q, g)'
  <2>1. CASE q = o
    <3>1. plugins'[InstancerOf(q)].items = items
      BY <1>2, <1>3, <2>1 DEF Of
    <3>2. Good(g, q) /\ Fresh(g)
      BY <1>5, <1>6, <2>1, <3>1
    <3>3. Fresh(g)'
      BY <1>4, <3>2, KeptFacts DEF IprInv
    <3> QED BY <3>2, <3>3 DEF Due
  <2>2. CASE q # o
    <3>1. InstancerOf(q) # name /\ InstancerOf(q) \notin wrappers
      BY <1>2, <2>2 DEF InstancerOf, Plugin
    <3>2. InstancerOf(q) \in DOMAIN plugins /\ g \in Range(plugins[InstancerOf(q)].items)
      BY <1>3, <1>6, <3>1
    <3>3. Good(g, q) /\ Due(q, g)
      BY <1>1, <1>6, <3>2 DEF IprInv, ShowsInv
    <3>4. \A s : Wanted(q, s) /\ Coming(q, s) => Coming(q, s)'
      BY <1>1, <1>2, <2>2, ComingCaller, IprFacts
    <3>5. Due(q, g)'
      BY <1>1, <1>4, <3>3, <3>4, DueKept DEF IprInv
    <3> QED BY <3>3, <3>5
  <2> QED BY <2>1, <2>2
<1>7. \A q, g : Good(g, q)' <=> Good(g, q)
  BY DEF Good, Leaf, Geometry, Details, Sourced, DetailID, KindsOf
<1>8. \A q : InstancerOf(q)' = InstancerOf(q)
  BY DEF InstancerOf, Plugin
<1>9. \A n \in DOMAIN plugins' : n.kind = "Volume" /\ n.obj \in alive' =>
        Fresh(n)' \/ <<"geometry", n.obj>> \in pending'
  BY <1>1, <1>4, VolumesShown DEF IprInv
<1> QED BY <1>4, <1>6, <1>7, <1>8, <1>9 DEF ShowsInv, Geometry

LEMMA InstancerDone ==
  IprInv /\ ExportInstancer => Kept /\ ShowsInv' /\ ItemInv' /\ Cached /\ ModesInv'
<1> SUFFICES ASSUME IprInv, ExportInstancer
             PROVE  Kept /\ ShowsInv' /\ ItemInv' /\ Cached /\ ModesInv'
  OBVIOUS
<1>1. /\ work # <<>> /\ Caller.do = "instancer" /\ Goto(<<>>)
      /\ UNCHANGED <<scene, doGeometry, mode, opCache, geoCache>>
      /\ items' = <<>> /\ result'.kind \notin Sourced
  BY DEF ExportInstancer, Calls, Caller, modes, NoPlugin, InstancerOf, Plugin, Sourced
<1>2. PICK t : t = Tail(work)
  OBVIOUS
<1>3. IsSeq(t) /\ work' = t
  BY <1>1, <1>2, IprFacts, NoCalls DEF Goto
<1>4. ItemInv' /\ Cached
  <2>1. Range(items') = {}
    BY <1>1 DEF Range
  <2> QED BY <1>1, <2>1 DEF ItemInv, Cached
<1>5. ModesInv'
  <2>1. HasFull(Tail(work)) => HasFull(work)'
    BY <1>2, <1>3 DEF HasFull
  <2>2. mode' = "full" \/ HasFull(work)'
    BY <1>1, <2>1, IprFacts
  <2>3. IsSeq(items')
    BY <1>1 DEF IsSeq
  <2> QED BY <1>1, <2>2, <2>3, IprFacts DEF IprInv, ModesInv, scene, Details, Geometry, Sourced, IsSeq
<1>6. CASE items # <<>>
  BY <1>4, <1>5, <1>6, InstancerShows
<1>7. CASE items = <<>>
  <2>1. plugins' = plugins
    BY <1>7 DEF ExportInstancer
  <2>2. Kept /\ ItemsKept
    BY <1>1, <2>1, SameKeeps DEF scene
  <2>3. StillComing
    <3>1. ASSUME NEW q, NEW s, Coming(q, s) PROVE FALSE
      <4>1. Promised(work, q, s)
        <5>1. work # ObjectCalls(<<q>>)
          <6>1. Head(ObjectCalls(<<q>>)) = Call("object", q, None, 0)
            BY DEF ObjectCalls
          <6> QED BY <1>1, <6>1, CallFields DEF Caller
        <5> QED BY <1>7, <3>1, <5>1 DEF Coming
      <4>2. PICK m \in 1 .. Len(work) : WayAt(work, q, m) /\ \E k \in 1 .. m : Leads(work[k], s)
        BY <4>1 DEF Promised
      <4>3. Len(work) \in Nat /\ work[1].do = "instancer"
        BY <1>1, IprFacts, SeqFacts DEF Caller
      <4>4. m = 1
        <5>1. m # 1 => 1 \in 1 .. m - 1
          BY <4>3
        <5> QED BY <4>2, <4>3, <5>1 DEF WayAt
      <4>5. Leads(work[1], s)
        BY <4>2, <4>4
      <4> QED BY <4>3, <4>5 DEF Leads
    <3> QED BY <3>1 DEF StillComing
  <2>4. ShowsInv'
    <3>1. alive' \subseteq alive /\ pending' = pending
      BY <1>1 DEF scene
    <3> QED BY <2>2, <2>3, <3>1, ShowsKept DEF IprInv
  <2> QED BY <1>4, <1>5, <2>2, <2>4
<1> QED BY <1>6, <1>7

-----------------------------------------------------------------------------
(* Every step. *)

LEMMA StepDone ==
  ASSUME IprInv, ExportStep, ~ExportLightLinker
  PROVE  /\ Kept /\ ShowsInv' /\ ItemInv' /\ Cached /\ ModesInv'
         /\ work # <<>> /\ UNCHANGED <<session, phase, alive, pending>>
<1>1. work # <<>> /\ ~RestoreGeometry
  BY StackStep DEF IprInv, CallsInv, ModesInv
<1>2. UNCHANGED scene
  BY <1>1 DEF ExportStep, ExportLight, ExportNothing, ExportCached, ExportNew, ModeFull, CacheNode,
     ExportGeometry, Pop, ExportPoint, PointEnd, ExportDetail, SkipMeshPrim, ExportVolume, ExportPrim,
     ExportVRayScene, ExportPacked, ExportMeshes, ExportInstancer, ExportNode
<1>3. UNCHANGED <<session, phase, alive, pending>>
  BY <1>2 DEF scene
<1>4. CASE ExportInstancer
  BY <1>1, <1>3, <1>4, InstancerDone
<1>5. CASE ~ExportInstancer
  <2>1. Done
    BY <1>1, <1>5, LightDone, NothingDone, CachedDone, NewDone, ReturnDone, GeometryDone, PopDone, PointDone,
       PointEndDone, DetailDone, SkipDone, ShapeDone, PackedDone, MeshesDone DEF ExportStep
  <2>2. alive' \subseteq alive
    BY <1>3
  <2>3. ShowsInv'
    BY <1>3, <2>1, <2>2, ShowsKept DEF Done, IprInv
  <2> QED BY <1>1, <1>3, <2>1, <2>3 DEF Done
<1> QED BY <1>4, <1>5

LEMMA LinkerKeeps == IprInv /\ ExportLightLinker => IprInv'
<1> SUFFICES ASSUME IprInv, ExportLightLinker PROVE IprInv'
  OBVIOUS
<1>1. /\ Kept /\ ItemsKept /\ StillComing /\ work' = <<>>
  BY LinkerDone
<1>2. /\ work # <<>> /\ Caller.do = "linker" /\ phase' = "live" /\ ctx' = ctx
      /\ UNCHANGED <<alive, version, pending, mode, doGeometry, items, result, opCache, geoCache>>
  BY DEF ExportLightLinker, Calls, Caller, modes, caches
<1>3. Stack(work, ctx)
  BY DEF IprInv, CallsInv
<1>4. Tail(work) = <<>> /\ items = <<>>
  BY <1>2, <1>3, StackCaller, IprFacts
<1>5. CallsInv'
  <2>1. Stack(work', ctx')
    BY <1>3, StackStep DEF ExportStep, IprInv, ModesInv
  <2>2. Stack(work, ctx)'
    BY <2>1
  <2> QED BY <2>2 DEF CallsInv
<1>6. ModesInv'
  <2>1. mode = "full"
    <3>1. ~HasFull(<<>>)
      BY DEF HasFull
    <3> QED BY <1>2, <1>4, <3>1, IprFacts
  <2> QED BY <1>2, <2>1 DEF IprInv, ModesInv, Details, Geometry, Sourced, IsSeq
<1>7. SourceInv'
  BY <1>1, KeptFacts DEF IprInv
<1>8. FreshInv' /\ ItemInv'
  BY <1>1, <1>2, <1>4 DEF FreshInv, ItemInv
<1>9. ShowsInv'
  <2>1. alive' \subseteq alive /\ pending' = pending
    BY <1>2
  <2> QED BY <1>1, <2>1, ShowsKept DEF IprInv
<1> QED BY <1>5, <1>6, <1>7, <1>8, <1>9 DEF IprInv

LEMMA ExportKeeps == IprInv /\ ExportStep => IprInv'
<1> SUFFICES ASSUME IprInv, ExportStep, ~ExportLightLinker PROVE IprInv'
  BY LinkerKeeps
<1>1. /\ Kept /\ ShowsInv' /\ ItemInv' /\ Cached /\ ModesInv'
      /\ work # <<>> /\ UNCHANGED <<session, phase, alive, pending>>
  BY StepDone
<1>2. Stack(work, ctx)
  BY DEF IprInv, CallsInv
<1>3. CallsInv'
  <2>1. Stack(work', ctx')
    BY <1>2, StackStep DEF IprInv, ModesInv
  <2>2. Stack(work, ctx)'
    BY <2>1
  <2> QED BY <2>2 DEF CallsInv
<1>4. SourceInv'
  BY <1>1, KeptFacts DEF IprInv
<1>5. FreshInv'
  <2>1. phase' # "live" => \A n \in DOMAIN plugins' : IsCurrent(n)'
    BY <1>1, KeptFacts DEF IprInv, FreshInv
  <2>2. \A g \in geoCache' \cup Range(items') : Fresh(g)'
    BY <1>1, KeptFacts DEF IprInv, FreshInv, Cached
  <2> QED BY <2>1, <2>2 DEF FreshInv
<1> QED BY <1>1, <1>3, <1>4, <1>5 DEF IprInv

\* Calls for objects of the top level, and the linker after them.
LEMMA FlatStack ==
  ASSUME NEW w, IsSeq(w),
         \A k \in 1 .. Len(w) :
           \/ \E o : w[k] = Call("object", o, None, 0)
           \/ w[k] = Call("linker", None, None, 0) /\ k = Len(w)
  PROVE  Stack(w, <<>>)
<1>1. Len(w) \in Nat /\ Len(<<>>) = 0
  BY SeqFacts
<1>2. \A k \in 1 .. Len(w) :
        /\ DOMAIN w[k] = {"do", "obj", "detail", "at", "list"}
        /\ w[k].do \in {"object", "linker"} /\ (w[k].do = "linker" => k = Len(w))
  BY CallFields
<1>3. CallsOk(w)
  BY <1>2 DEF CallsOk, CallOk, Chain
<1>4. PICK f : f = [k \in 1 .. Len(w) + 1 |-> 0]
  OBVIOUS
<1>5. Depths(f, w, <<>>)
  <2>1. f \in [1 .. Len(w) + 1 -> Nat] /\ \A k \in 1 .. Len(w) + 1 : f[k] = 0
    BY <1>4
  <2>2. \A k \in 1 .. Len(w) : k \in 1 .. Len(w) + 1 /\ k + 1 \in 1 .. Len(w) + 1
    BY <1>1
  <2>3. 1 \in 1 .. Len(w) + 1 /\ Len(w) + 1 \in 1 .. Len(w) + 1
    BY <1>1
  <2>4. \A k \in 1 .. Len(w) : Closes(w[k]) = 0
    BY <1>2 DEF Closes
  <2>5. \A k \in 1 .. Len(w) : f[k + 1] = f[k] - Closes(w[k])
    BY <2>1, <2>2, <2>4
  <2>6. \A i, j \in 1 .. Len(w) + 1 : i <= j => f[j] <= f[i]
    BY <2>1
  <2> QED BY <1>1, <2>1, <2>3, <2>5, <2>6 DEF Depths
<1>6. IsSeq(<<>>)
  <2>1. <<>> \in Seq({})
    OBVIOUS
  <2> QED BY <2>1 DEF IsSeq
<1> QED BY <1>3, <1>5, <1>6 DEF Stack

\* Nothing is under way between two exports.
LEMMA IdleFacts ==
  ASSUME IprInv, work = <<>>
  PROVE  /\ ctx = <<>> /\ items = <<>> /\ mode = "full"
         /\ \A o, s : ~Coming(o, s)
<1>1. ctx = <<>>
  BY StackEmpty DEF IprInv, CallsInv
<1>2. items = <<>> /\ mode = "full"
  BY DEF IprInv, ItemInv, ModesInv, HasFull
<1>3. ASSUME NEW o, NEW s, Coming(o, s) PROVE FALSE
  <2>1. ObjectCalls(<<o>>) # <<>>
    <3>1. DOMAIN ObjectCalls(<<o>>) = 1 .. 1
      BY DEF ObjectCalls
    <3> QED BY <3>1
  <2>2. ~Way(<<>>, o) /\ ~Promised(<<>>, o, s)
    <3>1. 1 .. Len(<<>>) = {}
      OBVIOUS
    <3> QED BY <3>1 DEF Way, Promised
  <2> QED BY <1>3, <2>1, <2>2 DEF Coming
<1> QED BY <1>1, <1>2, <1>3

LEMMA StartIsIpr == Init => IprInv
<1> SUFFICES ASSUME Init PROVE IprInv
  OBVIOUS
<1>1. CallsInv
  BY StackEmpty DEF Init, CallsInv
<1>2. ModesInv
  <2>1. NoPlugin.kind \notin Sourced
    BY DEF NoPlugin, Plugin, Sourced
  <2>2. <<>> \in Seq({})
    OBVIOUS
  <2> QED BY <2>1, <2>2, FS_EmptySet DEF Init, ModesInv, IsSeq
<1>3. plugins = <<>> /\ DOMAIN plugins = {}
  BY DEF Init
<1> QED BY <1>1, <1>2, <1>3 DEF Init, IprInv, SourceInv, FreshInv, ItemInv, ShowsInv

LEMMA SceneCalls ==
  Stack(Append(ObjectCalls(Bundle \o SetToSeq(Lights)), Call("linker", None, None, 0)), <<>>)
<1>1. PICK objs, calls0, linker, w :
        /\ objs = Bundle \o SetToSeq(Lights) /\ calls0 = ObjectCalls(objs)
        /\ linker = Call("linker", None, None, 0) /\ w = Append(calls0, linker)
  OBVIOUS
<1>2. objs \in Seq(Objects)
  <2>1. Bundle \in Seq(Objects) /\ SetToSeq(Lights) \in Seq(Objects)
    BY SceneAssumption, SetToSeqIsSeq DEF Objects, Geometry
  <2> QED BY <1>1, <2>1
<1>3. PICK S : S = {Call("object", o, None, 0) : o \in Objects} \cup {linker}
  OBVIOUS
<1>4. calls0 \in Seq(S) /\ Len(calls0) = Len(objs) /\ Len(objs) \in Nat
      /\ \A k \in 1 .. Len(objs) : calls0[k] = Call("object", objs[k], None, 0)
  <2>1. calls0 = [i \in 1 .. Len(objs) |-> Call("object", objs[i], None, 0)] /\ Len(objs) \in Nat
    BY <1>1, <1>2 DEF ObjectCalls
  <2>2. \A i \in 1 .. Len(objs) : Call("object", objs[i], None, 0) \in S
    BY <1>2, <1>3
  <2> QED BY <2>1, <2>2
<1>5. /\ w \in Seq(S) /\ Len(w) = Len(objs) + 1 /\ w[Len(objs) + 1] = linker
      /\ \A k \in 1 .. Len(objs) : w[k] = calls0[k]
  <2>1. linker \in S
    BY <1>3
  <2> QED BY <1>1, <1>4, <2>1
<1>6. ASSUME NEW k \in 1 .. Len(w)
      PROVE  \/ \E o : w[k] = Call("object", o, None, 0)
             \/ w[k] = Call("linker", None, None, 0) /\ k = Len(w)
  <2>1. CASE k \in 1 .. Len(objs)
    BY <1>4, <1>5, <2>1
  <2>2. CASE k \notin 1 .. Len(objs)
    <3>1. k = Len(objs) + 1
      BY <1>4, <1>5, <2>2
    <3> QED BY <1>1, <1>5, <3>1
  <2> QED BY <2>1, <2>2
<1>7. IsSeq(w)
  BY <1>5 DEF IsSeq
<1>8. Stack(w, <<>>)
  BY <1>6, <1>7, FlatStack
<1> QED BY <1>1, <1>8

LEMMA SceneKeeps == IprInv /\ ExportScene => IprInv'
<1> SUFFICES ASSUME IprInv, ExportScene PROVE IprInv'
  OBVIOUS
<1>1. /\ phase = "new" /\ phase' = "scene"
      /\ UNCHANGED <<session, alive, version, pending, ctx, items, result, mode, doGeometry, plugins,
                     opCache, geoCache>>
  BY DEF ExportScene, modes, caches
<1>2. work = <<>> /\ geoCache = {} /\ pending = {}
  BY <1>1 DEF IprInv, ModesInv
<1>3. ctx = <<>> /\ items = <<>> /\ mode = "full" /\ \A o, s : ~Coming(o, s)
  BY <1>2, IdleFacts
<1>4. CallsInv'
  <2>1. Stack(work', <<>>)
    BY SceneCalls DEF ExportScene
  <2>2. Stack(work, ctx)'
    BY <1>1, <1>3, <2>1
  <2> QED BY <2>2 DEF CallsInv
<1>5. ModesInv'
  BY <1>1, <1>2, <1>3 DEF IprInv, ModesInv, Details, Geometry, Sourced, IsSeq
<1>6. Kept /\ ItemsKept
  BY <1>1, SameKeeps
<1>7. SourceInv'
  BY <1>6, KeptFacts DEF IprInv
<1>8. FreshInv' /\ ItemInv'
  <2>1. \A n \in DOMAIN plugins' : IsCurrent(n)'
    BY <1>1, <1>6, KeptFacts DEF IprInv, FreshInv
  <2>2. Range(items') = {}
    BY <1>1, <1>3 DEF Range
  <2> QED BY <1>1, <1>2, <1>3, <2>1, <2>2 DEF FreshInv, ItemInv
<1>9. ShowsInv'
  <2>1. StillComing /\ alive' \subseteq alive
    BY <1>1, <1>3 DEF StillComing
  <2> QED BY <1>1, <1>6, <2>1, ShowsKept DEF IprInv
<1> QED BY <1>4, <1>5, <1>7, <1>8, <1>9 DEF IprInv

\* What does not change between two exports.
LEMMA IdleKeeps ==
  ASSUME IprInv, work = <<>>, phase = "live", DOMAIN version' = DOMAIN version,
         UNCHANGED <<phase, work, ctx, items, result, mode, doGeometry, plugins, opCache, geoCache>>
  PROVE  CallsInv' /\ ModesInv' /\ SourceInv' /\ FreshInv' /\ ItemInv'
<1>1. CallsInv'
  <2>1. Stack(work, ctx)'
    BY DEF IprInv, CallsInv
  <2> QED BY <2>1 DEF CallsInv
<1>2. ModesInv'
  BY IdleFacts DEF IprInv, ModesInv, Details, Geometry, Sourced, IsSeq
<1>3. SourceInv'
  BY DEF IprInv, SourceInv, NameFor, Details, Geometry, DetailsOf
<1>4. FreshInv' /\ ItemInv'
  BY IdleFacts DEF FreshInv, ItemInv
<1> QED BY <1>1, <1>2, <1>3, <1>4

\* What objects show has an event or is of the last version.
LEMMA IdleShows ==
  ASSUME IprInv, work = <<>>
  PROVE  /\ \A o \in alive \cap Geometry : InstancerOf(o) \in DOMAIN plugins =>
              \A g \in Range(plugins[InstancerOf(o)].items) :
                Good(g, o) /\ (Fresh(g) \/ <<"geometry", o>> \in pending)
         /\ \A n \in DOMAIN plugins : n.kind = "Volume" /\ n.obj \in alive =>
              Fresh(n) \/ <<"geometry", n.obj>> \in pending
BY IdleFacts DEF IprInv, ShowsInv, Due

LEMMA GeometryEdited == IprInv /\ (\E d \in Details : EditGeometry(d)) => IprInv'
<1> SUFFICES ASSUME IprInv, NEW d \in Details, EditGeometry(d) PROVE IprInv'
  OBVIOUS
<1>1. /\ work = <<>> /\ phase = "live"
      /\ version' = [e \in Details |-> IF SameGdp(d, e) THEN version[e] + 1 ELSE version[e]]
      /\ pending' = pending \cup ({"geometry"} \X {o \in alive \cap Geometry :
                                                   \E e \in DetailsOf(o) : SameGdp(d, e)})
      /\ UNCHANGED <<phase, alive, work, ctx, items, result, mode, doGeometry, plugins, opCache, geoCache>>
  BY DEF EditGeometry, CanEdit, Idle, modes, caches
<1>2. /\ DOMAIN version' = DOMAIN version /\ pending \subseteq pending'
      /\ \A s \in Details : ~SameGdp(d, s) => version'[s] = version[s]
      /\ \A o \in alive \cap Geometry :
           (\E e \in DetailsOf(o) : SameGdp(d, e)) => <<"geometry", o>> \in pending'
  BY <1>1 DEF IprInv, ModesInv
<1>3. CallsInv' /\ ModesInv' /\ SourceInv' /\ FreshInv' /\ ItemInv'
  BY <1>1, <1>2, IdleKeeps
<1>4. ASSUME NEW g, Fresh(g), ~Fresh(g)'
      PROVE  \E s \in Details : g.kind \in Sourced /\ NameFor(g, s) /\ SameGdp(d, s)
  <2>1. /\ g \in DOMAIN plugins /\ g.kind \in Sourced /\ IsCurrent(g) /\ ~IsCurrent(g)'
    BY <1>1, <1>4 DEF Fresh, Sourced
  <2>2. PICK s : s = plugins[g].source[1]
    OBVIOUS
  <2>3. plugins[g].source # <<>> /\ version'[s] # version[s]
    BY <1>1, <2>1, <2>2 DEF IsCurrent
  <2>4. s \in Details /\ NameFor(g, s)
    BY <2>1, <2>2, <2>3 DEF IprInv, SourceInv
  <2> QED BY <1>2, <2>1, <2>3, <2>4
<1>5. ASSUME NEW o \in alive' \cap Geometry, InstancerOf(o) \in DOMAIN plugins',
             NEW g \in Range(plugins'[InstancerOf(o)].items)
      PROVE  Good(g, o) /\ Due(o, g)'
  <2>1. Good(g, o) /\ (Fresh(g) \/ <<"geometry", o>> \in pending)
    BY <1>1, <1>5, IdleShows
  <2>2. Fresh(g) => Fresh(g)' \/ <<"geometry", o>> \in pending'
    <3> SUFFICES ASSUME Fresh(g), ~Fresh(g)' PROVE <<"geometry", o>> \in pending'
      OBVIOUS
    <3>1. PICK s \in Details : g.kind \in Sourced /\ NameFor(g, s) /\ SameGdp(d, s)
      BY <1>4
    <3>2. PICK e : Wanted(o, e) /\ g.key = DetailID(e)
      BY <2>1, <3>1, GoodWanted
    <3>3. DetailID(e) = DetailID(s)
      BY <2>1, <3>1, <3>2 DEF NameFor, Good, Sourced
    <3>4. Contents[e].gdp = Contents[s].gdp
      <4>1. <<"detail", Contents[e].gdp, 0>> = <<"detail", Contents[s].gdp, 0>>
        BY <3>3 DEF DetailID
      <4> QED BY <4>1
    <3>5. e \in DetailsOf(o) /\ SameGdp(d, e)
      BY <3>1, <3>2, <3>4 DEF Wanted, Leaf, DetailsOf, SameGdp
    <3> QED BY <1>1, <1>2, <1>5, <3>5
  <2> QED BY <1>2, <2>1, <2>2 DEF Due
<1>6. ASSUME NEW n \in DOMAIN plugins', n.kind = "Volume", n.obj \in alive'
      PROVE  Fresh(n)' \/ <<"geometry", n.obj>> \in pending'
  <2>1. Fresh(n) \/ <<"geometry", n.obj>> \in pending
    BY <1>1, <1>6, IdleShows
  <2>2. ASSUME Fresh(n), ~Fresh(n)' PROVE <<"geometry", n.obj>> \in pending'
    <3>1. PICK s \in Details : NameFor(n, s) /\ SameGdp(d, s)
      BY <1>4, <2>2
    <3>2. n.obj \in Geometry /\ s \in DetailsOf(n.obj)
      BY <1>6, <3>1 DEF NameFor
    <3> QED BY <1>1, <1>2, <1>6, <3>1, <3>2
  <2> QED BY <1>2, <2>1, <2>2
<1>7. \A q, g : Good(g, q)' <=> Good(g, q)
  BY DEF Good, Leaf, Geometry, Details, Sourced, DetailID, KindsOf
<1>8. \A q : InstancerOf(q)' = InstancerOf(q)
  BY DEF InstancerOf, Plugin
<1>9. ShowsInv'
  BY <1>5, <1>6, <1>7, <1>8 DEF ShowsInv, Geometry
<1> QED BY <1>3, <1>9 DEF IprInv

LEMMA ObjectEdited ==
  ASSUME IprInv, session = "ipr", NEW o, EditObject(o) \/ DeleteObject(o)
  PROVE  IprInv'
<1>1. /\ work = <<>> /\ phase = "live" /\ alive' \subseteq alive
      /\ UNCHANGED <<phase, version, work, ctx, items, result, mode, doGeometry, plugins, opCache, geoCache>>
      /\ \A q \in alive' : <<"geometry", q>> \in pending => <<"geometry", q>> \in pending'
  <2>1. CASE EditObject(o)
    BY <2>1 DEF EditObject, CanEdit, Idle, modes, caches
  <2>2. CASE DeleteObject(o)
    <3>1. \A q \in alive' : <<"geometry", q>>[2] # o
      BY <2>2 DEF DeleteObject
    <3> QED BY <2>2, <3>1 DEF DeleteObject, CanEdit, Idle, modes
  <2> QED BY <2>1, <2>2
<1>2. CallsInv' /\ ModesInv' /\ SourceInv' /\ FreshInv' /\ ItemInv'
  BY <1>1, IdleKeeps
<1>3. \A g : Fresh(g)' <=> Fresh(g)
  BY <1>1 DEF Fresh, IsCurrent
<1>4. \A q, g : Good(g, q)' <=> Good(g, q)
  BY DEF Good, Leaf, Geometry, Details, Sourced, DetailID, KindsOf
<1>5. \A q : InstancerOf(q)' = InstancerOf(q)
  BY DEF InstancerOf, Plugin
<1>6. ASSUME NEW q \in alive' \cap Geometry, InstancerOf(q) \in DOMAIN plugins',
             NEW g \in Range(plugins'[InstancerOf(q)].items)
      PROVE  Good(g, q) /\ Due(q, g)'
  <2>1. Good(g, q) /\ (Fresh(g) \/ <<"geometry", q>> \in pending)
    BY <1>1, <1>6, IdleShows
  <2> QED BY <1>1, <1>3, <1>6, <2>1 DEF Due
<1>7. \A n \in DOMAIN plugins' : n.kind = "Volume" /\ n.obj \in alive' =>
        Fresh(n)' \/ <<"geometry", n.obj>> \in pending'
  BY <1>1, <1>3, IdleShows
<1>8. ShowsInv'
  BY <1>4, <1>5, <1>6, <1>7 DEF ShowsInv, Geometry
<1> QED BY <1>2, <1>8 DEF IprInv

\* An update of an object removes its volumes and makes its items anew.
LEMMA UpdateKeeps ==
  ASSUME IprInv, VolumeInv, NEW kind, NEW o \in Objects, IprUpdate(kind, o)
  PROVE  IprInv'
<1>1. /\ work = <<>> /\ <<kind, o>> \in pending /\ pending' = pending \ {<<kind, o>>}
      /\ opCache' = {} /\ geoCache' = {} /\ work' = ObjectCalls(<<o>>)
      /\ plugins' = Drop(plugins, generated[o])
      /\ UNCHANGED <<phase, alive, version, ctx, items, result, mode, doGeometry>>
  BY DEF IprUpdate, Deliver, ClearPrims, Idle
<1>2. ctx = <<>> /\ items = <<>> /\ mode = "full" /\ phase = "live"
  <2>1. phase = "live"
    BY <1>1 DEF IprInv, ModesInv
  <2> QED BY <1>1, <2>1, IdleFacts
<1>3. CallsInv'
  <2>1. PICK c, w : c = Call("object", o, None, 0) /\ w = <<c>>
    OBVIOUS
  <2>2. work' = w
    BY <1>1, <2>1 DEF ObjectCalls
  <2>3. IsSeq(w) /\ Len(w) = 1 /\ w[1] = c
    <3>1. w \in Seq({c})
      BY <2>1
    <3> QED BY <2>1, <3>1 DEF IsSeq
  <2>4. Stack(w, <<>>)
    BY <2>1, <2>3, FlatStack
  <2>5. Stack(work, ctx)'
    BY <1>1, <1>2, <2>2, <2>4
  <2> QED BY <2>5 DEF CallsInv
<1>4. ModesInv'
  BY <1>1, <1>2, FS_EmptySet DEF IprInv, ModesInv, Details, Geometry, Sourced, IsSeq
<1>5. DOMAIN plugins' = DOMAIN plugins \ generated[o] /\ \A n \in DOMAIN plugins' : plugins'[n] = plugins[n]
  BY <1>1 DEF Drop
<1>6. Kept
  BY <1>1, <1>5 DEF Kept
<1>7. SourceInv'
  BY <1>6, KeptFacts DEF IprInv
<1>8. FreshInv' /\ ItemInv'
  <2>1. Range(items') = {}
    BY <1>1, <1>2 DEF Range
  <2> QED BY <1>1, <1>2, <2>1 DEF FreshInv, ItemInv
<1>9. ASSUME NEW q \in alive' \cap Geometry, InstancerOf(q) \in DOMAIN plugins',
             NEW g \in Range(plugins'[InstancerOf(q)].items)
      PROVE  Good(g, q) /\ Due(q, g)'
  <2>1. Good(g, q) /\ (Fresh(g) \/ <<"geometry", q>> \in pending)
    BY <1>1, <1>5, <1>9, IdleShows
  <2>2. CASE Fresh(g)
    BY <1>6, <2>1, <2>2, KeptFacts DEF Due, IprInv
  <2>3. CASE q # o /\ <<"geometry", q>> \in pending
    BY <1>1, <2>1, <2>3 DEF Due
  <2>4. CASE q = o
    <3>1. CASE g.kind \notin Sourced
      BY <3>1, FreshKinds, <2>1 DEF Due
    <3>2. CASE g.kind \in Sourced
      <4>1. PICK s : Wanted(q, s)
        BY <2>1, <3>2, GoodWanted
      <4>2. Coming(q, s)'
        BY <1>1, <1>2, <2>4 DEF Coming
      <4>3. Wanted(q, s)'
        BY <4>1 DEF Wanted, Leaf, Geometry, Details, KindsOf
      <4> QED BY <2>1, <4>2, <4>3 DEF Due
    <3> QED BY <3>1, <3>2
  <2> QED BY <2>1, <2>2, <2>3, <2>4
<1>10. ASSUME NEW n \in DOMAIN plugins', n.kind = "Volume", n.obj \in alive'
       PROVE  Fresh(n)' \/ <<"geometry", n.obj>> \in pending'
  <2>1. n.obj # o
    BY <1>5, <1>10 DEF VolumeInv
  <2>2. Fresh(n) \/ <<"geometry", n.obj>> \in pending
    BY <1>1, <1>5, <1>10, IdleShows
  <2> QED BY <1>1, <1>6, <2>1, <2>2, KeptFacts DEF IprInv
<1>11. \A q, g : Good(g, q)' <=> Good(g, q)
  BY DEF Good, Leaf, Geometry, Details, Sourced, DetailID, KindsOf
<1>12. \A q : InstancerOf(q)' = InstancerOf(q)
  BY DEF InstancerOf, Plugin
<1>13. ShowsInv'
  BY <1>9, <1>10, <1>11, <1>12 DEF ShowsInv, Geometry
<1> QED BY <1>3, <1>4, <1>7, <1>8, <1>13 DEF IprInv

LEMMA StutterKeeps ==
  ASSUME IprInv, UNCHANGED vars
  PROVE  IprInv'
<1>1. UNCHANGED <<session, phase, alive, version, pending, work, ctx, items, result, mode, doGeometry,
                  plugins, opCache, geoCache>>
  BY DEF vars, scene, modes, caches
<1>2. CallsInv'
  <2>1. Stack(work, ctx)'
    BY <1>1 DEF IprInv, CallsInv
  <2> QED BY <2>1 DEF CallsInv
<1>3. ModesInv'
  BY <1>1 DEF IprInv, ModesInv, HasFull, Details, Geometry, Sourced, IsSeq
<1>4. Kept /\ ItemsKept
  BY <1>1, SameKeeps
<1>5. SourceInv'
  BY <1>4, KeptFacts DEF IprInv
<1>6. FreshInv'
  BY <1>1, <1>4, KeptFacts DEF IprInv, FreshInv
<1>7. ItemInv'
  BY <1>1 DEF IprInv, ItemInv, Good, Leaf, Geometry, Details, Sourced, DetailID, KindsOf
<1>8. ShowsInv'
  <2>1. StillComing
    BY <1>1 DEF StillComing, Coming
  <2> QED BY <1>1, <1>4, <2>1, ShowsKept DEF IprInv
<1> QED BY <1>2, <1>3, <1>5, <1>6, <1>7, <1>8 DEF IprInv

LEMMA IprKeeps ==
  ASSUME session = "ipr" => IprInv, VolumeInv, [Next]_vars
  PROVE  (session = "ipr" => IprInv)'
<1>1. session' = session
  BY DEF Next, vars, scene, ExportScene, ExportStep, ExportLight, ExportNothing, ExportCached, ExportNew,
     ModeFull, CacheNode, ExportGeometry, Pop, ExportPoint, PointEnd, ExportDetail, SkipMeshPrim, ExportVolume,
     ExportPrim, ExportVRayScene, ExportPacked, ExportMeshes, ExportInstancer, ExportNode,
     ExportLightLinker, RestoreGeometry, User, EditGeometry, EditObject, DeleteObject, Events,
     IprUpdate, RtObjectChanged, RtLightChanged, RtGeometryChanged, Deliver
<1> SUFFICES ASSUME session = "ipr" PROVE IprInv'
  BY <1>1
<1>2. CASE User
  BY <1>2, GeometryEdited, ObjectEdited DEF User
<1>3. CASE Events
  <2>1. PICK o, kind : o \in Objects /\ IprUpdate(kind, o)
    BY <1>3 DEF Events, RtObjectChanged, RtLightChanged, RtGeometryChanged
  <2> QED BY <2>1, UpdateKeeps
<1> QED BY <1>2, <1>3, SceneKeeps, ExportKeeps, StutterKeeps DEF Next

\* CurrentInIpr without the particles of objects.
ShapesCurrent ==
  session = "ipr" => ((Live /\ pending = {}) =>
    \A n \in ShownPlugins :
      n \in DOMAIN plugins /\ n.kind # "GeomParticleSystem" => IsCurrent(n))

\* In an IPR session, once every event is delivered, the meshes, hair and volumes that are
\* shown of an object are of the last version of its geometry, however objects and details
\* nest: what the caches give out was exported for the same geometry since the last edit,
\* and whatever an object shows that is older will be collected again by a call that is
\* still to come.  Particles are left out: whether they are collected again depends on
\* what the cache has for their context, which the packed geometry before them made.
THEOREM IprIsCurrent == Spec => []ShapesCurrent
<1>1. Init => VolumeInv /\ (session = "ipr" => IprInv)
  BY VolumeInit, StartIsIpr
<1>2. VolumeInv /\ (session = "ipr" => IprInv) /\ [Next]_vars
        => VolumeInv' /\ (session = "ipr" => IprInv)'
  BY VolumeStep, IprKeeps
<1>3. (session = "ipr" => IprInv) => ShapesCurrent
  <2> SUFFICES ASSUME IprInv, Live, pending = {}, NEW n \in ShownPlugins, n \in DOMAIN plugins,
                      n.kind # "GeomParticleSystem"
               PROVE  IsCurrent(n)
    BY DEF ShapesCurrent
  <2>1. work = <<>>
    BY DEF Live, Idle
  <2>2. Fresh(n)
    BY <2>1, IdleShows DEF ShownPlugins
  <2>3. n.kind \notin Sourced => plugins[n].source = <<>>
    BY DEF IprInv, SourceInv, NameFor, Sourced
  <2> QED BY <2>2, <2>3 DEF Fresh, IsCurrent
<1> QED BY <1>1, <1>2, <1>3, PTL DEF Spec

-----------------------------------------------------------------------------
(* The light linker includes what the objects with a light mask show. *)

\* An object that no instancer leads to is exported once, from exportScene(): its calls
\* follow each other, and none of a cached object or of a point is made after them.
Outer(c) == c.obj \in Geometry \ Targets /\ c.do \in {"object", "instancer", "node", "cache"}
Deep == {"pop", "prim", "pointend", "full"}
Before(b, c) == b.obj = c.obj /\ (c.do = "node" => b.do = "instancer") /\ (c.do = "cache" => b.do = "node")
OuterCalls(w) ==
  \A i \in 1 .. Len(w) : Outer(w[i]) =>
    /\ \A j \in i .. Len(w) : w[j].do \notin Deep
    /\ \A j \in 1 .. Len(w) : j # i /\ Outer(w[j]) /\ w[j].obj = w[i].obj =>
         w[j].do # "object" /\ w[j].do # w[i].do
    /\ i > 1 /\ w[i].do \in {"node", "cache"} => Before(w[i - 1], w[i])

\* The Nodes that exportDetailInstancer() wraps raw geometry in.
Wrapper(g) == Plugin("Node", {g}, None)
Wrappers(o) == {Wrapper(g) : g \in {h \in Range(plugins[InstancerOf(o)].items) : h.kind # "Node"}}
WrapperInv ==
  \A n \in DOMAIN plugins : n.kind = "Node" /\ n.key # {} =>
    \E g : g.kind # "Node" /\ n = Wrapper(g)
StoredInv ==
  /\ DOMAIN lightLists = Lights /\ DOMAIN nodes = Objects \cup {None}
  /\ \A l \in Lights : /\ DOMAIN lightLists[l] = {"lights", "include"}
                       /\ \A n \in lightLists[l].lights : n.obj = l
OuterInv ==
  /\ OuterCalls(work)
  /\ \A i \in 1 .. Len(work) : Outer(work[i]) =>
       /\ work[i].do \in {"object", "instancer"} => InstancerOf(work[i].obj) \notin DOMAIN plugins
       /\ work[i].do = "object" => work[i].obj \notin opCache
       /\ i = 1 /\ work[i].do = "cache" => result # NoPlugin
Linked(o) ==
  Wrappers(o) # {} => \A l \in LightMask[o] : Wrappers(o) \subseteq lightLists[l].include
ToCache(w, o) == \E i \in 1 .. Len(w) : w[i].do = "cache" /\ w[i].obj = o
MaskInv ==
  \A o \in Geometry \ Targets : InstancerOf(o) \in DOMAIN plugins =>
    Wrappers(o) \subseteq nodes[o] /\ (Linked(o) \/ ToCache(work, o))
LinkerInv ==
  phase = "live" =>
    /\ work = <<>>
    /\ Range(plugins[LightLinker].items) =
         {lightLists[l] : l \in {k \in Lights : lightLists[k].include # {}}}
EmptyInv == phase = "new" => DOMAIN plugins = {} /\ opCache = {}
LinkInv == WrapperInv /\ StoredInv /\ OuterInv /\ MaskInv /\ LinkerInv /\ EmptyInv

LEMMA JoinedSeqs ==
  ASSUME NEW a, NEW b, IsSeq(a), IsSeq(b)
  PROVE  /\ IsSeq(a \o b) /\ Len(a) \in Nat /\ Len(b) \in Nat /\ Len(a \o b) = Len(a) + Len(b)
         /\ \A k \in 1 .. Len(a) : (a \o b)[k] = a[k]
         /\ \A k \in 1 .. Len(b) : (a \o b)[Len(a) + k] = b[k]
<1>1. PICK S, T : a \in Seq(S) /\ b \in Seq(T)
  BY DEF IsSeq
<1>2. PICK U : U = S \cup T
  OBVIOUS
<1>3. a \in Seq(U) /\ b \in Seq(U)
  BY <1>1, <1>2
<1> QED BY <1>3 DEF IsSeq

\* The calls after the first one are where they were, behind the new ones.
LEMMA NewCalls ==
  ASSUME NEW w, IsSeq(w), w # <<>>, NEW calls0, IsSeq(calls0), NEW v, v = calls0 \o Tail(w)
  PROVE  /\ IsSeq(v) /\ Len(v) \in Nat /\ Len(w) \in Nat /\ Len(calls0) \in Nat
         /\ Head(w) = w[1] /\ 1 \in 1 .. Len(w) /\ Len(v) = Len(calls0) + Len(w) - 1
         /\ \A k \in 1 .. Len(calls0) : k \in 1 .. Len(v) /\ v[k] = calls0[k]
         /\ \A k \in 2 .. Len(w) : k - 1 + Len(calls0) \in 1 .. Len(v) /\ v[k - 1 + Len(calls0)] = w[k]
         /\ \A k \in 1 .. Len(v) : k > Len(calls0) =>
              k - Len(calls0) + 1 \in 2 .. Len(w) /\ v[k] = w[k - Len(calls0) + 1]
<1>1. PICK t, m, n : t = Tail(w) /\ m = Len(calls0) /\ n = Len(w)
  OBVIOUS
<1>2. /\ n \in Nat /\ n >= 1 /\ IsSeq(t) /\ Len(t) = n - 1 /\ Head(w) = w[1]
      /\ \A k \in 1 .. n - 1 : t[k] = w[k + 1]
  BY <1>1, SeqFacts
<1>3. /\ IsSeq(v) /\ m \in Nat /\ Len(v) = m + (n - 1)
      /\ \A k \in 1 .. m : v[k] = calls0[k]
      /\ \A k \in 1 .. n - 1 : v[m + k] = t[k]
  BY <1>1, <1>2, JoinedSeqs
<1>4. ASSUME NEW k \in 2 .. n PROVE k - 1 + m \in 1 .. Len(v) /\ v[k - 1 + m] = w[k]
  <2>1. PICK x : x = k - 1
    OBVIOUS
  <2>2. x \in 1 .. n - 1 /\ m + x = k - 1 + m /\ x + 1 = k /\ m + x \in 1 .. Len(v)
    BY <1>2, <1>3, <2>1
  <2>3. v[m + x] = t[x] /\ t[x] = w[x + 1]
    BY <1>2, <1>3, <2>2
  <2> QED BY <2>2, <2>3
<1>5. ASSUME NEW k \in 1 .. Len(v), k > m PROVE k - m + 1 \in 2 .. n /\ v[k] = w[k - m + 1]
  <2>1. k - m + 1 \in 2 .. n /\ (k - m + 1) - 1 + m = k
    BY <1>2, <1>3, <1>5
  <2>2. v[(k - m + 1) - 1 + m] = w[k - m + 1]
    BY <1>4, <2>1
  <2> QED BY <2>1, <2>2
<1> QED BY <1>1, <1>2, <1>3, <1>4, <1>5

\* The k-th call was there before, and if it caches an object that is exported next, its
\* node is what was exported.
Remains(v, k, w) ==
  \E j \in 2 .. Len(w) : /\ v[k] = w[j]
                         /\ k = 1 /\ w[j].do = "cache" =>
                              Head(w).do = "node" /\ Head(w).obj = w[j].obj

LEMMA OuterGoOn ==
  ASSUME NEW w, IsSeq(w), w # <<>>, OuterCalls(w), NEW calls0, IsSeq(calls0),
         \A k \in 1 .. Len(calls0) : ~Outer(calls0[k]),
         calls0 = <<>> \/ Head(w).do \notin {"instancer", "node"},
         NEW v, v = calls0 \o Tail(w)
  PROVE  /\ OuterCalls(v)
         /\ \A k \in 1 .. Len(v) : Outer(v[k]) => Remains(v, k, w)
<1>1. PICK m, n : m = Len(calls0) /\ n = Len(w)
  OBVIOUS
<1>2. /\ Len(v) \in Nat /\ n \in Nat /\ m \in Nat /\ Head(w) = w[1] /\ 1 \in 1 .. n
      /\ Len(v) = m + n - 1
      /\ \A k \in 1 .. m : k \in 1 .. Len(v) /\ v[k] = calls0[k]
      /\ \A k \in 1 .. Len(v) : k > m => k - m + 1 \in 2 .. n /\ v[k] = w[k - m + 1]
  BY <1>1, NewCalls
<1>3. ASSUME NEW k \in 1 .. Len(v), Outer(v[k])
      PROVE  k > m /\ k - m + 1 \in 2 .. n /\ v[k] = w[k - m + 1]
  <2>1. k > m
    BY <1>1, <1>2, <1>3
  <2> QED BY <1>2, <2>1
<1>4. \A i \in 1 .. n : Outer(w[i]) =>
        /\ \A j \in i .. n : w[j].do \notin Deep
        /\ \A j \in 1 .. n : j # i /\ Outer(w[j]) /\ w[j].obj = w[i].obj =>
             w[j].do # "object" /\ w[j].do # w[i].do
        /\ i > 1 /\ w[i].do \in {"node", "cache"} => Before(w[i - 1], w[i])
  BY <1>1 DEF OuterCalls
<1>5. w[1].do \in {"instancer", "node"} => m = 0
  BY <1>1, <1>2
<1>6. ASSUME NEW i \in 1 .. Len(v), Outer(v[i])
      PROVE  /\ \A j \in i .. Len(v) : v[j].do \notin Deep
             /\ \A j \in 1 .. Len(v) : j # i /\ Outer(v[j]) /\ v[j].obj = v[i].obj =>
                  v[j].do # "object" /\ v[j].do # v[i].do
             /\ i > 1 /\ v[i].do \in {"node", "cache"} => Before(v[i - 1], v[i])
             /\ i = 1 /\ v[i].do = "cache" => w[1].do = "node" /\ w[1].obj = v[i].obj
  <2>1. PICK x : x = i - m + 1
    OBVIOUS
  <2>2. i > m /\ x \in 2 .. n /\ x \in 1 .. n /\ v[i] = w[x] /\ Outer(w[x])
    BY <1>3, <1>6, <2>1
  <2>3. ASSUME NEW j \in i .. Len(v) PROVE v[j].do \notin Deep
    <3>1. j \in 1 .. Len(v) /\ j > m /\ j - m + 1 \in x .. n
      BY <1>2, <2>1, <2>2
    <3>2. v[j] = w[j - m + 1]
      BY <1>2, <3>1
    <3> QED BY <1>4, <2>2, <3>1, <3>2
  <2>4. ASSUME NEW j \in 1 .. Len(v), j # i, Outer(v[j]), v[j].obj = v[i].obj
        PROVE  v[j].do # "object" /\ v[j].do # v[i].do
    <3>1. j > m /\ j - m + 1 \in 2 .. n /\ v[j] = w[j - m + 1]
      BY <1>3, <2>4
    <3>2. j - m + 1 # x /\ j - m + 1 \in 1 .. n
      BY <1>2, <2>1, <2>4, <3>1
    <3> QED BY <1>4, <2>2, <2>4, <3>1, <3>2
  <2>5. v[i].do \in {"node", "cache"} => Before(w[x - 1], w[x])
    BY <1>4, <2>2
  <2>6. ASSUME v[i].do \in {"node", "cache"}, x = 2 PROVE i = 1 /\ m = 0
    <3>1. Before(w[1], w[2]) /\ w[2].do \in {"node", "cache"}
      BY <2>2, <2>5, <2>6
    <3>2. w[1].do \in {"instancer", "node"}
      BY <3>1 DEF Before
    <3> QED BY <1>2, <1>5, <2>1, <2>2, <2>6, <3>2
  <2>7. ASSUME i > 1, v[i].do \in {"node", "cache"} PROVE Before(v[i - 1], v[i])
    <3>1. x > 2 /\ i - 1 > m
      BY <1>2, <2>1, <2>2, <2>6, <2>7
    <3>2. i - 1 \in 1 .. Len(v) /\ (i - 1) - m + 1 = x - 1
      <4>1. i \in Int /\ m \in Int /\ x = i - m + 1
        BY <1>2, <2>1
      <4>2. Len(v) \in Nat
        BY <1>2
      <4>3. i > 1
        BY <2>7
      <4>4. i - 1 \in 1 .. Len(v)
        BY <4>1, <4>2, <4>3
      <4>5. (i - 1) - m + 1 = x - 1
        BY <4>1
      <4> QED BY <4>4, <4>5
    <3>3. v[i - 1] = w[x - 1]
      BY <1>2, <3>1, <3>2
    <3> QED BY <2>2, <2>5, <2>7, <3>3
  <2>8. ASSUME i = 1, v[i].do = "cache" PROVE w[1].do = "node" /\ w[1].obj = v[i].obj
    <3>1. m = 0 /\ x = 2
      BY <1>2, <2>1, <2>2, <2>8
    <3> QED BY <2>2, <2>5, <2>8, <3>1 DEF Before
  <2> QED BY <2>3, <2>4, <2>7, <2>8
<1>7. OuterCalls(v)
  BY <1>6 DEF OuterCalls
<1>8. ASSUME NEW k \in 1 .. Len(v), Outer(v[k])
      PROVE  Remains(v, k, w)
  <2>1. k - m + 1 \in 2 .. Len(w) /\ v[k] = w[k - m + 1]
    BY <1>1, <1>3, <1>8
  <2>2. k = 1 /\ v[k].do = "cache" => w[1].do = "node" /\ w[1].obj = v[k].obj
    BY <1>6, <1>8
  <2> QED BY <1>2, <2>1, <2>2 DEF Remains
<1> QED BY <1>7, <1>8

\* The calls of an object of the top level that is exported.
Called(v, k, w, b, c, d) ==
  /\ ~(k = 1 /\ v[k].do = "cache")
  /\ \/ v[k] = b \/ v[k] = c \/ v[k] = d
     \/ \E j \in 2 .. Len(w) : v[k] = w[j] /\ w[j].obj # Head(w).obj

LEMMA OuterNew ==
  ASSUME NEW w, IsSeq(w), w # <<>>, OuterCalls(w), Outer(Head(w)), Head(w).do = "object",
         NEW a, NEW b, NEW c, NEW d, a.do = "geometry", b.do = "instancer", c.do = "node", d.do = "cache",
         \A e \in {a, b, c, d} : e.obj = Head(w).obj,
         NEW v, v = <<a, b, c, d>> \o Tail(w)
  PROVE  /\ OuterCalls(v)
         /\ \A k \in 1 .. Len(v) : Outer(v[k]) => Called(v, k, w, b, c, d)
<1>1. PICK n, calls0 : n = Len(w) /\ calls0 = <<a, b, c, d>>
  OBVIOUS
<1>2. /\ IsSeq(calls0) /\ Len(calls0) = 4 /\ calls0[1] = a /\ calls0[2] = b /\ calls0[3] = c
      /\ calls0[4] = d
  <2>1. PICK S : S = {a, b, c, d}
    OBVIOUS
  <2>2. a \in S /\ b \in S /\ c \in S /\ d \in S
    BY <2>1
  <2>3. <<a, b, c, d>> \in Seq(S)
    BY <2>2
  <2> QED BY <1>1, <2>3 DEF IsSeq
<1>3. /\ Len(v) \in Nat /\ n \in Nat /\ Head(w) = w[1] /\ 1 \in 1 .. n
      /\ Len(v) = 4 + n - 1
      /\ \A k \in 1 .. 4 : k \in 1 .. Len(v) /\ v[k] = calls0[k]
      /\ \A k \in 1 .. Len(v) : k > 4 => k - 4 + 1 \in 2 .. n /\ v[k] = w[k - 4 + 1]
  BY <1>1, <1>2, NewCalls
<1>4. /\ 1 \in 1 .. 4 /\ 2 \in 1 .. 4 /\ 3 \in 1 .. 4 /\ 4 \in 1 .. 4
      /\ v[1] = a /\ v[2] = b /\ v[3] = c /\ v[4] = d
  BY <1>2, <1>3
<1>5. \A i \in 1 .. n : Outer(w[i]) =>
        /\ \A j \in i .. n : w[j].do \notin Deep
        /\ \A j \in 1 .. n : j # i /\ Outer(w[j]) /\ w[j].obj = w[i].obj =>
             w[j].do # "object" /\ w[j].do # w[i].do
        /\ i > 1 /\ w[i].do \in {"node", "cache"} => Before(w[i - 1], w[i])
  BY <1>1 DEF OuterCalls
<1>6. \A j \in 2 .. n : w[j].do \notin Deep /\ (Outer(w[j]) => w[j].obj # w[1].obj)
  <2>1. ASSUME NEW j \in 2 .. n PROVE j \in 1 .. n /\ j # 1
    BY <1>3
  <2> QED BY <1>3, <1>5, <2>1
<1>7. ~Outer(a)
  BY DEF Outer
<1>8. ASSUME NEW k \in 1 .. Len(v)
      PROVE  k = 1 \/ k = 2 \/ k = 3 \/ k = 4 \/ k > 4
  BY <1>3
<1>9. ASSUME NEW k \in 1 .. Len(v), k > 4
      PROVE  /\ k - 4 + 1 \in 2 .. n /\ v[k] = w[k - 4 + 1] /\ v[k].do \notin Deep
             /\ Outer(v[k]) => v[k].obj # w[1].obj
  BY <1>3, <1>6, <1>9
<1>10. ASSUME NEW i \in 1 .. Len(v), Outer(v[i]) PROVE \A j \in i .. Len(v) : v[j].do \notin Deep
  <2>1. i # 1
    BY <1>4, <1>7, <1>10
  <2>2. ASSUME NEW j \in i .. Len(v) PROVE v[j].do \notin Deep
    <3>1. j \in 1 .. Len(v) /\ j # 1
      BY <1>3, <2>1
    <3> QED BY <1>4, <1>8, <1>9, <3>1 DEF Deep
  <2> QED BY <2>2
<1>11. ASSUME NEW i \in 1 .. Len(v), Outer(v[i]), NEW j \in 1 .. Len(v), j # i, Outer(v[j]),
              v[j].obj = v[i].obj
       PROVE  v[j].do # "object" /\ v[j].do # v[i].do
  <2>1. i # 1 /\ j # 1
    BY <1>4, <1>7, <1>11
  <2>2. CASE i <= 4
    <3>1. v[i].obj = w[1].obj
      BY <1>3, <1>4, <1>8, <2>2
    <3>2. ~(j > 4)
      BY <1>9, <1>11, <3>1
    <3> QED BY <1>4, <1>8, <1>11, <2>1, <2>2, <3>2
  <2>3. CASE i > 4
    <3>1. v[i].obj # w[1].obj
      BY <1>9, <1>11, <2>3
    <3>2. j > 4
      BY <1>3, <1>4, <1>8, <1>11, <3>1
    <3>3. /\ i - 4 + 1 \in 1 .. n /\ j - 4 + 1 \in 1 .. n /\ i - 4 + 1 # j - 4 + 1
          /\ v[i] = w[i - 4 + 1] /\ v[j] = w[j - 4 + 1]
      BY <1>3, <1>11, <2>3, <3>2
    <3> QED BY <1>5, <1>11, <3>3
  <2> QED BY <2>2, <2>3
<1>12. ASSUME NEW i \in 1 .. Len(v), Outer(v[i]), i > 1, v[i].do \in {"node", "cache"}
       PROVE  Before(v[i - 1], v[i])
  <2>1. CASE i <= 4
    <3>1. i = 3 \/ i = 4
      BY <1>4, <1>8, <1>12, <2>1
    <3> QED BY <1>3, <1>4, <3>1 DEF Before
  <2>2. CASE i > 4
    <3>1. PICK x : x = i - 4 + 1
      OBVIOUS
    <3>2. x \in 2 .. n /\ v[i] = w[x] /\ Before(w[x - 1], w[x])
      BY <1>3, <1>5, <1>9, <1>12, <2>2, <3>1
    <3>3. x # 2
      BY <1>3, <1>12, <3>2 DEF Before
    <3>4. i - 1 \in 1 .. Len(v) /\ i - 1 > 4 /\ (i - 1) - 4 + 1 = x - 1
      BY <1>3, <2>2, <3>1, <3>2, <3>3
    <3>5. v[i - 1] = w[x - 1]
      BY <1>3, <3>4
    <3> QED BY <3>2, <3>5
  <2>3. i <= 4 \/ i > 4
    BY <1>8
  <2> QED BY <2>1, <2>2, <2>3
<1>13. OuterCalls(v)
  BY <1>10, <1>11, <1>12 DEF OuterCalls
<1>14. ASSUME NEW k \in 1 .. Len(v), Outer(v[k]) PROVE Called(v, k, w, b, c, d)
  <2>1. k # 1
    BY <1>4, <1>7, <1>14
  <2>2. k > 4 => \E j \in 2 .. Len(w) : v[k] = w[j] /\ w[j].obj # Head(w).obj
    <3> SUFFICES ASSUME k > 4 PROVE \E j \in 2 .. Len(w) : v[k] = w[j] /\ w[j].obj # Head(w).obj
      OBVIOUS
    <3>1. k - 4 + 1 \in 2 .. n /\ v[k] = w[k - 4 + 1] /\ v[k].obj # w[1].obj
      BY <1>9, <1>14
    <3> QED BY <1>1, <1>3, <3>1
  <2> QED BY <1>4, <1>8, <2>1, <2>2 DEF Called
<1> QED BY <1>13, <1>14


\* What a call leaves to the calls after it.
LEMMA OuterStep ==
  ASSUME OuterInv, IsSeq(work), work # <<>>, NEW calls0, IsSeq(calls0), Goto(calls0),
         \A k \in 1 .. Len(calls0) : ~Outer(calls0[k]),
         calls0 = <<>> \/ Caller.do \notin {"instancer", "node"},
         \A o \in Geometry \ Targets : InstancerOf(o) \in DOMAIN plugins' =>
           InstancerOf(o) \in DOMAIN plugins \/ (Caller.do = "instancer" /\ Caller.obj = o),
         \A o \in opCache' : o \in opCache \/ (Caller.do = "cache" /\ Caller.obj = o),
         Outer(Caller) /\ Caller.do = "node" => result' # NoPlugin
  PROVE  OuterInv'
<1>1. PICK w, v : w = work /\ v = work' /\ v = calls0 \o Tail(w)
  BY DEF Goto
<1>2. IsSeq(w) /\ w # <<>> /\ OuterCalls(w) /\ Head(w) = Caller
  BY <1>1 DEF OuterInv, Caller
<1>3. OuterCalls(v) /\ \A k \in 1 .. Len(v) : Outer(v[k]) => Remains(v, k, w)
  <2>1. calls0 = <<>> \/ Head(w).do \notin {"instancer", "node"}
    BY <1>2
  <2> QED BY <1>1, <1>2, <2>1, OuterGoOn
<1>4. Len(w) \in Nat /\ 1 \in 1 .. Len(w) /\ w[1] = Caller
  BY <1>1, <1>2, NewCalls
<1>5. ASSUME NEW i \in 1 .. Len(v), Outer(v[i])
      PROVE  /\ v[i].do \in {"object", "instancer"} => InstancerOf(v[i].obj) \notin DOMAIN plugins'
             /\ v[i].do = "object" => v[i].obj \notin opCache'
             /\ i = 1 /\ v[i].do = "cache" => result' # NoPlugin
  <2>1. PICK j \in 2 .. Len(w) : /\ v[i] = w[j]
                                 /\ i = 1 /\ w[j].do = "cache" =>
                                      Caller.do = "node" /\ Caller.obj = w[j].obj
    BY <1>2, <1>3, <1>5 DEF Remains
  <2>2. PICK q : q = w[j].obj
    OBVIOUS
  <2>3. j \in 1 .. Len(w) /\ j # 1 /\ Outer(w[j]) /\ q \in Geometry \ Targets
    BY <1>4, <1>5, <2>1, <2>2 DEF Outer
  <2>4. /\ w[j].do \in {"object", "instancer"} => InstancerOf(q) \notin DOMAIN plugins
        /\ w[j].do = "object" => q \notin opCache
    BY <1>1, <2>2, <2>3 DEF OuterInv
  <2>5. ASSUME Outer(Caller), Caller.obj = q PROVE w[j].do # "object" /\ w[j].do # Caller.do
    BY <1>2, <1>4, <2>2, <2>3, <2>5 DEF OuterCalls
  <2>6. ASSUME Caller.do \in {"object", "instancer", "node", "cache"}, Caller.obj = q
        PROVE  Outer(Caller)
    BY <2>3, <2>6 DEF Outer
  <2>7. w[j].do \in {"object", "instancer"} => InstancerOf(q) \notin DOMAIN plugins'
    BY <2>3, <2>4, <2>5, <2>6
  <2>8. w[j].do = "object" => q \notin opCache'
    BY <2>4, <2>5, <2>6
  <2>9. i = 1 /\ w[j].do = "cache" => result' # NoPlugin
    BY <2>1, <2>2, <2>6
  <2> QED BY <2>1, <2>2, <2>7, <2>8, <2>9
<1>6. OuterCalls(work') /\ Len(work') = Len(v)
  BY <1>1, <1>3
<1>7. OuterCalls(work)'
  BY <1>6 DEF OuterCalls, Outer, Geometry, Targets, Details
<1>8. \A i \in 1 .. Len(work') : Outer(work'[i]) =>
        /\ work'[i].do \in {"object", "instancer"} => InstancerOf(work'[i].obj) \notin DOMAIN plugins'
        /\ work'[i].do = "object" => work'[i].obj \notin opCache'
        /\ i = 1 /\ work'[i].do = "cache" => result' # NoPlugin
  BY <1>1, <1>5
<1> QED BY <1>7, <1>8 DEF OuterInv, Outer, Geometry, Targets, Details, InstancerOf, Plugin, NoPlugin

\* Nothing stored for the linker is taken away before it is exported.
Grown ==
  /\ \A l \in Lights : lightLists[l].include \subseteq lightLists'[l].include
  /\ \A o \in Objects : nodes[o] \subseteq nodes'[o]

LEMMA MaskStep ==
  ASSUME MaskInv, IsSeq(work), work # <<>>, NEW calls0, IsSeq(calls0), Goto(calls0), Grown,
         NEW o \in Geometry \ Targets, InstancerOf(o) \in DOMAIN plugins,
         plugins'[InstancerOf(o)] = plugins[InstancerOf(o)],
         ~(Caller.do = "cache" /\ Caller.obj = o)
  PROVE  Wrappers(o)' \subseteq nodes'[o] /\ (Linked(o)' \/ ToCache(work', o))
<1>1. Wrappers(o)' = Wrappers(o)
  BY DEF Wrappers, Wrapper, InstancerOf, Plugin
<1>2. Wrappers(o)' \subseteq nodes'[o]
  BY <1>1 DEF MaskInv, Grown, Objects
<1>3. CASE Linked(o)
  <2>1. LightMask[o] \subseteq Lights
    BY SceneAssumption
  <2> QED BY <1>1, <1>2, <1>3, <2>1 DEF Linked, Grown
<1>4. CASE ToCache(work, o)
  <2>1. PICK i \in 1 .. Len(work) : work[i].do = "cache" /\ work[i].obj = o
    BY <1>4 DEF ToCache
  <2>2. PICK w, v : w = work /\ v = work' /\ v = calls0 \o Tail(w)
    BY DEF Goto
  <2>3. /\ Head(w) = w[1] /\ Len(w) \in Nat
        /\ \A k \in 2 .. Len(w) : k - 1 + Len(calls0) \in 1 .. Len(v) /\ v[k - 1 + Len(calls0)] = w[k]
    BY <2>2, NewCalls
  <2>4. i # 1
    BY <2>1, <2>2, <2>3 DEF Caller
  <2>5. i \in 2 .. Len(w)
    BY <2>1, <2>2, <2>3, <2>4
  <2>6. ToCache(v, o)
    BY <2>1, <2>2, <2>3, <2>5 DEF ToCache
  <2> QED BY <1>2, <2>2, <2>6
<1> QED BY <1>2, <1>3, <1>4 DEF MaskInv

\* A call that exports no Node and no Instancer2.
Calm ==
  /\ opCache' = opCache
  /\ \A n \in DOMAIN plugins' : n.kind \in {"Node", "Instancer2"} => n \in DOMAIN plugins
  /\ \A n \in DOMAIN plugins : n.kind = "Instancer2" => plugins'[n] = plugins[n]

LEMMA CalmStep ==
  ASSUME LinkInv, phase = "scene", phase' = phase, IsSeq(work), work # <<>>,
         NEW calls0, IsSeq(calls0), Goto(calls0), Calm, Grown, StoredInv', OuterInv',
         Caller.do # "cache"
  PROVE  LinkInv'
<1>1. WrapperInv'
  BY DEF LinkInv, WrapperInv, Calm, Wrapper, Plugin
<1>2. ASSUME NEW o \in Geometry \ Targets, InstancerOf(o) \in DOMAIN plugins'
      PROVE  Wrappers(o)' \subseteq nodes'[o] /\ (Linked(o)' \/ ToCache(work', o))
  <2>1. InstancerOf(o).kind = "Instancer2"
    BY DEF InstancerOf, Plugin
  <2>2. InstancerOf(o) \in DOMAIN plugins /\ plugins'[InstancerOf(o)] = plugins[InstancerOf(o)]
    BY <1>2, <2>1 DEF Calm
  <2> QED BY <2>2, MaskStep DEF LinkInv
<1>3. MaskInv'
  BY <1>2 DEF MaskInv, ToCache, InstancerOf, Plugin, Geometry, Targets, Details
<1>4. LinkerInv' /\ EmptyInv'
  BY DEF LinkerInv, EmptyInv
<1> QED BY <1>1, <1>3, <1>4 DEF LinkInv

\* An object of the top level is exported under no level and in full mode.
LEMMA OuterCaller ==
  ASSUME IprInv, OuterInv, work # <<>>, Outer(Caller)
  PROVE  /\ ctx = <<>> /\ mode = "full" /\ Caller.obj \in Geometry \ Targets
         /\ Caller.do = "object" => Caller.obj \notin opCache
         /\ Caller.do \in {"object", "instancer"} => InstancerOf(Caller.obj) \notin DOMAIN plugins
         /\ Caller.do = "cache" => result # NoPlugin
         /\ Caller.do = "instancer" => ToCache(Tail(work), Caller.obj)
<1>1. Stack(work, ctx)
  BY DEF IprInv, CallsInv
<1>2. PICK f : Depths(f, work, ctx)
  BY <1>1 DEF Stack
<1>3. PICK n : n = Len(work)
  OBVIOUS
<1>4. /\ IsSeq(work) /\ IsSeq(ctx)
      /\ \A k \in 1 .. n : work[k].do \in Chain => k < n /\ Follows(work[k], work[k + 1])
  BY <1>1, <1>3 DEF Stack, CallsOk
<1>5. n \in Nat /\ n >= 1 /\ 1 \in 1 .. n /\ work[1] = Caller /\ Len(Tail(work)) = n - 1
      /\ \A k \in 1 .. n - 1 : Tail(work)[k] = work[k + 1]
  BY <1>3, <1>4, SeqFacts DEF Caller
<1>6. \A j \in 1 .. n : work[j].do \notin Deep
  BY <1>3, <1>5 DEF OuterInv, OuterCalls
<1>7. ctx = <<>>
  <2>1. \A k \in 1 .. n : f[k + 1] = f[k]
    <3>1. \A k \in 1 .. n : Closes(work[k]) = 0
      BY <1>6 DEF Closes, Deep
    <3>2. f \in [1 .. n + 1 -> Nat] /\ \A k \in 1 .. n : f[k + 1] = f[k] - Closes(work[k])
      BY <1>2, <1>3 DEF Depths
    <3>3. \A k \in 1 .. n : k \in 1 .. n + 1
      BY <1>5
    <3> QED BY <3>1, <3>2, <3>3
  <2>2. PICK S : S = {k \in Nat : k <= n => f[k + 1] = f[1]}
    OBVIOUS
  <2>3. 0 \in S
    BY <2>2
  <2>4. ASSUME NEW k \in Nat, k \in S PROVE k + 1 \in S
    <3> SUFFICES ASSUME k + 1 <= n PROVE f[(k + 1) + 1] = f[1]
      BY <2>2
    <3>1. k + 1 \in 1 .. n /\ k <= n
      BY <1>5
    <3> QED BY <2>1, <2>2, <2>4, <3>1
  <2>5. Nat \subseteq S
    BY <2>3, <2>4, Induction
  <2>6. f[n + 1] = f[1]
    BY <1>5, <2>2, <2>5
  <2>7. Len(ctx) = 0
    BY <1>2, <1>3, <2>6 DEF Depths
  <2> QED BY <1>4, <2>7 DEF IsSeq
<1>8. mode = "full"
  BY <1>3, <1>6 DEF IprInv, ModesInv, HasFull, Deep
<1>9. ASSUME Caller.do = "instancer" PROVE ToCache(Tail(work), Caller.obj)
  <2>1. 1 < n /\ work[2].do = "node" /\ work[2].obj = Caller.obj
    BY <1>4, <1>5, <1>9 DEF Chain, Follows
  <2>2. 2 \in 1 .. n
    BY <1>5, <2>1
  <2>3. 2 < n /\ work[3].do \in {"cache", "full"} /\ work[3].obj = Caller.obj
    BY <1>4, <2>1, <2>2 DEF Chain, Follows
  <2>4. 3 \in 1 .. n /\ 2 \in 1 .. n - 1
    BY <1>5, <2>3
  <2>5. work[3].do = "cache"
    BY <1>6, <2>3, <2>4 DEF Deep
  <2>6. Tail(work)[2] = work[3]
    BY <1>5, <2>4
  <2> QED BY <1>5, <2>3, <2>4, <2>5, <2>6 DEF ToCache
<1> QED BY <1>3, <1>5, <1>7, <1>8, <1>9 DEF OuterInv, Outer

\* The calls that a call makes are of points' objects, or of no object.
NoneOuter(calls0) == IsSeq(calls0) /\ \A k \in 1 .. Len(calls0) : ~Outer(calls0[k])

LEMMA FewNotOuter ==
  /\ NoneOuter(<<>>)
  /\ \A a : ~Outer(a) => NoneOuter(<<a>>)
  /\ \A a, b : ~Outer(a) /\ ~Outer(b) => NoneOuter(<<a, b>>)
  /\ \A a, b, c : ~Outer(a) /\ ~Outer(b) /\ ~Outer(c) => NoneOuter(<<a, b, c>>)
  /\ \A a, b, c, d : ~Outer(a) /\ ~Outer(b) /\ ~Outer(c) /\ ~Outer(d) => NoneOuter(<<a, b, c, d>>)
<1>1. \A S : (\A e \in S : ~Outer(e)) => \A s \in Seq(S) : NoneOuter(s)
  BY DEF NoneOuter, IsSeq
<1>2. NoneOuter(<<>>)
  <2>1. PICK S : S = {}
    OBVIOUS
  <2>2. <<>> \in Seq(S) /\ \A e \in S : ~Outer(e)
    BY <2>1
  <2> QED BY <1>1, <2>2
<1>3. ASSUME NEW a, NEW b, NEW c, NEW d
      PROVE  \E S : /\ a \in S /\ S = {a, b, c, d}
                    /\ <<a>> \in Seq(S) /\ <<a, b>> \in Seq(S) /\ <<a, b, c>> \in Seq(S)
                    /\ <<a, b, c, d>> \in Seq(S)
  <2>1. PICK S : S = {a, b, c, d}
    OBVIOUS
  <2>2. a \in S /\ b \in S /\ c \in S /\ d \in S
    BY <2>1
  <2>3. <<a>> \in Seq(S) /\ <<a, b>> \in Seq(S) /\ <<a, b, c>> \in Seq(S) /\ <<a, b, c, d>> \in Seq(S)
    BY <2>2
  <2> QED BY <2>1, <2>2, <2>3
<1>4. ASSUME NEW a, NEW b, NEW c, NEW d, ~Outer(a), ~Outer(b), ~Outer(c), ~Outer(d)
      PROVE  NoneOuter(<<a>>) /\ NoneOuter(<<a, b>>) /\ NoneOuter(<<a, b, c>>) /\ NoneOuter(<<a, b, c, d>>)
  <2>1. PICK S : /\ S = {a, b, c, d}
                 /\ <<a>> \in Seq(S) /\ <<a, b>> \in Seq(S) /\ <<a, b, c>> \in Seq(S)
                 /\ <<a, b, c, d>> \in Seq(S)
    BY <1>3
  <2>2. \A e \in S : ~Outer(e)
    BY <1>4, <2>1
  <2> QED BY <1>1, <2>1, <2>2
<1>5. \A a : ~Outer(a) => NoneOuter(<<a>>)
  BY <1>4
<1>6. \A a, b : ~Outer(a) /\ ~Outer(b) => NoneOuter(<<a, b>>)
  BY <1>4
<1>7. \A a, b, c : ~Outer(a) /\ ~Outer(b) /\ ~Outer(c) => NoneOuter(<<a, b, c>>)
  BY <1>4
<1> QED BY <1>2, <1>4, <1>5, <1>6, <1>7

LEMMA CalmKeeps ==
  ASSUME IprInv, LinkInv, phase = "scene", phase' = phase, work # <<>>,
         NEW calls0, NoneOuter(calls0), Goto(calls0),
         Calm, Grown, StoredInv', Caller.do \notin {"instancer", "node", "cache"}
  PROVE  LinkInv'
<1>1. IsSeq(work) /\ IsSeq(calls0) /\ \A k \in 1 .. Len(calls0) : ~Outer(calls0[k])
  BY IprFacts DEF NoneOuter
<1>2. \A o \in Geometry \ Targets : InstancerOf(o) \in DOMAIN plugins' => InstancerOf(o) \in DOMAIN plugins
  BY DEF Calm, InstancerOf, Plugin
<1>3. \A o \in opCache' : o \in opCache
  BY DEF Calm
<1>4. OuterInv'
  BY <1>1, <1>2, <1>3, OuterStep DEF LinkInv
<1> QED BY <1>1, <1>4, CalmStep

LEMMA SameStore ==
  ASSUME UNCHANGED <<nodes, lightLists>>, StoredInv
  PROVE  Grown /\ StoredInv'
BY DEF Grown, StoredInv, Objects, Geometry

\* A plugin that is no Node and no Instancer2.
LEMMA PutIsCalm ==
  ASSUME opCache' = opCache, NEW name, NEW value, name.kind \notin {"Node", "Instancer2"},
         plugins' = Put(plugins, name, value)
  PROVE  Calm
BY DEF Calm, Put

LEMMA SameIsCalm ==
  ASSUME opCache' = opCache, plugins' = plugins
  PROVE  Calm
BY DEF Calm

LEMMA LightLinks == IprInv /\ LinkInv /\ phase = "scene" /\ ExportLight => LinkInv'
<1> SUFFICES ASSUME IprInv, LinkInv, phase = "scene", ExportLight PROVE LinkInv'
  OBVIOUS
<1>1. PICK name, l :
        /\ name = Plugin("Light", ContextID(ctx), l) /\ l = Caller.obj /\ l \in Lights
        /\ plugins' = Put(plugins, name, Of(<<>>))
        /\ lightLists' = [lightLists EXCEPT ![l].lights = @ \cup {name}]
  BY DEF ExportLight
<1>2. work # <<>> /\ Caller.do = "object" /\ Goto(<<>>) /\ UNCHANGED <<phase, opCache, nodes>>
  BY DEF ExportLight, Calls, Caller, scene
<1>3. name.kind = "Light" /\ name.obj = l
  BY <1>1 DEF Plugin
<1>4. Calm
  BY <1>1, <1>2, <1>3, PutIsCalm
<1>5. /\ DOMAIN lightLists' = Lights
      /\ \A k \in Lights :
           /\ DOMAIN lightLists'[k] = {"lights", "include"}
           /\ lightLists'[k].include = lightLists[k].include
           /\ lightLists'[k].lights \subseteq
                lightLists[k].lights \cup (IF k = l THEN {name} ELSE {})
  BY <1>1 DEF LinkInv, StoredInv
<1>6. Grown /\ StoredInv'
  BY <1>2, <1>3, <1>5 DEF LinkInv, StoredInv, Grown, Objects, Geometry
<1> QED BY <1>2, <1>4, <1>6, CalmKeeps, FewNotOuter

\* The four calls for an object.
LEMMA ObjectCalled ==
  ASSUME NEW o, NEW d, NEW a, a = Call("geometry", o, Root[o], 0),
         NEW b, b = Call("instancer", o, None, 0), NEW c, c = Call("node", o, None, 0)
  PROVE  /\ Append(NodeCalls(o), d) = <<a, b, c, d>>
         /\ a.do = "geometry" /\ b.do = "instancer" /\ c.do = "node"
         /\ a.obj = o /\ b.obj = o /\ c.obj = o
<1>1. NodeCalls(o) = <<a, b, c>>
  BY DEF NodeCalls
<1>2. /\ a.do = "geometry" /\ b.do = "instancer" /\ c.do = "node"
      /\ a.obj = o /\ b.obj = o /\ c.obj = o
  BY CallFields
<1>3. Append(<<a, b, c>>, d) = <<a, b, c, d>>
  BY Append3
<1> QED BY <1>1, <1>2, <1>3

\* A call for an object that an instancer leads to.
LEMMA InnerLinks ==
  ASSUME IprInv, LinkInv, phase = "scene", ExportCached \/ ExportNew, ~Outer(Caller)
  PROVE  LinkInv'
<1>1. /\ work # <<>> /\ Caller.do = "object" /\ Caller.obj \in Geometry
      /\ UNCHANGED <<phase, plugins, opCache, nodes, lightLists>>
  BY DEF ExportCached, ExportNew, Calls, Caller, scene, caches, IprInv, ModesInv
<1>2. PICK d, o : o = Caller.obj /\ d.obj = o /\ Goto(Append(NodeCalls(o), d))
  BY CallFields DEF ExportCached, ExportNew
<1>3. PICK a, b, c : /\ a = Call("geometry", o, Root[o], 0) /\ b = Call("instancer", o, None, 0)
                     /\ c = Call("node", o, None, 0)
  OBVIOUS
<1>4. Append(NodeCalls(o), d) = <<a, b, c, d>> /\ a.obj = o /\ b.obj = o /\ c.obj = o
  BY <1>3, ObjectCalled
<1>5. o \notin Geometry \ Targets
  BY <1>1, <1>2 DEF Outer
<1>6. NoneOuter(<<a, b, c, d>>)
  BY <1>2, <1>4, <1>5, FewNotOuter DEF Outer
<1>7. Goto(<<a, b, c, d>>)
  BY <1>2, <1>4
<1>8. Calm /\ Grown /\ StoredInv'
  BY <1>1, SameIsCalm, SameStore DEF LinkInv
<1> QED BY <1>1, <1>6, <1>7, <1>8, CalmKeeps

LEMMA OuterLinks ==
  ASSUME IprInv, LinkInv, phase = "scene", ExportCached \/ ExportNew, Outer(Caller)
  PROVE  LinkInv'
<1>1. /\ work # <<>> /\ Caller.do = "object" /\ Caller.obj \in Geometry
      /\ UNCHANGED <<phase, plugins, opCache, nodes, lightLists>>
  BY DEF ExportCached, ExportNew, Calls, Caller, scene, caches, IprInv, ModesInv
<1>2. Caller.obj \notin opCache /\ InstancerOf(Caller.obj) \notin DOMAIN plugins
  BY <1>1, OuterCaller DEF LinkInv
<1>3. PICK d, o : /\ o = Caller.obj /\ d.obj = o /\ d.do = "cache"
                  /\ Goto(Append(NodeCalls(o), d))
  <2>1. Goto(Append(NodeCalls(Caller.obj), Call("cache", Caller.obj, None, 0)))
    BY <1>2 DEF ExportCached, ExportNew
  <2> QED BY <2>1, CallFields
<1>4. PICK a, b, c : /\ a = Call("geometry", o, Root[o], 0) /\ b = Call("instancer", o, None, 0)
                     /\ c = Call("node", o, None, 0)
  OBVIOUS
<1>5. /\ Append(NodeCalls(o), d) = <<a, b, c, d>>
      /\ a.do = "geometry" /\ b.do = "instancer" /\ c.do = "node"
      /\ a.obj = o /\ b.obj = o /\ c.obj = o
  BY <1>4, ObjectCalled
<1>6. PICK w, v : w = work /\ v = work' /\ v = <<a, b, c, d>> \o Tail(w)
  BY <1>3, <1>5 DEF Goto
<1>7. IsSeq(w) /\ w # <<>> /\ OuterCalls(w) /\ Head(w) = Caller /\ 1 \in 1 .. Len(w) /\ Len(w) \in Nat
      /\ w[1] = Caller
  <2>1. IsSeq(w) /\ w # <<>> /\ OuterCalls(w) /\ Head(w) = Caller
    BY <1>1, <1>6, IprFacts DEF LinkInv, OuterInv, Caller
  <2> QED BY <2>1, SeqFacts
<1>8. OuterCalls(v) /\ \A k \in 1 .. Len(v) : Outer(v[k]) => Called(v, k, w, b, c, d)
  <2>1. /\ IsSeq(w) /\ w # <<>> /\ OuterCalls(w) /\ Outer(Head(w)) /\ Head(w).do = "object"
        /\ \A e \in {a, b, c, d} : e.obj = Head(w).obj
    BY <1>1, <1>3, <1>5, <1>7
  <2> QED BY <1>3, <1>5, <1>6, <2>1, OuterNew
<1>9. \A k \in 1 .. Len(v) : Outer(v[k]) =>
        /\ v[k].do \in {"object", "instancer"} => InstancerOf(v[k].obj) \notin DOMAIN plugins
        /\ v[k].do = "object" => v[k].obj \notin opCache
        /\ ~(k = 1 /\ v[k].do = "cache")
  <2> SUFFICES ASSUME NEW k \in 1 .. Len(v), Outer(v[k])
               PROVE  /\ v[k].do \in {"object", "instancer"} => InstancerOf(v[k].obj) \notin DOMAIN plugins
                      /\ v[k].do = "object" => v[k].obj \notin opCache
                      /\ ~(k = 1 /\ v[k].do = "cache")
    OBVIOUS
  <2>1. CASE v[k] = b \/ v[k] = c \/ v[k] = d
    BY <1>2, <1>3, <1>5, <1>8, <2>1 DEF Called
  <2>2. ASSUME NEW j \in 2 .. Len(w), v[k] = w[j]
        PROVE  /\ v[k].do \in {"object", "instancer"} => InstancerOf(v[k].obj) \notin DOMAIN plugins
               /\ v[k].do = "object" => v[k].obj \notin opCache
    <3>1. j \in 1 .. Len(w)
      BY <1>7
    <3> QED BY <1>6, <2>2, <3>1 DEF LinkInv, OuterInv
  <2> QED BY <1>7, <1>8, <2>1, <2>2 DEF Called
<1>10. OuterInv'
  <2>1. OuterCalls(work')
    BY <1>6, <1>8
  <2>2. OuterCalls(work)'
    BY <2>1 DEF OuterCalls, Outer, Geometry, Targets, Details
  <2> QED BY <1>1, <1>6, <1>9, <2>2 DEF OuterInv, Outer, Geometry, Targets, Details, InstancerOf, Plugin
<1>11. Calm /\ Grown /\ StoredInv'
  BY <1>1, SameIsCalm, SameStore DEF LinkInv
<1>12. PICK calls0 : calls0 = <<a, b, c, d>> /\ IsSeq(calls0) /\ Goto(calls0)
  <2>1. PICK S : S = {a, b, c, d}
    OBVIOUS
  <2>2. <<a, b, c, d>> \in Seq(S)
    BY <2>1
  <2> QED BY <1>3, <1>5, <2>2 DEF IsSeq
<1> QED BY <1>1, <1>6, <1>7, <1>10, <1>11, <1>12, CalmStep

\* The calls that export nothing themselves.
LEMMA PointLinks == IprInv /\ LinkInv /\ phase = "scene" /\ ExportPoint => LinkInv'
<1> SUFFICES ASSUME IprInv, LinkInv, phase = "scene", ExportPoint PROVE LinkInv'
  OBVIOUS
<1>1. /\ work # <<>> /\ Caller.do = "point"
      /\ UNCHANGED <<phase, plugins, opCache, nodes, lightLists>>
  BY DEF ExportPoint, Calls, Caller, scene, caches
<1>2. Calm /\ Grown /\ StoredInv'
  BY <1>1, SameIsCalm, SameStore DEF LinkInv
<1>3. PICK c, points, i : c = Caller /\ points = Contents[c.detail].points /\ i = c.at
  OBVIOUS
<1>4. /\ DOMAIN c = {"do", "obj", "detail", "at", "list"} /\ c.do = "point" /\ c.detail \in Details
      /\ i \in Nat \ {0} /\ points \in Seq(Range(points))
  BY <1>1, <1>3, IprFacts, SceneAssumption DEF CallOk
<1>5. PICK next : next = [c EXCEPT !.at = i + 1]
  OBVIOUS
<1>6. next.do = "point" /\ DOMAIN next = {"do", "obj", "detail", "at", "list"}
  BY <1>4, <1>5
<1>7. PICK end : end = [next EXCEPT !.do = "pointend"]
  OBVIOUS
<1>8. end.do = "pointend"
  BY <1>6, <1>7
<1>9. ~Outer(next) /\ ~Outer(end)
  BY <1>6, <1>8 DEF Outer
<1>10. \/ Goto(<<>>) \/ Goto(<<next>>)
       \/ ~(i > Len(points)) /\ Goto(<<Call("object", points[i], None, 0), end>>)
  BY <1>3, <1>5, <1>7 DEF ExportPoint
<1>11. ASSUME ~(i > Len(points)) PROVE ~Outer(Call("object", points[i], None, 0))
  <2>1. i \in 1 .. Len(points)
    BY <1>4, <1>11
  <2>2. points[i] \in Targets
    BY <1>3, <1>4, <2>1 DEF Targets, Range
  <2> QED BY <2>2, CallFields DEF Outer
<1>12. PICK calls0 : NoneOuter(calls0) /\ Goto(calls0)
  BY <1>9, <1>10, <1>11, FewNotOuter
<1> QED BY <1>1, <1>2, <1>12, CalmKeeps

LEMMA PlainLinks ==
  ASSUME IprInv, LinkInv, phase = "scene",
         \/ ExportNothing \/ ModeFull \/ ExportGeometry \/ Pop \/ PointEnd
         \/ SkipMeshPrim \/ ExportPacked
  PROVE  LinkInv'
<1>1. /\ work # <<>> /\ Caller.do \in {"object", "full", "geometry", "pop", "pointend", "prim"}
      /\ UNCHANGED <<phase, plugins, opCache, nodes, lightLists>>
  BY DEF ExportNothing, ModeFull, ExportGeometry, Pop, PointEnd, SkipMeshPrim, ExportPacked, PrimIs,
         Calls, Caller, scene, caches
<1>2. Calm /\ Grown /\ StoredInv'
  BY <1>1, SameIsCalm, SameStore DEF LinkInv
<1>3. DOMAIN Caller = {"do", "obj", "detail", "at", "list"}
  BY <1>1, IprFacts DEF CallOk
<1>4. \A c : c.do \notin {"object", "instancer", "node", "cache"} => ~Outer(c)
  BY DEF Outer
<1>5. \A do, o, d, i : Call(do, o, d, i).do = do
  BY CallFields
<1>6. CASE ExportNothing \/ ModeFull \/ Pop
  <2>1. Goto(<<>>)
    BY <1>6 DEF ExportNothing, ModeFull, Pop
  <2> QED BY <1>1, <1>2, <2>1, FewNotOuter, CalmKeeps
<1>7. CASE ExportGeometry
  <2>1. \E a, b : /\ a.do \in {"point", "detail"} /\ b.do = "pop" /\ Goto(<<a, b>>)
    <3>1. PICK o, d : o = Caller.obj /\ d = Caller.detail
      OBVIOUS
    <3>2. PICK a, b : /\ a = IF Contents[d].points # <<>> THEN Call("point", o, d, 1)
                                                         ELSE Call("detail", o, d, 0)
                      /\ b = Call("pop", o, d, 0)
      OBVIOUS
    <3>3. Goto(<<a, b>>)
      BY <1>7, <3>1, <3>2 DEF ExportGeometry
    <3>4. a.do \in {"point", "detail"} /\ b.do = "pop"
      BY <1>5, <3>2
    <3> QED BY <3>3, <3>4
  <2>2. PICK calls0 : NoneOuter(calls0) /\ Goto(calls0)
    BY <1>4, <2>1, FewNotOuter
  <2> QED BY <1>1, <1>2, <2>2, CalmKeeps
<1>8. CASE PointEnd
  <2>1. PICK c : c.do = "point" /\ Goto(<<c>>)
    BY <1>3, <1>8 DEF PointEnd
  <2> QED BY <1>1, <1>2, <1>4, <2>1, FewNotOuter, CalmKeeps
<1>9. CASE SkipMeshPrim \/ ExportPacked
  <2>1. Caller.do = "prim"
    BY <1>9 DEF SkipMeshPrim, ExportPacked, PrimIs, Calls, Caller
  <2>2. NextPrim.do = "prim"
    BY <1>3, <2>1 DEF NextPrim
  <2>3. \/ Goto(<<NextPrim>>)
        \/ Goto(<<Call("detail", Caller.obj, ThisPrim.inner, 0), Call("pop", Caller.obj, None, 0), NextPrim>>)
    BY <1>9 DEF SkipMeshPrim, ExportPacked
  <2>4. PICK calls0 : NoneOuter(calls0) /\ Goto(calls0)
    BY <1>4, <1>5, <2>2, <2>3, FewNotOuter
  <2> QED BY <1>1, <1>2, <2>4, CalmKeeps
<1> QED BY <1>6, <1>7, <1>8, <1>9

\* The calls that export what is in a detail.
LEMMA ShapeLinks ==
  ASSUME IprInv, LinkInv, phase = "scene",
         ExportDetail \/ ExportVolume \/ ExportPrim \/ ExportVRayScene \/ ExportMeshes
  PROVE  LinkInv'
<1>1. /\ work # <<>> /\ Caller.do \in {"detail", "prim"} /\ UNCHANGED <<phase, opCache, lightLists>>
  BY DEF ExportDetail, ExportVolume, ExportPrim, ExportVRayScene, ExportMeshes, PrimIs, Calls, Caller,
         scene, caches
<1>2. DOMAIN Caller = {"do", "obj", "detail", "at", "list"} /\ Caller.obj \in Geometry
  BY <1>1, IprFacts DEF CallOk
<1>3. \A c : c.do \notin {"object", "instancer", "node", "cache"} => ~Outer(c)
  BY DEF Outer
<1>4. PICK calls0 : NoneOuter(calls0) /\ Goto(calls0)
  <2>1. \A do, o, d, i : Call(do, o, d, i).do = do
    BY CallFields
  <2>2. CASE ExportDetail
    <3>1. \/ Goto(<<>>) \/ Goto(<<Call("prim", Caller.obj, Caller.detail, 1)>>)
      BY <2>2 DEF ExportDetail
    <3> QED BY <1>3, <2>1, <3>1, FewNotOuter
  <2>3. CASE ExportVolume \/ ExportPrim \/ ExportVRayScene
    <3>1. Caller.do = "prim" /\ Goto(<<NextPrim>>)
      BY <2>3 DEF ExportVolume, ExportPrim, ExportVRayScene, PrimIs, Calls, Caller
    <3>2. NextPrim.do = "prim"
      BY <1>2, <3>1 DEF NextPrim
    <3> QED BY <1>3, <3>1, <3>2, FewNotOuter
  <2>4. CASE ExportMeshes
    BY <2>4, FewNotOuter DEF ExportMeshes
  <2> QED BY <2>2, <2>3, <2>4
<1>5. \A kind, key, o : Plugin(kind, key, o).kind = kind
  BY DEF Plugin
<1>6. Calm
  <2>1. CASE ExportDetail
    <3>1. \/ plugins' = plugins
          \/ \E name, value : name.kind = "GeomParticleSystem" /\ plugins' = Put(plugins, name, value)
      BY <1>5, <2>1 DEF ExportDetail, ExportParticles, ParticlesOf
    <3> QED BY <1>1, <3>1, PutIsCalm, SameIsCalm
  <2>2. CASE ExportVolume
    <3>1. \E name, value : name.kind = "Volume" /\ plugins' = Put(plugins, name, value)
      BY <1>5, <2>2 DEF ExportVolume
    <3> QED BY <1>1, <3>1, PutIsCalm
  <2>3. CASE ExportPrim
    <3>1. PICK name : /\ name.kind \in {"sphere", "proxy", "plane"}
                      /\ plugins' \in {plugins, Put(plugins, name, Of(<<>>))}
      <4> DEFINE name == Plugin(ThisPrim.kind,
                                IF ThisPrim.kind = "proxy" THEN FileID(ThisPrim.file) ELSE {},
                                IF ThisPrim.kind = "sphere" THEN Caller.obj ELSE None)
      <4>1. name.kind \in {"sphere", "proxy", "plane"}
        BY <1>5, <2>3 DEF ExportPrim, PrimIs
      <4>2. plugins' \in {plugins, Put(plugins, name, Of(<<>>))}
        BY <2>3 DEF ExportPrim
      <4> HIDE DEF name
      <4> QED BY <4>1, <4>2
    <3> QED BY <1>1, <3>1, PutIsCalm, SameIsCalm
  <2>4. CASE ExportVRayScene
    <3>1. PICK name : /\ name.kind = "VRayScene"
                      /\ plugins' \in {plugins, Put(plugins, name, Of(<<>>))}
      BY <1>5, <2>4 DEF ExportVRayScene
    <3> QED BY <1>1, <3>1, PutIsCalm, SameIsCalm
  <2>5. CASE ExportMeshes
    <3>1. PICK new : /\ DOMAIN plugins' = DOMAIN plugins \cup new
                     /\ \A n \in DOMAIN plugins' : n \notin new => plugins'[n] = plugins[n]
                     /\ \A n \in new : n.kind \in {"mesh", "hair"}
      BY <2>5, MeshesAre
    <3> QED BY <1>1, <3>1 DEF Calm
  <2> QED BY <2>1, <2>2, <2>3, <2>4, <2>5
<1>7. Grown /\ StoredInv'
  <2>1. CASE ExportVolume
    <3>1. PICK name : nodes' = [nodes EXCEPT ![Caller.obj] = @ \cup {name}]
      BY <2>1 DEF ExportVolume
    <3>2. DOMAIN nodes' = DOMAIN nodes /\ \A o \in DOMAIN nodes : nodes[o] \subseteq nodes'[o]
      BY <3>1
    <3> QED BY <1>1, <3>2 DEF LinkInv, StoredInv, Grown, Objects, Geometry
  <2>2. CASE ~ExportVolume
    <3>1. nodes' = nodes
      BY <2>2 DEF ExportDetail, ExportPrim, ExportVRayScene, ExportMeshes, caches
    <3> QED BY <1>1, <3>1, SameStore DEF LinkInv
  <2> QED BY <2>1, <2>2
<1> QED BY <1>1, <1>4, <1>6, <1>7, CalmKeeps

\* The end of an export: what the object shows goes to the lists of its lights.
LEMMA CacheLinks == IprInv /\ LinkInv /\ phase = "scene" /\ CacheNode => LinkInv'
<1> SUFFICES ASSUME IprInv, LinkInv, phase = "scene", CacheNode PROVE LinkInv'
  OBVIOUS
<1>1. /\ work # <<>> /\ Caller.do = "cache" /\ Goto(<<>>)
      /\ UNCHANGED <<phase, plugins, nodes, result>>
      /\ IF result # NoPlugin THEN opCache' = opCache \cup {Caller.obj} /\ LinkLights(Caller.obj)
                              ELSE UNCHANGED <<opCache, lightLists>>
  BY DEF CacheNode, Calls, Caller, scene
<1>2. PICK q : q = Caller.obj
  OBVIOUS
<1>3. /\ DOMAIN lightLists' = Lights
      /\ \A l \in Lights :
           /\ DOMAIN lightLists'[l] = {"lights", "include"}
           /\ lightLists'[l].lights = lightLists[l].lights
           /\ lightLists[l].include \subseteq lightLists'[l].include
           /\ result # NoPlugin /\ l \in LightMask[q] /\ nodes[q] # {} =>
                nodes[q] \subseteq lightLists'[l].include
  <2>1. DOMAIN lightLists = Lights /\ \A l \in Lights : DOMAIN lightLists[l] = {"lights", "include"}
    BY DEF LinkInv, StoredInv
  <2>2. CASE result # NoPlugin
    <3>1. lightLists' = [l \in Lights |->
            IF l \in LightMask[q] /\ nodes[q] # {}
              THEN [lightLists[l] EXCEPT !.include = @ \cup nodes[q]] ELSE lightLists[l]]
      BY <1>1, <1>2, <2>2 DEF LinkLights
    <3> QED BY <2>1, <3>1
  <2>3. CASE result = NoPlugin
    BY <1>1, <2>1, <2>3
  <2> QED BY <2>2, <2>3
<1>4. StoredInv' /\ Grown
  BY <1>1, <1>3 DEF LinkInv, StoredInv, Grown, Objects, Geometry
<1>5. IsSeq(work) /\ NoneOuter(<<>>)
  BY <1>1, IprFacts, FewNotOuter
<1>6. OuterInv'
  <2>1. \A o \in opCache' : o \in opCache \/ (Caller.do = "cache" /\ Caller.obj = o)
    BY <1>1
  <2> QED BY <1>1, <1>5, <2>1, OuterStep DEF LinkInv, NoneOuter
<1>7. ASSUME NEW o \in Geometry \ Targets, InstancerOf(o) \in DOMAIN plugins'
      PROVE  Wrappers(o)' \subseteq nodes'[o] /\ (Linked(o)' \/ ToCache(work', o))
  <2>1. InstancerOf(o) \in DOMAIN plugins
    BY <1>1, <1>7
  <2>2. CASE o # q
    BY <1>1, <1>2, <1>4, <1>5, <2>1, <2>2, MaskStep DEF LinkInv, NoneOuter
  <2>3. CASE o = q
    <3>1. Outer(Caller)
      BY <1>1, <1>2, <1>7, <2>3 DEF Outer
    <3>2. result # NoPlugin
      BY <1>1, <3>1, OuterCaller DEF LinkInv
    <3>3. Wrappers(o)' = Wrappers(o) /\ Wrappers(o) \subseteq nodes[o]
      BY <1>1, <2>1 DEF LinkInv, MaskInv, Wrappers, Wrapper, InstancerOf, Plugin
    <3>4. LightMask[o] \subseteq Lights
      BY SceneAssumption
    <3>5. Linked(o)'
      BY <1>3, <2>3, <3>2, <3>3, <3>4 DEF Linked
    <3> QED BY <1>1, <3>3, <3>5
  <2> QED BY <2>2, <2>3
<1>8. MaskInv'
  BY <1>7 DEF MaskInv, ToCache, InstancerOf, Plugin, Geometry, Targets, Details
<1>9. WrapperInv' /\ LinkerInv' /\ EmptyInv'
  BY <1>1 DEF LinkInv, WrapperInv, LinkerInv, EmptyInv, Wrapper, Plugin
<1> QED BY <1>4, <1>6, <1>8, <1>9 DEF LinkInv

\* exportDetailInstancer() stores the wrappers before the object's calls are over.
LEMMA InstancerLinks == IprInv /\ LinkInv /\ phase = "scene" /\ ExportInstancer => LinkInv'
<1> SUFFICES ASSUME IprInv, LinkInv, phase = "scene", ExportInstancer PROVE LinkInv'
  OBVIOUS
<1>1. /\ work # <<>> /\ Caller.do = "instancer" /\ Goto(<<>>)
      /\ UNCHANGED <<phase, opCache, lightLists>>
  BY DEF ExportInstancer, Calls, Caller, scene
<1>2. PICK q, raw, wrappers, g0, more :
        /\ q = Caller.obj /\ g0 = Generator(q)
        /\ raw = {g \in Range(items) : g.kind # "Node"}
        /\ wrappers = {Plugin("Node", {g}, None) : g \in raw}
        /\ more = [n \in DOMAIN plugins \cup wrappers |->
                     IF n \in wrappers THEN Of(SetToSeq(n.key)) ELSE plugins[n]]
  OBVIOUS
<1>3. IF items = <<>>
        THEN UNCHANGED <<plugins, nodes>>
        ELSE /\ nodes' = [nodes EXCEPT ![g0] = @ \cup wrappers]
             /\ plugins' = Put(more, InstancerOf(q), Of(items))
  BY <1>2 DEF ExportInstancer
<1>4. \A n \in wrappers : n.kind = "Node" /\ \E g : g.kind # "Node" /\ n = Wrapper(g)
  BY <1>2 DEF Wrapper, Plugin
<1>5. \A o : InstancerOf(o).kind = "Instancer2" /\ (InstancerOf(o) = InstancerOf(q) => o = q)
  BY DEF InstancerOf, Plugin
<1>6. items # <<>> =>
        /\ DOMAIN plugins' = DOMAIN plugins \cup wrappers \cup {InstancerOf(q)}
        /\ plugins'[InstancerOf(q)] = Of(items)
        /\ \A o : o # q /\ InstancerOf(o) \in DOMAIN plugins => plugins'[InstancerOf(o)] = plugins[InstancerOf(o)]
  <2> SUFFICES ASSUME items # <<>>
               PROVE  /\ DOMAIN plugins' = DOMAIN plugins \cup wrappers \cup {InstancerOf(q)}
                      /\ plugins'[InstancerOf(q)] = Of(items)
                      /\ \A o : o # q /\ InstancerOf(o) \in DOMAIN plugins =>
                           plugins'[InstancerOf(o)] = plugins[InstancerOf(o)]
    OBVIOUS
  <2>1. PICK name : name = InstancerOf(q)
    OBVIOUS
  <2>2. /\ DOMAIN plugins' = DOMAIN more \cup {name} /\ plugins'[name] = Of(items)
        /\ \A n \in DOMAIN more : n # name => plugins'[n] = more[n]
    BY <1>3, <2>1 DEF Put
  <2>3. /\ DOMAIN more = DOMAIN plugins \cup wrappers
        /\ \A n \in DOMAIN plugins : n \notin wrappers => more[n] = plugins[n]
    BY <1>2
  <2>4. \A o : InstancerOf(o) \notin wrappers
    BY <1>4, <1>5
  <2> QED BY <1>5, <2>1, <2>2, <2>3, <2>4
<1>7. /\ DOMAIN nodes' = DOMAIN nodes
      /\ \A o \in DOMAIN nodes : nodes[o] \subseteq nodes'[o]
      /\ items # <<>> /\ g0 \in DOMAIN nodes => wrappers \subseteq nodes'[g0]
  BY <1>3
<1>8. StoredInv' /\ Grown
  BY <1>1, <1>7 DEF LinkInv, StoredInv, Grown, Objects, Geometry
<1>9. IsSeq(work) /\ NoneOuter(<<>>) /\ work' = Tail(work)
  BY <1>1, IprFacts, FewNotOuter, NoCalls DEF Goto
<1>10. OuterInv'
  <2>1. \A o \in Geometry \ Targets : InstancerOf(o) \in DOMAIN plugins' =>
          InstancerOf(o) \in DOMAIN plugins \/ (Caller.do = "instancer" /\ Caller.obj = o)
    BY <1>1, <1>2, <1>3, <1>4, <1>5, <1>6
  <2> QED BY <1>1, <1>9, <2>1, OuterStep DEF LinkInv, NoneOuter
<1>11. ASSUME NEW o \in Geometry \ Targets, InstancerOf(o) \in DOMAIN plugins'
       PROVE  Wrappers(o)' \subseteq nodes'[o] /\ (Linked(o)' \/ ToCache(work', o))
  <2>1. CASE items = <<>> \/ o # q
    <3>1. InstancerOf(o) \in DOMAIN plugins /\ plugins'[InstancerOf(o)] = plugins[InstancerOf(o)]
      BY <1>3, <1>4, <1>5, <1>6, <1>11, <2>1
    <3> QED BY <1>1, <1>8, <1>9, <3>1, MaskStep DEF LinkInv, NoneOuter
  <2>2. CASE items # <<>> /\ o = q
    <3>1. Outer(Caller)
      BY <1>1, <1>2, <1>11, <2>2 DEF Outer
    <3>2. ctx = <<>> /\ ToCache(Tail(work), o)
      BY <1>1, <1>2, <2>2, <3>1, OuterCaller DEF LinkInv
    <3>3. g0 = o
      BY <1>2, <2>2, <3>2 DEF Generator
    <3>4. Wrappers(o)' = wrappers
      <4>1. plugins'[InstancerOf(o)].items = items
        BY <1>6, <2>2 DEF Of
      <4>2. Wrappers(o)' = {Wrapper(g) : g \in {h \in Range(plugins'[InstancerOf(o)].items) : h.kind # "Node"}}
        BY DEF Wrappers, Wrapper, InstancerOf, Plugin
      <4> QED BY <1>2, <4>1, <4>2 DEF Wrapper
    <3>5. o \in DOMAIN nodes
      BY DEF LinkInv, StoredInv, Objects
    <3> QED BY <1>7, <1>9, <2>2, <3>2, <3>3, <3>4, <3>5
  <2> QED BY <2>1, <2>2
<1>12. MaskInv'
  BY <1>11 DEF MaskInv, ToCache, InstancerOf, Plugin, Geometry, Targets, Details
<1>13. WrapperInv'
  <2>1. \A n \in DOMAIN plugins' : n.kind = "Node" => n \in DOMAIN plugins \/ n \in wrappers
    BY <1>3, <1>5, <1>6
  <2>2. \A n \in DOMAIN plugins' : n.kind = "Node" /\ n.key # {} => \E g : g.kind # "Node" /\ n = Wrapper(g)
    BY <1>4, <2>1 DEF LinkInv, WrapperInv
  <2> QED BY <2>2 DEF WrapperInv, Wrapper, Plugin
<1>14. LinkerInv' /\ EmptyInv'
  BY <1>1 DEF LinkerInv, EmptyInv
<1> QED BY <1>8, <1>10, <1>12, <1>13, <1>14 DEF LinkInv

LEMMA NodeLinks == IprInv /\ LinkInv /\ phase = "scene" /\ ExportNode => LinkInv'
<1> SUFFICES ASSUME IprInv, LinkInv, phase = "scene", ExportNode PROVE LinkInv'
  OBVIOUS
<1>1. /\ work # <<>> /\ Caller.do = "node" /\ Goto(<<>>)
      /\ UNCHANGED <<phase, opCache, nodes, lightLists>>
  BY DEF ExportNode, Calls, Caller, scene, caches
<1>2. PICK node : node = NodeOf(Caller.obj)
  OBVIOUS
<1>3. node.kind = "Node" /\ node.key = {} /\ node # NoPlugin
  BY <1>2 DEF NodeOf, NoPlugin, Plugin
<1>4. \/ mode = "noninstancer" /\ plugins' = plugins
      \/ result' = node /\ \E value : plugins' = Put(plugins, node, value)
  BY <1>2 DEF ExportNode
<1>5. /\ \A n \in DOMAIN plugins' : n \in DOMAIN plugins \/ n = node
      /\ \A n \in DOMAIN plugins : n # node => n \in DOMAIN plugins' /\ plugins'[n] = plugins[n]
  BY <1>4 DEF Put
<1>6. StoredInv' /\ Grown
  BY <1>1, SameStore DEF LinkInv
<1>7. IsSeq(work) /\ NoneOuter(<<>>)
  BY <1>1, IprFacts, FewNotOuter
<1>8. \A o : InstancerOf(o) # node
  BY <1>3 DEF InstancerOf, Plugin
<1>9. OuterInv'
  <2>1. Outer(Caller) => result' # NoPlugin
    <3> SUFFICES ASSUME Outer(Caller) PROVE result' # NoPlugin
      OBVIOUS
    <3>1. mode = "full"
      BY <1>1, OuterCaller DEF LinkInv
    <3> QED BY <1>3, <1>4, <3>1
  <2>2. \A o \in Geometry \ Targets : InstancerOf(o) \in DOMAIN plugins' => InstancerOf(o) \in DOMAIN plugins
    BY <1>5, <1>8
  <2> QED BY <1>1, <1>7, <2>1, <2>2, OuterStep DEF LinkInv, NoneOuter
<1>10. ASSUME NEW o \in Geometry \ Targets, InstancerOf(o) \in DOMAIN plugins'
       PROVE  Wrappers(o)' \subseteq nodes'[o] /\ (Linked(o)' \/ ToCache(work', o))
  <2>1. InstancerOf(o) \in DOMAIN plugins /\ plugins'[InstancerOf(o)] = plugins[InstancerOf(o)]
    BY <1>5, <1>8, <1>10
  <2> QED BY <1>1, <1>6, <1>7, <2>1, MaskStep DEF LinkInv, NoneOuter
<1>11. MaskInv'
  BY <1>10 DEF MaskInv, ToCache, InstancerOf, Plugin, Geometry, Targets, Details
<1>12. WrapperInv'
  BY <1>3, <1>5 DEF LinkInv, WrapperInv, Wrapper, Plugin
<1>13. LinkerInv' /\ EmptyInv'
  BY <1>1 DEF LinkerInv, EmptyInv
<1> QED BY <1>6, <1>9, <1>11, <1>12, <1>13 DEF LinkInv

LEMMA SetToSeqIsAll ==
  ASSUME NEW S, IsFiniteSet(S)
  PROVE  Range(SetToSeq(S)) = S
<1>1. PICK n, f : n = Cardinality(S) /\ f = SetToSeq(S)
  OBVIOUS
<1>2. n \in Nat /\ \E g \in [1 .. n -> S] : IsInjective(g)
  BY <1>1, FS_CardinalityType DEF ExistsBijection, Bijection, Injection, IsInjective
<1>3. f \in [1 .. n -> S] /\ IsInjective(f)
  BY <1>1, <1>2 DEF SetToSeq
<1>4. f \in Injection(1 .. n, S)
  BY <1>3 DEF Injection, IsInjective
<1>5. Cardinality(1 .. n) = n
  BY <1>2, FS_Interval
<1>6. f \in Surjection(1 .. n, S)
  BY <1>1, <1>4, <1>5, FS_Injection
<1> QED BY <1>1, <1>3, <1>6 DEF Surjection, Range

LEMMA LinkerLinks == IprInv /\ LinkInv /\ phase = "scene" /\ ExportLightLinker => LinkInv'
<1> SUFFICES ASSUME IprInv, LinkInv, phase = "scene", ExportLightLinker PROVE LinkInv'
  OBVIOUS
<1>1. PICK used, entries : /\ used = {k \in Lights : lightLists[k].include # {}}
                           /\ entries = {lightLists[l] : l \in used}
  OBVIOUS
<1>2. /\ work # <<>> /\ Caller.do = "linker" /\ Goto(<<>>) /\ phase' = "live"
      /\ UNCHANGED <<opCache, nodes, lightLists>>
      /\ plugins' = Put(plugins, LightLinker, Of(SetToSeq(entries)))
  BY <1>1 DEF ExportLightLinker, Calls, Caller, caches
<1>3. work' = <<>>
  BY LinkerDone
<1>4. LightLinker.kind = "SettingsLightLinker"
  BY DEF LightLinker, Plugin
<1>5. Calm
  BY <1>2, <1>4, PutIsCalm
<1>6. StoredInv' /\ Grown
  BY <1>2, SameStore DEF LinkInv
<1>7. WrapperInv'
  BY <1>5 DEF LinkInv, WrapperInv, Calm, Wrapper, Plugin
<1>8. OuterInv'
  <2>1. 1 .. Len(work') = {}
    BY <1>3
  <2> QED BY <2>1 DEF OuterInv, OuterCalls
<1>9. ASSUME NEW o \in Geometry \ Targets, InstancerOf(o) \in DOMAIN plugins'
      PROVE  Wrappers(o)' \subseteq nodes'[o] /\ (Linked(o)' \/ ToCache(work', o))
  <2>1. InstancerOf(o).kind = "Instancer2"
    BY DEF InstancerOf, Plugin
  <2>2. InstancerOf(o) \in DOMAIN plugins /\ plugins'[InstancerOf(o)] = plugins[InstancerOf(o)]
    BY <1>5, <1>9, <2>1 DEF Calm
  <2>3. IsSeq(work) /\ NoneOuter(<<>>)
    BY <1>2, IprFacts, FewNotOuter
  <2> QED BY <1>2, <1>6, <2>2, <2>3, MaskStep DEF LinkInv, NoneOuter
<1>10. MaskInv'
  BY <1>9 DEF MaskInv, ToCache, InstancerOf, Plugin, Geometry, Targets, Details
<1>11. IsFiniteSet(entries)
  <2>1. IsFiniteSet(used)
    BY <1>1, SceneAssumption, FS_Subset
  <2>2. PICK f : f = [l \in used |-> lightLists[l]]
    OBVIOUS
  <2>3. f \in Surjection(used, entries)
    BY <1>1, <2>2 DEF Surjection
  <2> QED BY <2>1, <2>3, FS_Surjection
<1>12. plugins'[LightLinker].items = SetToSeq(entries)
  BY <1>2 DEF Put, Of
<1>13. Range(plugins'[LightLinker].items) = {lightLists'[l] : l \in {k \in Lights : lightLists'[k].include # {}}}
  BY <1>1, <1>2, <1>11, <1>12, SetToSeqIsAll
<1>14. LinkerInv' /\ EmptyInv'
  BY <1>2, <1>3, <1>13 DEF LinkerInv, EmptyInv, LightLinker, Plugin
<1> QED BY <1>6, <1>7, <1>8, <1>10, <1>14 DEF LinkInv

\* The calls of exportScene(): one for each object of the bundle.
LEMMA SceneIsOuter ==
  ASSUME NEW w, w = Append(ObjectCalls(Bundle \o SetToSeq(Lights)), Call("linker", None, None, 0))
  PROVE  OuterCalls(w) /\ \A k \in 1 .. Len(w) : w[k].do \in {"object", "linker"}
<1>1. PICK objs, more, calls0, linker, m :
        /\ more = SetToSeq(Lights) /\ m = Len(Bundle)
        /\ objs = Bundle \o more /\ calls0 = ObjectCalls(objs)
        /\ linker = Call("linker", None, None, 0) /\ w = Append(calls0, linker)
  OBVIOUS
<1>2. /\ Bundle \in Seq(Objects) /\ more \in Seq(Objects) /\ Range(more) \subseteq Lights
      /\ \A k \in 1 .. m : Bundle[k] \in Geometry
      /\ m \in Nat /\ Len(more) \in Nat /\ \A k \in 1 .. Len(more) : more[k] \in Lights
  <2>1. Bundle \in Seq(Objects) /\ more \in Seq(Lights) /\ Range(more) \subseteq Lights
    BY <1>1, SceneAssumption, SetToSeqIsSeq DEF Objects, Geometry
  <2>2. Bundle \in Seq(Geometry)
    BY SceneAssumption DEF Geometry
  <2> QED BY <1>1, <2>1, <2>2 DEF Objects
<1>3. /\ objs \in Seq(Objects) /\ Len(objs) = m + Len(more)
      /\ \A k \in 1 .. Len(objs) : IF k \in 1 .. m THEN objs[k] = Bundle[k] ELSE objs[k] \in Lights
  <2>1. objs \in Seq(Objects) /\ Len(objs) = m + Len(more)
    BY <1>1, <1>2
  <2>2. ASSUME NEW k \in 1 .. Len(objs)
        PROVE  IF k \in 1 .. m THEN objs[k] = Bundle[k] ELSE objs[k] \in Lights
    <3>1. CASE k \in 1 .. m
      BY <1>1, <1>2, <3>1
    <3>2. CASE k \notin 1 .. m
      <4>1. k - m \in 1 .. Len(more) /\ objs[k] = more[k - m]
        BY <1>1, <1>2, <2>1, <2>2, <3>2
      <4> QED BY <1>2, <3>2, <4>1
    <3> QED BY <3>1, <3>2
  <2> QED BY <2>1, <2>2
<1>4. PICK S : S = {Call("object", o, None, 0) : o \in Objects} \cup {linker}
  OBVIOUS
<1>5. /\ calls0 \in Seq(S) /\ Len(calls0) = Len(objs) /\ Len(objs) \in Nat
      /\ \A k \in 1 .. Len(objs) : calls0[k] = Call("object", objs[k], None, 0)
  <2>1. calls0 = [i \in 1 .. Len(objs) |-> Call("object", objs[i], None, 0)] /\ Len(objs) \in Nat
    BY <1>1, <1>3 DEF ObjectCalls
  <2>2. \A i \in 1 .. Len(objs) : Call("object", objs[i], None, 0) \in S
    BY <1>3, <1>4
  <2> QED BY <2>1, <2>2
<1>6. /\ w \in Seq(S) /\ Len(w) = Len(objs) + 1 /\ w[Len(objs) + 1] = linker
      /\ \A k \in 1 .. Len(objs) : w[k] = calls0[k]
  <2>1. linker \in S
    BY <1>4
  <2> QED BY <1>1, <1>5, <2>1
<1>7. ASSUME NEW k \in 1 .. Len(w)
      PROVE  \/ w[k].do = "object" /\ k \in 1 .. Len(objs) /\ w[k].obj = objs[k]
             \/ w[k].do = "linker"
  <2>1. CASE k \in 1 .. Len(objs)
    BY <1>5, <1>6, <2>1, CallFields
  <2>2. CASE k \notin 1 .. Len(objs)
    <3>1. k = Len(objs) + 1
      BY <1>5, <1>6, <2>2
    <3> QED BY <1>1, <1>6, <3>1, CallFields
  <2> QED BY <2>1, <2>2
<1>8. ASSUME NEW k \in 1 .. Len(w), Outer(w[k])
      PROVE  k \in 1 .. m /\ w[k].obj = Bundle[k] /\ w[k].do = "object"
  <2>1. w[k].do = "object" /\ k \in 1 .. Len(objs) /\ w[k].obj = objs[k] /\ objs[k] \in Geometry
    BY <1>7, <1>8 DEF Outer
  <2> QED BY <1>3, <2>1, SceneAssumption
<1>9. \A i, j \in 1 .. m : Bundle[i] = Bundle[j] => i = j
  <2>1. DOMAIN Bundle = 1 .. m
    BY <1>1, <1>2
  <2> QED BY <2>1, SceneAssumption DEF IsInjective
<1>10. \A k \in 1 .. Len(w) : w[k].do \in {"object", "linker"}
  BY <1>7
<1>11. OuterCalls(w)
  <2> SUFFICES ASSUME NEW i \in 1 .. Len(w), Outer(w[i])
               PROVE  /\ \A j \in i .. Len(w) : w[j].do \notin Deep
                      /\ \A j \in 1 .. Len(w) : j # i /\ Outer(w[j]) /\ w[j].obj = w[i].obj =>
                           w[j].do # "object" /\ w[j].do # w[i].do
                      /\ i > 1 /\ w[i].do \in {"node", "cache"} => Before(w[i - 1], w[i])
    BY DEF OuterCalls
  <2>1. \A j \in i .. Len(w) : j \in 1 .. Len(w)
    BY <1>5, <1>6
  <2>2. \A j \in i .. Len(w) : w[j].do \notin Deep
    BY <1>10, <2>1 DEF Deep
  <2>3. ASSUME NEW j \in 1 .. Len(w), j # i, Outer(w[j]), w[j].obj = w[i].obj PROVE FALSE
    BY <1>8, <1>9, <2>3
  <2> QED BY <1>10, <2>2, <2>3
<1> QED BY <1>10, <1>11

LEMMA SceneLinks == IprInv /\ LinkInv /\ ExportScene => LinkInv'
<1> SUFFICES ASSUME IprInv, LinkInv, ExportScene PROVE LinkInv'
  OBVIOUS
<1>1. /\ phase = "new" /\ phase' = "scene"
      /\ work' = Append(ObjectCalls(Bundle \o SetToSeq(Lights)), Call("linker", None, None, 0))
      /\ UNCHANGED <<plugins, opCache, nodes, lightLists>>
  BY DEF ExportScene, caches
<1>2. DOMAIN plugins' = {} /\ opCache' = {}
  BY <1>1 DEF LinkInv, EmptyInv
<1>3. OuterCalls(work') /\ \A k \in 1 .. Len(work') : work'[k].do \in {"object", "linker"}
  BY <1>1, SceneIsOuter
<1>4. OuterInv'
  <2>1. OuterCalls(work)'
    BY <1>3 DEF OuterCalls, Outer, Geometry, Targets, Details
  <2> QED BY <1>2, <1>3, <2>1 DEF OuterInv, Outer, Geometry, Targets, Details
<1>5. StoredInv'
  BY <1>1, SameStore DEF LinkInv
<1>6. WrapperInv' /\ MaskInv' /\ LinkerInv' /\ EmptyInv'
  BY <1>1, <1>2 DEF WrapperInv, MaskInv, LinkerInv, EmptyInv
<1> QED BY <1>4, <1>5, <1>6 DEF LinkInv

LEMMA ExportLinks ==
  ASSUME IprInv, LinkInv, ExportStep
  PROVE  LinkInv' /\ UNCHANGED <<edits, pending>>
<1>1. work # <<>> /\ ~RestoreGeometry
  BY StackStep DEF IprInv, CallsInv, ModesInv
<1>2. phase = "scene"
  BY <1>1, IprFacts DEF LinkInv, LinkerInv
<1>3. UNCHANGED <<edits, pending>>
  BY <1>1 DEF ExportStep, ExportLight, ExportNothing, ExportCached, ExportNew, ModeFull, CacheNode,
     ExportGeometry, Pop, ExportPoint, PointEnd, ExportDetail, SkipMeshPrim, ExportVolume, ExportPrim,
     ExportVRayScene, ExportPacked, ExportMeshes, ExportInstancer, ExportNode, ExportLightLinker, scene
<1>4. LinkInv'
  BY <1>1, <1>2, LightLinks, InnerLinks, OuterLinks, PointLinks, PlainLinks, ShapeLinks, CacheLinks,
     InstancerLinks, NodeLinks, LinkerLinks DEF ExportStep
<1> QED BY <1>3, <1>4

\* Until the first edit.
FirstInv == edits \in Nat /\ (edits = 0 => IprInv /\ pending = {} /\ LinkInv)

LEMMA FirstInit == Init => FirstInv
<1> SUFFICES ASSUME Init PROVE FirstInv
  OBVIOUS
<1>1. /\ phase = "new" /\ pending = {} /\ edits = 0 /\ work = <<>> /\ DOMAIN plugins = {} /\ opCache = {}
      /\ nodes = NoNodes /\ lightLists = NoLists
  BY DEF Init
<1>2. StoredInv
  BY <1>1 DEF StoredInv, NoNodes, NoLists
<1>3. OuterInv
  <2>1. 1 .. Len(<<>>) = {}
    OBVIOUS
  <2> QED BY <1>1, <2>1 DEF OuterInv, OuterCalls
<1>4. LinkInv
  BY <1>1, <1>2, <1>3 DEF LinkInv, WrapperInv, MaskInv, LinkerInv, EmptyInv
<1> QED BY <1>1, <1>4, StartIsIpr DEF FirstInv

LEMMA FirstStep == FirstInv /\ [Next]_vars => FirstInv'
<1> SUFFICES ASSUME FirstInv, [Next]_vars PROVE FirstInv'
  OBVIOUS
<1>1. CASE User
  <2>1. edits' = edits + 1
    BY <1>1 DEF User, EditGeometry, EditObject, DeleteObject
  <2>2. edits' \in Nat /\ edits' # 0
    BY <2>1 DEF FirstInv
  <2> QED BY <2>2 DEF FirstInv
<1>2. CASE Events
  <2>1. edits' = edits /\ pending # {}
    BY <1>2 DEF Events, IprUpdate, RtObjectChanged, RtLightChanged, RtGeometryChanged, Deliver
  <2> QED BY <2>1 DEF FirstInv
<1>3. CASE ExportScene
  <2>1. UNCHANGED <<edits, pending>>
    BY <1>3 DEF ExportScene
  <2> QED BY <1>3, <2>1, SceneKeeps, SceneLinks DEF FirstInv
<1>4. CASE ExportStep
  <2>1. edits = 0 => IprInv' /\ LinkInv' /\ UNCHANGED <<edits, pending>>
    BY <1>4, ExportKeeps, ExportLinks DEF FirstInv
  <2>2. edits' = edits
    BY <1>4 DEF ExportStep, ExportLight, ExportNothing, ExportCached, ExportNew, ModeFull, CacheNode, ExportGeometry,
       Pop, ExportPoint, PointEnd, ExportDetail, SkipMeshPrim, ExportVolume, ExportPrim,
       ExportVRayScene, ExportPacked, ExportMeshes, ExportInstancer, ExportNode, ExportLightLinker,
       RestoreGeometry, scene
  <2> QED BY <2>1, <2>2 DEF FirstInv
<1>5. CASE UNCHANGED vars
  <2>1. UNCHANGED <<edits, phase, pending, work, result, plugins, opCache, nodes, lightLists>>
    BY <1>5 DEF vars, scene, caches
  <2>2. LinkInv => LinkInv'
    <3> SUFFICES ASSUME LinkInv PROVE LinkInv'
      OBVIOUS
    <3>1. OuterInv'
      BY <2>1 DEF LinkInv, OuterInv, OuterCalls, Outer, Geometry, Targets, Details, InstancerOf, Plugin, NoPlugin
    <3>2. StoredInv'
      BY <2>1, SameStore DEF LinkInv
    <3>3. MaskInv'
      BY <2>1 DEF LinkInv, MaskInv, Linked, ToCache, Wrappers, Wrapper, InstancerOf, Plugin, Geometry,
                  Targets, Details
    <3>4. WrapperInv' /\ LinkerInv' /\ EmptyInv'
      BY <2>1 DEF LinkInv, WrapperInv, LinkerInv, EmptyInv, Wrapper, Plugin, LightLinker
    <3> QED BY <3>1, <3>2, <3>3, <3>4 DEF LinkInv
  <2> QED BY <1>5, <2>1, <2>2, StutterKeeps DEF FirstInv
<1> QED BY <1>1, <1>2, <1>3, <1>4, <1>5 DEF Next

\* The scene's light linker includes all that an object with a light mask shows, unless
\* an instancer leads to the object: exportDetailInstancer() has stored the wrappers
\* under the object itself when the end of its export puts them into the lists of its
\* lights, which only grow until the linker is exported.
THEOREM MaskedAreLinked == Spec => []MaskedObjectsLinked
<1>1. FirstInv => MaskedObjectsLinked
  <2> SUFFICES ASSUME FirstInv, Live, edits = 0, NEW o \in Geometry \ Targets, NEW l \in LightMask[o],
                      InstancerOf(o) \in DOMAIN plugins, WrappedOf(o) # {}
               PROVE  \E entry \in Range(plugins[LightLinker].items) :
                        /\ WrappedOf(o) \subseteq entry.include
                        /\ \A n \in entry.lights : n.obj = l
    BY DEF MaskedObjectsLinked
  <2>1. LinkInv /\ phase = "live" /\ work = <<>>
    BY DEF FirstInv, Live, Idle
  <2>2. WrappedOf(o) \subseteq Wrappers(o)
    <3> SUFFICES ASSUME NEW n \in WrappedOf(o) PROVE n \in Wrappers(o)
      OBVIOUS
    <3>1. PICK g : g.kind # "Node" /\ n = Wrapper(g) /\ n.key \subseteq Range(plugins[InstancerOf(o)].items)
      BY <2>1 DEF WrappedOf, LinkInv, WrapperInv
    <3>2. g \in Range(plugins[InstancerOf(o)].items)
      BY <3>1 DEF Wrapper, Plugin
    <3> QED BY <3>1, <3>2 DEF Wrappers
  <2>3. ~ToCache(work, o)
    <3>1. 1 .. Len(<<>>) = {}
      OBVIOUS
    <3> QED BY <2>1, <3>1 DEF ToCache
  <2>4. Wrappers(o) # {} /\ Linked(o)
    BY <2>1, <2>2, <2>3 DEF LinkInv, MaskInv
  <2>5. l \in Lights /\ Wrappers(o) \subseteq lightLists[l].include
    BY <2>4, SceneAssumption DEF Linked
  <2>6. lightLists[l].include # {}
    BY <2>4, <2>5
  <2>7. lightLists[l] \in Range(plugins[LightLinker].items)
    BY <2>1, <2>5, <2>6 DEF LinkInv, LinkerInv
  <2>8. \A n \in lightLists[l].lights : n.obj = l
    BY <2>1, <2>5 DEF LinkInv, StoredInv
  <2> QED BY <2>2, <2>5, <2>7, <2>8
<1> QED BY <1>1, FirstInit, FirstStep, PTL DEF Spec
=============================================================================
