---------------------------- MODULE ExportProofs ----------------------------
(***************************************************************************)
(* What the exporters of packed primitives, proxies, overrides, shaders    *)
(* and the view guarantee (the systems of Tools), for any files, networks  *)
(* and edits, any number of them.  And the registry that the renderers     *)
(* they export to come from (VRayInstances), for any number of modules,    *)
(* any addresses and any size of the table.                                *)
(***************************************************************************)
EXTENDS VRayInstances, Tools, Sequences, NaturalsInduction, WellFoundedInduction, FiniteSetTheorems, TLAPS

-----------------------------------------------------------------------------
(* Natural numbers. *)

LEMMA LeastNumber ==
  ASSUME NEW S, S \subseteq Nat, S # {}
  PROVE  \E x \in S : \A y \in S : x <= y
<1> DEFINE R == {pair \in Nat \X Nat : pair[1] < pair[2]}
<1>1. IsWellFoundedOn(R, Nat)
  BY NatLessThanWellFounded DEF OpToRel
<1>2. PICK x \in S : \A y \in S : <<y, x>> \notin R
  BY <1>1, WFMin
<1>3. \A y \in S : ~(y < x)
  BY <1>2
<1> QED BY <1>3

\* Induction, on the set of numbers that a statement is true of.
LEMMA Induction ==
  ASSUME NEW S, 0 \in S, \A n \in Nat : n \in S => n + 1 \in S
  PROVE  Nat \subseteq S
<1> SUFFICES ASSUME Nat \ S # {} PROVE FALSE
  OBVIOUS
<1>1. PICK x \in Nat \ S : \A y \in Nat \ S : x <= y
  <2>1. Nat \ S \subseteq Nat
    OBVIOUS
  <2> QED BY <2>1, LeastNumber
<1>2. x # 0 /\ x - 1 \in Nat
  BY <1>1
<1>3. x - 1 \in S
  BY <1>1, <1>2
<1> QED BY <1>1, <1>2, <1>3

-----------------------------------------------------------------------------
(* Each system of Tools takes its own steps alone. *)

LEMMA ShadingAlone ==
  [AllNext]_allVars /\ which = "Shading" => which' = which /\ [Shading!Next]_(Shading!vars)
BY DEF AllNext, allVars, ShadingVars, Shading!vars, Shading!graph
LEMMA ViewAlone ==
  [AllNext]_allVars /\ which = "View" => which' = which /\ [View!Next]_(View!viewVars)
BY DEF AllNext, allVars, ViewVars, View!viewVars, View!fixed, View!renderer, View!history
LEMMA PreviewAlone ==
  [AllNext]_allVars /\ which = "Preview" => which' = which /\ [Preview!Next]_(Preview!previewVars)
BY DEF AllNext, allVars, PreviewVars, Preview!previewVars
LEMMA OverrideAlone ==
  [AllNext]_allVars /\ which = "Override" => which' = which /\ [Override!Next]_(Override!overrideVars)
BY DEF AllNext, allVars, OverrideVars, Override!overrideVars
LEMMA ProxyAlone ==
  [AllNext]_allVars /\ which = "Proxy" => which' = which /\ [Proxy!Next]_(Proxy!proxyVars)
BY DEF AllNext, allVars, ProxyVars, Proxy!proxyVars

-----------------------------------------------------------------------------
(* Packed primitives (PreviewCache). *)

\* A cached detail is what the options of its key ask for, and a primitive shows
\* the detail that is cached under the key of its options.
FacesOf(o) == IF previewKind = "proxy" THEN Preview!ProxyFaces(o) ELSE Preview!SceneFaces(o)
IsDetailOf(d, o) == d.file = o.file /\ Preview!SameFrame(d, o) /\ d.faces = FacesOf(o)
PreviewTypes ==
  /\ previewKind \in {"proxy", "scene"}
  /\ DOMAIN detail = DOMAIN options
  /\ \A p \in DOMAIN options : options[p] \in PreviewOptions
CacheInv ==
  \A k \in DOMAIN cache : \A o \in PreviewOptions :
    (k = Preview!Key(o) /\ cache[k] # Preview!NoDetail) => IsDetailOf(cache[k][1], o)
ShownInv ==
  \A p \in DOMAIN options : detail[p] # Preview!NoDetail =>
    /\ Preview!Key(options[p]) \in DOMAIN cache
    /\ detail[p] = cache[Preview!Key(options[p])]
PreviewInv == PreviewTypes /\ CacheInv /\ ShownInv

LEMMA PreviewInit == Preview!Init => PreviewInv
BY DEF Preview!Init, PreviewInv, PreviewTypes, CacheInv, ShownInv

LEMMA TenthsDown ==
  ASSUME NEW a \in Int, NEW b \in Int, a \div 10 = b \div 10
  PROVE  a - b \in -9 .. 9
OBVIOUS
LEMMA TenthsUp ==
  ASSUME NEW a \in Int, NEW b \in Int, -((-a) \div 10) = -((-b) \div 10)
  PROVE  a - b \in -9 .. 9
OBVIOUS

\* The keys of two options are the same only if they ask for the same object and
\* level of the same file, less than a thousandth of a frame apart.
LEMMA KeysTellApart ==
  ASSUME NEW o \in PreviewOptions, NEW q \in PreviewOptions, Preview!Key(o) = Preview!Key(q)
  PROVE  /\ o.file = q.file /\ o.object = q.object /\ o.lod = q.lod
         /\ o.frame - q.frame \in -9 .. 9
<1>1. o.frame \in Int /\ q.frame \in Int
  BY Assumptions DEF Assumptions, Preview!OptionsAssumption
<1>2. CASE previewKind = "proxy"
  <2>1. /\ o.file = q.file /\ o.object = q.object /\ o.lod = q.lod
        /\ o.frame \div 10 = q.frame \div 10
    BY <1>2 DEF Preview!Key, Preview!ProxyKey
  <2> QED BY <1>1, <2>1, TenthsDown
<1>3. CASE previewKind # "proxy"
  <2>1. /\ o.file = q.file /\ o.object = q.object /\ o.lod = q.lod
        /\ -((-o.frame) \div 10) = -((-q.frame) \div 10)
    BY <1>3 DEF Preview!Key, Preview!SceneKey
  <2> QED BY <1>1, <2>1, TenthsUp
<1> QED BY <1>2, <1>3

LEMMA SameFaces ==
  ASSUME NEW o, NEW q, o.file = q.file, o.object = q.object, o.lod = q.lod
  PROVE  FacesOf(o) = FacesOf(q)
BY DEF FacesOf, Preview!ProxyFaces, Preview!SceneFaces

LEMMA PreviewUpdate ==
  ASSUME PreviewInv, NEW p \in PreviewPrims, NEW o \in PreviewOptions, Preview!Update(p, o)
  PROVE  PreviewInv'
<1> DEFINE key == Preview!Key(o)
<1> DEFINE shown == Preview!GetDetail(o)
<1>1. /\ options' = [r \in DOMAIN options \cup {p} |-> IF r = p THEN o ELSE options[r]]
      /\ detail' = [r \in DOMAIN detail \cup {p} |-> IF r = p THEN shown ELSE detail[r]]
      /\ cache' = [k \in DOMAIN cache \cup {key} |-> IF k = key THEN shown ELSE cache[k]]
      /\ previewKind' = previewKind
  BY DEF Preview!Update, Preview!With, Preview!Store, Preview!Present
<1>2. \A q \in PreviewOptions : Preview!Key(q)' = Preview!Key(q) /\ FacesOf(q)' = FacesOf(q)
  BY <1>1 DEF Preview!Key, Preview!ProxyKey, Preview!SceneKey, FacesOf, Preview!ProxyFaces,
     Preview!SceneFaces
<1>3. PreviewTypes'
  BY <1>1 DEF PreviewInv, PreviewTypes
<1>4. \A q \in PreviewOptions :
        (key = Preview!Key(q) /\ shown # Preview!NoDetail) => IsDetailOf(shown[1], q)
  <2> SUFFICES ASSUME NEW q \in PreviewOptions, key = Preview!Key(q), shown # Preview!NoDetail
               PROVE  IsDetailOf(shown[1], q)
    OBVIOUS
  <2>1. CASE Preview!Cached(o)
    BY <2>1 DEF Preview!GetDetail, Preview!Cached, PreviewInv, CacheInv
  <2>2. CASE ~Preview!Cached(o)
    <3>1. shown = Preview!Build(o)
      BY <2>2 DEF Preview!GetDetail
    <3>2. shown[1].file = o.file /\ shown[1].frame = o.frame /\ shown[1].faces = FacesOf(o)
      BY <3>1 DEF Preview!Build, Preview!NoDetail, FacesOf
    <3> QED BY <3>2, KeysTellApart, SameFaces DEF IsDetailOf, Preview!SameFrame
  <2> QED BY <2>1, <2>2
<1>5. CacheInv'
  BY <1>1, <1>2, <1>4 DEF PreviewInv, CacheInv, IsDetailOf, Preview!SameFrame, Preview!NoDetail
<1>6. \A k \in DOMAIN cache : cache[k] # Preview!NoDetail => cache'[k] = cache[k]
  BY <1>1 DEF Preview!GetDetail, Preview!Cached
<1>7. ShownInv'
  BY <1>1, <1>2, <1>6 DEF PreviewInv, PreviewTypes, ShownInv, Preview!NoDetail
<1> QED BY <1>3, <1>5, <1>7 DEF PreviewInv

LEMMA PreviewCopy ==
  ASSUME PreviewInv, NEW p \in PreviewPrims, NEW q \in PreviewPrims, Preview!Copy(p, q)
  PROVE  PreviewInv'
<1>1. /\ options' = [r \in DOMAIN options \cup {q} |-> IF r = q THEN options[p] ELSE options[r]]
      /\ detail' = [r \in DOMAIN detail \cup {q} |-> IF r = q THEN detail[p] ELSE detail[r]]
      /\ p \in DOMAIN options /\ cache' = cache /\ previewKind' = previewKind
  BY DEF Preview!Copy, Preview!With, Preview!Present
<1>2. \A o \in PreviewOptions : Preview!Key(o)' = Preview!Key(o) /\ FacesOf(o)' = FacesOf(o)
  BY <1>1 DEF Preview!Key, Preview!ProxyKey, Preview!SceneKey, FacesOf, Preview!ProxyFaces,
     Preview!SceneFaces
<1>3. PreviewTypes'
  BY <1>1 DEF PreviewInv, PreviewTypes
<1>4. CacheInv'
  BY <1>1, <1>2 DEF PreviewInv, CacheInv, IsDetailOf, Preview!SameFrame, Preview!NoDetail
<1>5. ShownInv'
  BY <1>1, <1>2 DEF PreviewInv, PreviewTypes, ShownInv, Preview!NoDetail
<1> QED BY <1>3, <1>4, <1>5 DEF PreviewInv

\* A change of a file, or a step of another system, leaves what is shown as it is.
LEMMA PreviewKeep ==
  ASSUME PreviewInv, UNCHANGED <<previewKind, options, detail, cache>>
  PROVE  PreviewInv'
<1>1. \A o \in PreviewOptions : Preview!Key(o)' = Preview!Key(o) /\ FacesOf(o)' = FacesOf(o)
  BY DEF Preview!Key, Preview!ProxyKey, Preview!SceneKey, FacesOf, Preview!ProxyFaces,
     Preview!SceneFaces
<1>2. PreviewTypes'
  BY DEF PreviewInv, PreviewTypes
<1>3. CacheInv'
  BY <1>1 DEF PreviewInv, CacheInv, IsDetailOf, Preview!SameFrame, Preview!NoDetail
<1>4. ShownInv'
  BY <1>1 DEF PreviewInv, PreviewTypes, ShownInv, Preview!NoDetail
<1> QED BY <1>2, <1>3, <1>4 DEF PreviewInv

LEMMA PreviewStep == PreviewInv /\ [Preview!Next]_(Preview!previewVars) => PreviewInv'
<1> SUFFICES ASSUME PreviewInv, [Preview!Next]_(Preview!previewVars) PROVE PreviewInv'
  OBVIOUS
<1>1. ASSUME NEW f \in DOMAIN PreviewFiles, Preview!FileChanges(f) PROVE PreviewInv'
  BY <1>1, PreviewKeep DEF Preview!FileChanges
<1>2. CASE UNCHANGED Preview!previewVars
  BY <1>2, PreviewKeep DEF Preview!previewVars
<1> QED BY <1>1, <1>2, PreviewUpdate, PreviewCopy DEF Preview!Next

\* What the invariant says of a primitive.
LEMMA ShownIsOwn ==
  ASSUME PreviewInv, NEW p \in DOMAIN options, detail[p] # Preview!NoDetail
  PROVE  IsDetailOf(detail[p][1], options[p])
BY DEF PreviewInv, PreviewTypes, CacheInv, ShownInv

LEMMA FacesOfObject ==
  ASSUME NEW o, o.object # Preview!AnyObject,
         previewKind = "scene" \/ PreviewFiles[o.file].preview,
         previewKind \in {"proxy", "scene"}
  PROVE  \A face \in FacesOf(o) : face[2] \in {o.object, Preview!AnyObject}
<1>1. CASE previewKind = "scene"
  BY <1>1 DEF FacesOf, Preview!SceneFaces, Preview!Faces
<1>2. CASE previewKind = "proxy"
  BY <1>2 DEF FacesOf, Preview!ProxyFaces, Preview!Faces, Preview!AnyObject
<1> QED BY <1>1, <1>2

LEMMA PreviewOwn == PreviewInv => Preview!DetailIsOwn
<1> SUFFICES ASSUME PreviewInv, NEW p \in DOMAIN options, detail[p] # Preview!NoDetail
             PROVE  LET d == detail[p][1] o == options[p]
                    IN /\ d.file = o.file /\ Preview!SameFrame(d, o) /\ d.faces = FacesOf(o)
                       /\ (/\ o.object # Preview!AnyObject
                           /\ previewKind = "scene" \/ PreviewFiles[o.file].preview) =>
                            \A face \in d.faces : face[2] \in {o.object, Preview!AnyObject}
  BY DEF Preview!DetailIsOwn, Preview!Present, FacesOf
<1>1. previewKind \in {"proxy", "scene"}
  BY DEF PreviewInv, PreviewTypes
<1> QED BY <1>1, ShownIsOwn, FacesOfObject DEF IsDetailOf

LEMMA PreviewEquals == PreviewInv => Preview!EqualsAreInstances
BY DEF PreviewInv, ShownInv, Preview!EqualsAreInstances, Preview!Present

LEMMA PreviewAlways == AllSpec => [](which = "Preview" => PreviewInv)
<1> DEFINE I == which = "Preview" => PreviewInv
<1>1. AllInit => I
  BY PreviewInit DEF AllInit
<1>2. I /\ [AllNext]_allVars => I'
  BY PreviewAlone, PreviewStep DEF AllNext, allVars
<1> QED BY <1>1, <1>2, PTL DEF AllSpec

\* Each packed primitive shows what its own options ask for, whatever was cached for
\* whom and however the files changed.
THEOREM DetailsAreOwn == AllSpec => []DetailIsOwn
<1>1. (which = "Preview" => PreviewInv) => DetailIsOwn
  BY PreviewOwn DEF DetailIsOwn
<1> QED BY <1>1, PreviewAlways, PTL

\* Packed primitives that ask for the same show the same detail, so that they can be
\* drawn as instances.
THEOREM EqualDetails == AllSpec => []EqualsAreInstances
<1>1. (which = "Preview" => PreviewInv) => EqualsAreInstances
  BY PreviewEquals DEF EqualsAreInstances
<1> QED BY <1>1, PreviewAlways, PTL

-----------------------------------------------------------------------------
(* The view and the camera (ViewExport). *)

\* The renderer has the plugins of a view v, or what is left of those since the last
\* reset.
Shows(v) ==
  /\ v \in since
  /\ view.RenderView # View!Absent /\ view.RenderView[1].v = v.renderView
  /\ view.SettingsCamera = View!Given(v.settingsCamera)
  /\ v.useCameraPhysical = "none" =>
       /\ view.SettingsMotionBlur = View!Given(v.settingsMotionBlur)
       /\ \E u \in since :
            /\ view.CameraDefault = View!Given(u.renderView.ortho)
            /\ view.SettingsCameraDof = IF u.renderView.ortho = 1 THEN View!Absent
                                       ELSE View!Given(v.settingsCameraDof)
       /\ camera = IF \A u \in since : u.cameraPhysical = v.cameraPhysical
                   THEN "CameraDefault" ELSE "CameraPhysical"
  /\ v.useCameraPhysical # "none" =>
       /\ camera = "CameraPhysical" /\ view.CameraPhysical[1].v = v.cameraPhysical
       /\ \E u \in since : view.CameraPhysical[1].aspect = u.renderSize
  /\ camera \in {"CameraDefault", "CameraPhysical"} /\ view[camera] # View!Absent
  /\ (View!Interactive /\ ~gpu) =>
       \E u \in since : view.VRayStereoscopicSettings =
                         IF View!StereoOn(v) THEN View!Given(u.stereo) ELSE View!Absent
  /\ (View!StereoOn(v) /\ ~gpu) => view.VRayStereoscopicSettings # View!Absent
  /\ (View!StereoOn(v) /\ gpu) => view.RenderView[1].stereo # "off"
  /\ (View!Interactive /\ gpu) => (View!StereoOn(v) <=> view.RenderView[1].stereo # "off")

\* It has the image, the region of a cropped one and the headlight of a view v.
Sized(v) ==
  /\ size = v.renderSize
  /\ light # View!Absent => light = View!Given(v.renderView.tm)
CropShown(v) ==
  /\ v.cropRegion[1] # 0 => region = v.cropRegion
  /\ region \in {View!Absent} \cup regions
  /\ region = View!Absent => \A r \in regions : r[1] = 0

ViewTypes ==
  /\ viewSession \in {"still", "animation", "rt", "ipr"}
  /\ DOMAIN want = DOMAIN View!Choice
  /\ want.width \in {4, 6} /\ want.scale \in {1, 2} /\ want.crop \in {<<0, 2>>, <<1, 2>>}
  /\ DOMAIN view = DOMAIN View!NoPlugins
  /\ light # View!Absent => headlight
ViewInv ==
  /\ ViewTypes
  /\ first => view = View!NoPlugins /\ light = View!Absent /\ ~told
  /\ told => last = View!ViewParams(want)
  /\ ~first => Shows(last) /\ Sized(last)
  /\ CropShown(last)

LEMMA GivenIsPresent == \A x : View!Given(x) # View!Absent /\ View!Given(x)[1] = x
BY DEF View!Given, View!Absent

LEMMA ViewInit == View!Init => ViewInv
<1> SUFFICES ASSUME View!Init PROVE ViewInv
  OBVIOUS
<1>1. viewSession \in {"still", "animation", "rt", "ipr"}
  BY Assumptions DEF Assumptions, View!SessionAssumption, View!Init
<1>2. DOMAIN want = DOMAIN View!Choice
  BY DEF View!Init, View!Choice, View!Default
<1>3. want.width \in {4, 6} /\ want.scale \in {1, 2} /\ want.crop \in {<<0, 2>>, <<1, 2>>}
  BY DEF View!Init, View!Choice, View!Default
<1>4. last.cropRegion[1] = 0 /\ regions = {}
  BY DEF View!Init, View!NoParams, View!ViewParams
<1> QED BY <1>1, <1>2, <1>3, <1>4 DEF View!Init, ViewInv, ViewTypes, CropShown

\* The plugins an export that resets the view makes, of those there were before.
LEMMA ResetShows ==
  ASSUME ViewTypes, UNCHANGED <<viewSession, gpu>>, NEW v, View!ResetView(v),
         first => view = View!NoPlugins,
         since' = {v},
         v.renderView.ortho = 1 => viewSession = "ipr"
  PROVE  Shows(v)' /\ DOMAIN view' = DOMAIN View!NoPlugins
<1> DEFINE before == IF View!Interactive /\ ~first THEN View!NoPlugins ELSE view
<1> DEFINE lens == View!WithCamera(before, v)
<1> DEFINE set == View!WithSettings(lens, v)
<1> HIDE DEF before, lens, set
<1>1. view' = View!WithRenderView(set, v) /\ camera' = View!CameraOf(v)
  BY DEF View!ResetView, before, lens, set
<1>2. DOMAIN before = DOMAIN View!NoPlugins /\ (View!Interactive => before = View!NoPlugins)
  BY DEF before, ViewTypes
<1>3. /\ DOMAIN lens = DOMAIN View!NoPlugins
      /\ lens[View!CameraOf(v)] # View!Absent
      /\ v.useCameraPhysical # "none" =>
           /\ View!CameraOf(v) = "CameraPhysical"
           /\ lens.CameraPhysical[1].v = v.cameraPhysical
           /\ lens.CameraPhysical[1].aspect = v.renderSize
      /\ lens.RenderView = before.RenderView
      /\ lens.VRayStereoscopicSettings = before.VRayStereoscopicSettings
      /\ View!CameraOf(v) \in {"CameraDefault", "CameraPhysical"}
  <2>1. CASE View!CameraOf(v) = "CameraDefault"
    BY <1>2, <2>1, GivenIsPresent
       DEF lens, View!WithCamera, View!CameraOf, View!WithCameraDefault, View!NoPlugins
  <2>2. CASE View!CameraOf(v) # "CameraDefault"
    BY <1>2, <2>2, GivenIsPresent
       DEF lens, View!WithCamera, View!CameraOf, View!WithCameraPhysical, View!NoPlugins
  <2> QED BY <2>1, <2>2
<1>4. v.useCameraPhysical = "none" =>
        /\ View!CameraOf(v) = "CameraDefault"
        /\ lens.SettingsMotionBlur = View!Given(v.settingsMotionBlur)
        /\ lens.CameraDefault = View!Given(v.renderView.ortho)
        /\ lens.SettingsCameraDof = IF v.renderView.ortho = 1 THEN View!Absent
                                   ELSE View!Given(v.settingsCameraDof)
  BY <1>2, GivenIsPresent
     DEF lens, View!WithCamera, View!CameraOf, View!WithCameraDefault, View!NoPlugins,
         View!Interactive
<1>5. /\ DOMAIN set = DOMAIN View!NoPlugins
      /\ set.SettingsCamera = View!Given(v.settingsCamera)
      /\ set.VRayStereoscopicSettings =
           IF View!StereoOn(v) /\ ~gpu THEN View!Given(v.stereo)
           ELSE lens.VRayStereoscopicSettings
      /\ \A name \in DOMAIN set \ {"SettingsCamera", "VRayStereoscopicSettings"} :
           set[name] = lens[name]
  BY <1>3 DEF set, View!WithSettings, View!NoPlugins
<1>6. /\ DOMAIN view' = DOMAIN set
      /\ \A name \in DOMAIN set \ {"RenderView"} : view'[name] = set[name]
      /\ view'.RenderView # View!Absent
      /\ view'.RenderView[1].v = v.renderView
      /\ view'.RenderView[1].stereo =
           IF View!StereoOn(v) /\ gpu THEN v.stereo
           ELSE IF set.RenderView = View!Absent THEN "off" ELSE set.RenderView[1].stereo
  BY <1>1, <1>5, GivenIsPresent DEF View!WithRenderView, View!NoPlugins
<1>7. View!Interactive' = View!Interactive
  BY DEF View!Interactive
<1>8. View!Interactive => before.RenderView = View!Absent /\ before.VRayStereoscopicSettings = View!Absent
  BY <1>2 DEF View!NoPlugins
<1>9. /\ view'.SettingsMotionBlur = lens.SettingsMotionBlur
      /\ view'.SettingsCameraDof = lens.SettingsCameraDof
      /\ view'.CameraDefault = lens.CameraDefault /\ view'.CameraPhysical = lens.CameraPhysical
      /\ view'.SettingsCamera = View!Given(v.settingsCamera)
      /\ view'.VRayStereoscopicSettings = set.VRayStereoscopicSettings
      /\ view'[camera'] # View!Absent
  BY <1>1, <1>3, <1>5, <1>6 DEF View!NoPlugins
<1>10. v.useCameraPhysical = "none" =>
         /\ view'.SettingsMotionBlur = View!Given(v.settingsMotionBlur)
         /\ \E u \in since' :
              /\ view'.CameraDefault = View!Given(u.renderView.ortho)
              /\ view'.SettingsCameraDof = IF u.renderView.ortho = 1 THEN View!Absent
                                          ELSE View!Given(v.settingsCameraDof)
         /\ camera' = IF \A u \in since' : u.cameraPhysical = v.cameraPhysical
                      THEN "CameraDefault" ELSE "CameraPhysical"
  BY <1>1, <1>4, <1>9
<1>11. v.useCameraPhysical # "none" =>
         /\ camera' = "CameraPhysical" /\ view'.CameraPhysical[1].v = v.cameraPhysical
         /\ \E u \in since' : view'.CameraPhysical[1].aspect = u.renderSize
  BY <1>1, <1>3, <1>9
<1>12. /\ (View!Interactive /\ ~gpu) =>
            \E u \in since' : view'.VRayStereoscopicSettings =
                              IF View!StereoOn(v) THEN View!Given(u.stereo) ELSE View!Absent
       /\ (View!StereoOn(v) /\ ~gpu) => view'.VRayStereoscopicSettings # View!Absent
  BY <1>3, <1>5, <1>8, <1>9, GivenIsPresent
<1>13. /\ (View!StereoOn(v) /\ gpu) => view'.RenderView[1].stereo # "off"
       /\ (View!Interactive /\ gpu) => (View!StereoOn(v) <=> view'.RenderView[1].stereo # "off")
  BY <1>3, <1>5, <1>6, <1>8 DEF View!StereoOn, View!NoPlugins
<1> QED
  BY <1>1, <1>3, <1>5, <1>6, <1>7, <1>9, <1>10, <1>11, <1>12, <1>13 DEF Shows, View!StereoOn

\* An update of the plugins that a changed view concerns.
LEMMA UpdateShows ==
  ASSUME ViewTypes, UNCHANGED <<viewSession, gpu>>, NEW v, View!UpdateView(v), Shows(last),
         View!Interactive, ~View!NeedReset(v), since' = since \cup {v}
  PROVE  Shows(v)' /\ DOMAIN view' = DOMAIN View!NoPlugins
<1>1. /\ last.useCameraPhysical = v.useCameraPhysical
      /\ last.settingsCamera = v.settingsCamera
      /\ last.settingsCameraDof = v.settingsCameraDof
      /\ last.settingsMotionBlur = v.settingsMotionBlur
      /\ View!StereoOn(last) <=> View!StereoOn(v)
  BY DEF View!NeedReset
<1>2. View!Interactive' = View!Interactive
  BY DEF View!Interactive
<1>3. CASE View!ChangedPhysCam(v)
  <2>1. /\ view' = View!WithRenderView(
                     [View!WithCameraPhysical(view, v) EXCEPT !.RenderView = View!Absent], v)
        /\ camera' = "CameraPhysical"
    BY <1>3 DEF View!UpdateView, View!UpdatePhysCam
  <2>2. /\ DOMAIN view' = DOMAIN View!NoPlugins
        /\ \A name \in DOMAIN view \ {"RenderView", "CameraPhysical"} : view'[name] = view[name]
        /\ view'.CameraPhysical # View!Absent
        /\ view'.CameraPhysical[1].v = v.cameraPhysical
        /\ view'.CameraPhysical[1].aspect = v.renderSize
        /\ view'.RenderView # View!Absent
        /\ view'.RenderView[1].v = v.renderView
        /\ view'.RenderView[1].stereo = IF View!StereoOn(v) /\ gpu THEN v.stereo ELSE "off"
    <3> DEFINE phys == View!WithCameraPhysical(view, v)
    <3> DEFINE mid == [phys EXCEPT !.RenderView = View!Absent]
    <3>0. /\ DOMAIN phys = DOMAIN View!NoPlugins
          /\ phys.CameraPhysical # View!Absent /\ phys.CameraPhysical[1].v = v.cameraPhysical
          /\ phys.CameraPhysical[1].aspect = v.renderSize
          /\ \A name \in DOMAIN view \ {"CameraPhysical"} : phys[name] = view[name]
      BY GivenIsPresent DEF View!WithCameraPhysical, View!NoPlugins, ViewTypes
    <3>a. phys = View!WithCameraPhysical(view, v)
      OBVIOUS
    <3> HIDE DEF phys
    <3>1. /\ DOMAIN mid = DOMAIN View!NoPlugins
          /\ mid.RenderView = View!Absent
          /\ mid.CameraPhysical # View!Absent /\ mid.CameraPhysical[1].v = v.cameraPhysical
          /\ mid.CameraPhysical[1].aspect = v.renderSize
          /\ \A name \in DOMAIN view \ {"RenderView", "CameraPhysical"} : mid[name] = view[name]
      BY <3>0 DEF View!NoPlugins, ViewTypes
    <3>2. view' = View!WithRenderView(mid, v)
      BY <2>1, <3>a
    <3> HIDE DEF mid
    <3> QED BY <3>1, <3>2, GivenIsPresent DEF View!WithRenderView, View!NoPlugins, ViewTypes
  <2>3. /\ view'.SettingsCamera = view.SettingsCamera
        /\ view'.SettingsMotionBlur = view.SettingsMotionBlur
        /\ view'.SettingsCameraDof = view.SettingsCameraDof
        /\ view'.CameraDefault = view.CameraDefault
        /\ view'.VRayStereoscopicSettings = view.VRayStereoscopicSettings
    BY <2>2 DEF View!NoPlugins, ViewTypes
  <2>4. view'[camera'] # View!Absent
    BY <2>1, <2>2
  <2>5. ~(\A u \in since' : u.cameraPhysical = v.cameraPhysical)
    BY <1>3 DEF Shows, View!ChangedPhysCam
  <2>6. v.useCameraPhysical = "none" =>
         /\ view'.SettingsMotionBlur = View!Given(v.settingsMotionBlur)
         /\ \E u \in since' :
              /\ view'.CameraDefault = View!Given(u.renderView.ortho)
              /\ view'.SettingsCameraDof = IF u.renderView.ortho = 1 THEN View!Absent
                                          ELSE View!Given(v.settingsCameraDof)
    BY <1>1, <2>3 DEF Shows
  <2>7. /\ (View!Interactive /\ ~gpu) =>
            \E u \in since' : view'.VRayStereoscopicSettings =
                              IF View!StereoOn(v) THEN View!Given(u.stereo) ELSE View!Absent
        /\ (View!StereoOn(v) /\ ~gpu) => view'.VRayStereoscopicSettings # View!Absent
    BY <1>1, <2>3 DEF Shows
  <2>8. view'.SettingsCamera = View!Given(v.settingsCamera)
    BY <1>1, <2>3 DEF Shows
  <2> QED
    BY <1>2, <2>1, <2>2, <2>4, <2>5, <2>6, <2>7, <2>8 DEF Shows, View!StereoOn
<1>4. CASE ~View!ChangedPhysCam(v) /\ View!ChangedParams(v)
  <2>1. view' = View!WithRenderView(view, v) /\ camera' = camera
    BY <1>4 DEF View!UpdateView, View!UpdateRenderView
  <2>2. /\ DOMAIN view' = DOMAIN View!NoPlugins
        /\ \A name \in DOMAIN view \ {"RenderView"} : view'[name] = view[name]
        /\ view'.RenderView # View!Absent
        /\ view'.RenderView[1].v = v.renderView
        /\ view'.RenderView[1].stereo =
             IF View!StereoOn(v) /\ gpu THEN v.stereo ELSE view.RenderView[1].stereo
    BY <2>1, GivenIsPresent DEF View!WithRenderView, View!NoPlugins, ViewTypes, Shows
  <2>3. last.cameraPhysical = v.cameraPhysical
    BY <1>4 DEF View!ChangedPhysCam
  <2>4. view'[camera'] # View!Absent
    BY <2>1, <2>2 DEF Shows, ViewTypes, View!NoPlugins
  <2>5. \A name \in DOMAIN View!NoPlugins \ {"RenderView"} : view'[name] = view[name]
    BY <2>2 DEF ViewTypes
  <2>6. v.useCameraPhysical = "none" =>
         /\ view'.SettingsMotionBlur = View!Given(v.settingsMotionBlur)
         /\ \E u \in since' :
              /\ view'.CameraDefault = View!Given(u.renderView.ortho)
              /\ view'.SettingsCameraDof = IF u.renderView.ortho = 1 THEN View!Absent
                                          ELSE View!Given(v.settingsCameraDof)
         /\ camera' = IF \A u \in since' : u.cameraPhysical = v.cameraPhysical
                      THEN "CameraDefault" ELSE "CameraPhysical"
    BY <1>1, <2>1, <2>3, <2>5 DEF Shows, View!NoPlugins
  <2>7. v.useCameraPhysical # "none" =>
         /\ camera' = "CameraPhysical" /\ view'.CameraPhysical[1].v = v.cameraPhysical
         /\ \E u \in since' : view'.CameraPhysical[1].aspect = u.renderSize
    BY <1>1, <2>1, <2>3, <2>5 DEF Shows, View!NoPlugins
  <2>8. /\ (View!Interactive /\ ~gpu) =>
            \E u \in since' : view'.VRayStereoscopicSettings =
                              IF View!StereoOn(v) THEN View!Given(u.stereo) ELSE View!Absent
        /\ (View!StereoOn(v) /\ ~gpu) => view'.VRayStereoscopicSettings # View!Absent
        /\ view'.SettingsCamera = View!Given(v.settingsCamera)
    BY <1>1, <2>5 DEF Shows, View!NoPlugins
  <2>9. /\ (View!StereoOn(v) /\ gpu) => view'.RenderView[1].stereo # "off"
        /\ (View!Interactive /\ gpu) => (View!StereoOn(v) <=> view'.RenderView[1].stereo # "off")
    BY <1>1, <2>2 DEF Shows, View!StereoOn
  <2> QED
    BY <1>2, <2>1, <2>2, <2>4, <2>6, <2>7, <2>8, <2>9 DEF Shows, View!StereoOn
<1>5. CASE ~View!ChangedPhysCam(v) /\ ~View!ChangedParams(v)
  <2>1. view' = view /\ camera' = camera
    BY <1>5 DEF View!UpdateView
  <2>2. last.cameraPhysical = v.cameraPhysical /\ last.renderView = v.renderView
    BY <1>5 DEF View!ChangedPhysCam, View!ChangedParams
  <2>3. since \subseteq since'
    OBVIOUS
  <2>4. v.useCameraPhysical = "none" =>
         /\ view'.SettingsMotionBlur = View!Given(v.settingsMotionBlur)
         /\ \E u \in since' :
              /\ view'.CameraDefault = View!Given(u.renderView.ortho)
              /\ view'.SettingsCameraDof = IF u.renderView.ortho = 1 THEN View!Absent
                                          ELSE View!Given(v.settingsCameraDof)
         /\ camera' = IF \A u \in since' : u.cameraPhysical = v.cameraPhysical
                      THEN "CameraDefault" ELSE "CameraPhysical"
    BY <1>1, <2>1, <2>2 DEF Shows
  <2>5. v.useCameraPhysical # "none" =>
         /\ camera' = "CameraPhysical" /\ view'.CameraPhysical[1].v = v.cameraPhysical
         /\ \E u \in since' : view'.CameraPhysical[1].aspect = u.renderSize
    BY <1>1, <2>1, <2>2, <2>3 DEF Shows
  <2>6. /\ (View!Interactive /\ ~gpu) =>
            \E u \in since' : view'.VRayStereoscopicSettings =
                              IF View!StereoOn(v) THEN View!Given(u.stereo) ELSE View!Absent
        /\ (View!StereoOn(v) /\ ~gpu) => view'.VRayStereoscopicSettings # View!Absent
        /\ view'.SettingsCamera = View!Given(v.settingsCamera)
    BY <1>1, <2>1 DEF Shows
  <2> QED
    BY <1>1, <1>2, <2>1, <2>2, <2>4, <2>5, <2>6 DEF Shows, View!StereoOn, ViewTypes
<1> QED BY <1>3, <1>4, <1>5

\* Whatever exportView() does with the parameters of the camera that is wanted, the
\* renderer has them when it is done.
LEMMA ExportViewShows ==
  ASSUME ViewInv, UNCHANGED <<viewSession, gpu>>, NEW p, View!ExportView(View!ViewParams(p)),
         first \/ viewSession = "animation" \/ View!Interactive
  PROVE  /\ Shows(last)' /\ CropShown(last)' /\ DOMAIN view' = DOMAIN View!NoPlugins
         /\ ~first' /\ last' = View!ViewParams(p) /\ size' = last'.renderSize
<1>0. PICK v : v = View!ViewParams(p)
  OBVIOUS
<1>1. v.renderView.ortho = 1 => viewSession = "ipr"
  BY <1>0 DEF View!ViewParams
<1>2. last' = v /\ ~first' /\ View!SetImage(v) /\ View!ExportView(v)
  BY <1>0 DEF View!ExportView
<1>3. size' = v.renderSize
  BY <1>2 DEF View!SetImage
<1>4. CropShown(last)'
  <2>0. /\ v.cropRegion[1] # 0 => v.cropRegion # View!Whole(v.renderSize)
        /\ v.cropRegion # View!Absent
    BY <1>0 DEF View!Whole, View!Absent, View!ViewParams, View!Part
  <2>1. regions' = regions \cup ({v.cropRegion} \ {View!Whole(v.renderSize)})
    BY <1>2 DEF View!ExportView, View!Remember
  <2>2. CASE last.cropRegion # v.cropRegion /\ v.cropRegion # View!Whole(v.renderSize)
    <3>1. region' = v.cropRegion
      BY <1>2, <2>2 DEF View!SetImage
    <3> QED BY <1>2, <2>0, <2>1, <2>2, <3>1 DEF CropShown
  <2>3. CASE last.cropRegion = v.cropRegion \/ v.cropRegion = View!Whole(v.renderSize)
    <3>1. region' = region
      BY <1>2, <2>3 DEF View!SetImage
    <3>2. v.cropRegion[1] # 0 => last.cropRegion = v.cropRegion /\ region = v.cropRegion
      BY <2>0, <2>3 DEF ViewInv, CropShown
    <3>3. region' \in {View!Absent} \cup regions'
      BY <2>1, <3>1 DEF ViewInv, CropShown
    <3>4. region' = View!Absent => \A r \in regions' : r[1] = 0
      BY <2>0, <2>1, <3>1, <3>2 DEF ViewInv, CropShown
    <3> QED BY <1>2, <3>1, <3>2, <3>3, <3>4 DEF CropShown
  <2> QED BY <2>2, <2>3
<1>5. Shows(v)' /\ DOMAIN view' = DOMAIN View!NoPlugins
  <2>1. CASE View!NeedReExport(v)
    <3>1. View!ResetView(v) /\ since' = {v}
      BY <1>2, <2>1 DEF View!ExportView, View!ResetView, View!Remember
    <3> QED BY <1>1, <3>1, ResetShows DEF ViewInv
  <2>2. CASE ~View!NeedReExport(v)
    <3>1. View!Interactive /\ ~View!NeedReset(v) /\ ~first
      BY <2>2 DEF View!NeedReExport
    <3>2. View!UpdateView(v) /\ since' = since \cup {v}
      BY <1>2, <2>2, <3>1
         DEF View!ExportView, View!UpdateView, View!UpdatePhysCam, View!UpdateRenderView,
             View!Remember
    <3> QED BY <3>1, <3>2, UpdateShows DEF ViewInv
  <2> QED BY <2>1, <2>2
<1> QED BY <1>0, <1>2, <1>3, <1>4, <1>5 DEF Shows

LEMMA HeadlightShows ==
  ASSUME ViewInv, NEW v, NEW update \in BOOLEAN, View!Headlight(v, update),
         headlight' = headlight
  PROVE  /\ light' # View!Absent => light' = View!Given(v.renderView.tm)
         /\ light' # View!Absent => headlight'
BY GivenIsPresent DEF View!Headlight, ViewInv, ViewTypes

\* A scene or a view that is exported, at the start, at a frame or after a change.
LEMMA ViewExported ==
  ASSUME ViewInv, UNCHANGED View!fixed, NEW p, p = want',
         first \/ viewSession = "animation" \/ View!Interactive,
         View!ExportView(View!ViewParams(p)),
         NEW update \in BOOLEAN, View!Headlight(View!ViewParams(p), update),
         DOMAIN p = DOMAIN View!Choice,
         p.width \in {4, 6}, p.scale \in {1, 2}, p.crop \in {<<0, 2>>, <<1, 2>>}
  PROVE  ViewInv'
<1>1. UNCHANGED <<viewSession, gpu, headlight>>
  BY DEF View!fixed
<1>2. /\ Shows(last)' /\ CropShown(last)' /\ DOMAIN view' = DOMAIN View!NoPlugins
      /\ ~first' /\ last' = View!ViewParams(p) /\ size' = last'.renderSize
  BY <1>1, ExportViewShows
<1>3. PICK v : v = View!ViewParams(p)
  OBVIOUS
<1>4. /\ light' # View!Absent => light' = View!Given(v.renderView.tm)
      /\ light' # View!Absent => headlight'
  BY <1>1, <1>3, HeadlightShows
<1>5. Sized(last)'
  BY <1>2, <1>3, <1>4 DEF Sized
<1>6. ViewTypes'
  BY <1>1, <1>2, <1>4 DEF ViewInv, ViewTypes, View!NoPlugins
<1>7. View!ViewParams(want)' = View!ViewParams(p)
  BY <1>1 DEF View!ViewParams, View!PhysicalCamera, View!Fov, View!FocalUnits, View!RenderWidth,
     View!ImageWidth, View!Part
<1> QED BY <1>2, <1>5, <1>6, <1>7 DEF ViewInv

LEMMA ViewChange ==
  ASSUME ViewInv, NEW setting \in DOMAIN View!Choice, NEW value \in View!Choice[setting],
         View!Change(setting, value)
  PROVE  ViewInv'
<1>1. PICK p : p = want'
  OBVIOUS
<1>2. p = [want EXCEPT ![setting] = value] /\ ~first /\ viewSession # "still" /\ UNCHANGED View!fixed
  BY <1>1 DEF View!Change
<1>3. /\ DOMAIN p = DOMAIN View!Choice
      /\ p.width \in {4, 6} /\ p.scale \in {1, 2} /\ p.crop \in {<<0, 2>>, <<1, 2>>}
  BY <1>2 DEF ViewInv, ViewTypes, View!Choice
<1>4. CASE viewSession = "rt" /\ View!Watched(setting)
  <2>1. View!ExportView(View!ViewParams(p)) /\ View!Headlight(View!ViewParams(p), TRUE)
    BY <1>1, <1>4 DEF View!Change
  <2>2. View!Interactive
    BY <1>4 DEF View!Interactive
  <2> QED BY <1>1, <1>2, <1>3, <2>1, <2>2, ViewExported
<1>5. CASE ~(viewSession = "rt" /\ View!Watched(setting))
  <2>1. ~told' /\ UNCHANGED <<first, last, view, camera, size, region, light, since, regions>>
    BY <1>5 DEF View!Change, View!renderer, View!history
  <2>2. ViewTypes'
    BY <1>1, <1>2, <1>3, <2>1 DEF ViewInv, ViewTypes, View!fixed, View!NoPlugins
  <2>3. CropShown(last)' /\ (~first' => Shows(last)' /\ Sized(last)')
    BY <1>2, <2>1
       DEF ViewInv, CropShown, Shows, Sized, View!fixed, View!Interactive, View!StereoOn, View!Given
  <2> QED BY <1>2, <2>1, <2>2, <2>3 DEF ViewInv
<1> QED BY <1>4, <1>5

LEMMA ViewStep == ViewInv /\ [View!Next]_(View!viewVars) => ViewInv'
<1> SUFFICES ASSUME ViewInv, [View!Next]_(View!viewVars) PROVE ViewInv'
  OBVIOUS
<1>1. CASE View!ExportScene
  <2>1. PICK p : p = want
    OBVIOUS
  <2>2. /\ View!ExportView(View!ViewParams(p)) /\ View!Headlight(View!ViewParams(p), FALSE)
        /\ (first \/ viewSession = "animation") /\ UNCHANGED View!fixed /\ want' = want
    BY <1>1, <2>1 DEF View!ExportScene
  <2> QED BY <2>1, <2>2, ViewExported DEF ViewInv, ViewTypes
<1>2. CASE View!IprExportView
  <2>1. PICK p : p = want
    OBVIOUS
  <2>2. /\ View!ExportView(View!ViewParams(p)) /\ View!Headlight(View!ViewParams(p), TRUE)
        /\ View!Interactive /\ UNCHANGED View!fixed /\ want' = want
    BY <1>2, <2>1 DEF View!IprExportView, View!Interactive
  <2> QED BY <2>1, <2>2, ViewExported DEF ViewInv, ViewTypes
<1>3. CASE UNCHANGED View!viewVars
  <2>1. UNCHANGED <<viewSession, gpu, headlight, want, told, first, last, view, camera, size,
                    region, light, since, regions>>
    BY <1>3 DEF View!viewVars, View!fixed, View!renderer, View!history
  <2>2. View!ViewParams(want)' = View!ViewParams(want)
    BY <2>1 DEF View!ViewParams, View!PhysicalCamera, View!Fov, View!FocalUnits,
       View!RenderWidth, View!ImageWidth, View!Part
  <2>3. ViewTypes' /\ Shows(last)' = Shows(last)
    BY <2>1 DEF ViewInv, ViewTypes, View!NoPlugins, Shows, View!Interactive, View!StereoOn, View!Given
  <2> QED BY <2>1, <2>2, <2>3 DEF ViewInv, CropShown, Sized, View!Given
<1> QED BY <1>1, <1>2, <1>3, ViewChange DEF View!Next

\* A crop that is not the whole image has a part that does not start at its edge.
LEMMA CroppedPart ==
  ASSUME ViewTypes, View!Cropped
  PROVE  View!ViewParams(want).cropRegion[1] # 0
<1>1. want.crop = <<1, 2>>
  BY DEF ViewTypes, View!Cropped
<1>2. View!ImageWidth(want) \in {4, 6, 8, 12}
  BY DEF ViewTypes, View!ImageWidth
<1> QED BY <1>1, <1>2 DEF View!ViewParams, View!Part

LEMMA ViewHolds == ViewInv => View!ViewIsCurrent
<1> SUFFICES ASSUME ViewInv, told PROVE View!ViewIsCurrent
  BY DEF View!ViewIsCurrent
<1>1. PICK v : v = View!ViewParams(want)
  OBVIOUS
<1>2. last = v /\ Shows(v) /\ Sized(v) /\ CropShown(v)
  BY <1>1 DEF ViewInv
<1>3. View!Cropped => region = v.cropRegion
  BY <1>1, <1>2, CroppedPart DEF ViewInv, CropShown
<1> QED BY <1>1, <1>2, <1>3 DEF View!ViewIsCurrent, Shows, Sized, CropShown

LEMMA ViewAlways == AllSpec => [](which = "View" => ViewInv)
<1> DEFINE I == which = "View" => ViewInv
<1>1. AllInit => I
  BY ViewInit DEF AllInit
<1>2. I /\ [AllNext]_allVars => I'
  BY ViewAlone, ViewStep DEF AllNext, allVars
<1> QED BY <1>1, <1>2, PTL DEF AllSpec

\* After an export the renderer has the camera and the settings of the ROP as they
\* are, whatever changed since the one before, save the parts that exportView() updates
\* only with the whole view: these are of the last reset or of an update since.
THEOREM ViewsAreCurrent == AllSpec => []ViewIsCurrent
<1>1. (which = "View" => ViewInv) => ViewIsCurrent
  BY ViewHolds DEF ViewIsCurrent
<1> QED BY <1>1, ViewAlways, PTL

-----------------------------------------------------------------------------
(* Material overrides (MaterialOverride). *)

\* What a level has of each source; a sheet of its attributes hides a material path.
Styling(level, s) == IF level[s] = Override!NoSheet THEN {} ELSE level[s].params
ByPath(level, node) ==
  IF level.sheet # Override!NoSheet \/ level.path = "" \/ node = Override!None THEN {}
  ELSE {p \in DOMAIN OverrideMaterials[node] : Override!ChannelsOf(level.channels, p) # {}}

\* The source of an override of the material of a level.
SourceOf(level, node, p) ==
  CASE p \in Styling(level, "prim") -> "prim"
    [] p \notin Styling(level, "prim") /\ p \in Styling(level, "object") -> "object"
    [] p \notin Styling(level, "prim") \cup Styling(level, "object")
         /\ p \in Styling(level, "sheet") -> "sheet"
    [] p \notin Styling(level, "prim") \cup Styling(level, "object") \cup Styling(level, "sheet")
         /\ p \in ByPath(level, node) -> "path"
    [] OTHER -> "attrs"

LEMMA OverrideFrom ==
  ASSUME NEW source, NEW params
  PROVE  /\ DOMAIN Override!From(source, params) = params
         /\ \A p \in params : \A c \in Override!Components :
              Override!From(source, params)[p][c] = source
BY DEF Override!From

LEMMA ObjectOver ==
  ASSUME NEW level, NEW mat, mat = Override!ObjectMaterial(level)
  PROVE  /\ DOMAIN mat.over = Styling(level, "object")
         /\ \A p \in DOMAIN mat.over : \A c \in Override!Components : mat.over[p][c] = "object"
<1>1. CASE level.object = Override!NoSheet
  BY <1>1 DEF Override!ObjectMaterial, Override!NoMaterial, Styling
<1>2. CASE level.object # Override!NoSheet
  <2> DEFINE from == Override!From("object", level.object.params)
  <2>1. mat.over = Override!Merged(from, <<>>)
    BY <1>2 DEF Override!ObjectMaterial, Override!AppendOverrideValues, Override!AppendOverrides,
       Override!NoMaterial
  <2>2. DOMAIN mat.over = level.object.params /\ \A p \in DOMAIN mat.over : mat.over[p] = from[p]
    BY <2>1 DEF Override!Merged, Override!From
  <2> QED BY <1>2, <2>2, OverrideFrom DEF Styling
<1> QED BY <1>1, <1>2

LEMMA StyledOver ==
  ASSUME NEW level, NEW mat, mat = Override!StyledMaterial(level)
  PROVE  /\ DOMAIN mat.over = Styling(level, "prim") \cup Styling(level, "object")
         /\ \A p \in DOMAIN mat.over : \A c \in Override!Components :
              mat.over[p][c] = IF p \in Styling(level, "prim") THEN "prim" ELSE "object"
<1>0. PICK object : object = Override!ObjectMaterial(level)
  OBVIOUS
<1>1. CASE level.prim = Override!NoSheet
  BY <1>0, <1>1, ObjectOver DEF Override!StyledMaterial, Styling
<1>2. CASE level.prim # Override!NoSheet
  <2> DEFINE from == Override!From("prim", level.prim.params)
  <2>1. mat.over = Override!Merged(from, object.over)
    BY <1>0, <1>2 DEF Override!StyledMaterial, Override!AppendOverrideValues, Override!AppendOverrides
  <2>2. /\ DOMAIN mat.over = level.prim.params \cup DOMAIN object.over
        /\ \A p \in level.prim.params : mat.over[p] = from[p]
        /\ \A p \in DOMAIN object.over \ level.prim.params : mat.over[p] = object.over[p]
    <3> HIDE DEF from
    <3>1. DOMAIN from = level.prim.params
      BY OverrideFrom DEF from
    <3>2. PICK all, over, more : all = mat.over /\ over = from /\ more = object.over
      OBVIOUS
    <3>3. all = Override!Merged(over, more)
      BY <2>1, <3>2
    <3>4. /\ DOMAIN all = DOMAIN over \cup DOMAIN more
          /\ \A p \in DOMAIN over : all[p] = over[p]
          /\ \A p \in DOMAIN more \ DOMAIN over : all[p] = more[p]
      BY <3>3 DEF Override!Merged
    <3> QED BY <3>1, <3>2, <3>4
  <2>3. DOMAIN object.over = Styling(level, "object")
        /\ \A p \in DOMAIN object.over : \A c \in Override!Components : object.over[p][c] = "object"
    BY <1>0, ObjectOver
  <2>4. Styling(level, "prim") = level.prim.params
    BY <1>2 DEF Styling
  <2>5. \A p \in level.prim.params : \A c \in Override!Components : from[p][c] = "prim"
    BY OverrideFrom
  <2> HIDE DEF from
  <2> QED BY <2>2, <2>3, <2>4, <2>5
<1> QED BY <1>1, <1>2

LEMMA AttributeOver ==
  ASSUME NEW level, NEW styled, styled = Override!StyledMaterial(level),
         NEW mat, mat = Override!AppendMaterialOverride(styled, level)
  PROVE  /\ DOMAIN mat.over = DOMAIN styled.over \cup Styling(level, "sheet")
                                \cup ByPath(level, mat.node)
         /\ \A p \in DOMAIN styled.over : mat.over[p] = styled.over[p]
         /\ \A p \in Styling(level, "sheet") \ DOMAIN styled.over :
              \A c \in Override!Components : mat.over[p][c] = "sheet"
         /\ \A p \in ByPath(level, mat.node) \ DOMAIN styled.over :
              \A c \in Override!Components :
                mat.over[p][c] = Override!Said(level, "path", mat.node, p, c)
<1>1. CASE level.sheet # Override!NoSheet
  <2> DEFINE from == Override!From("sheet", level.sheet.params)
  <2>1. mat.over = Override!Merged(styled.over, from)
    BY <1>1 DEF Override!AppendMaterialOverride, Override!AppendOverrideValues, Override!AppendOverrides
  <2>2. ByPath(level, mat.node) = {} /\ Styling(level, "sheet") = level.sheet.params
    BY <1>1 DEF ByPath, Styling
  <2>3. /\ DOMAIN mat.over = DOMAIN styled.over \cup level.sheet.params
        /\ \A p \in DOMAIN styled.over : mat.over[p] = styled.over[p]
        /\ \A p \in level.sheet.params \ DOMAIN styled.over : mat.over[p] = from[p]
    BY <2>1 DEF Override!Merged, Override!From
  <2> QED BY <2>2, <2>3, OverrideFrom
<1>2. CASE level.sheet = Override!NoSheet /\ level.path = ""
  BY <1>2 DEF Override!AppendMaterialOverride, Styling, ByPath
<1>3. CASE level.sheet = Override!NoSheet /\ level.path # ""
  <2>1. mat = Override!AppendMaterialOverrides(styled, level.path, level.channels)
    BY <1>3 DEF Override!AppendMaterialOverride
  <2>2. Styling(level, "sheet") = {}
    BY <1>3 DEF Styling
  <2>3. CASE mat.node = Override!None
    <3>1. mat.over = styled.over
      BY <2>1, <2>3 DEF Override!AppendMaterialOverrides
    <3>2. ByPath(level, mat.node) = {}
      BY <2>3 DEF ByPath
    <3> QED BY <2>2, <3>1, <3>2
  <2>4. CASE mat.node # Override!None
    <3> DEFINE node == mat.node
    <3> DEFINE valid == {p \in DOMAIN OverrideMaterials[node] :
                           p \notin DOMAIN styled.over
                             /\ Override!ChannelsOf(level.channels, p) # {}}
    <3> DEFINE found == [p \in valid |-> Override!ItemOf(OverrideMaterials[node][p],
                                           Override!ChannelsOf(level.channels, p))]
    <3>1. mat.over = Override!Merged(styled.over, found)
      BY <2>1, <2>4 DEF Override!AppendMaterialOverrides
    <3>2. valid = ByPath(level, node) \ DOMAIN styled.over
      BY <1>3, <2>4 DEF ByPath
    <3>3. DOMAIN found = valid
      OBVIOUS
    <3>4. ASSUME NEW p \in valid, NEW c \in Override!Components
          PROVE  found[p][c] = Override!Said(level, "path", node, p, c)
      <4>1. c \in Override!Channels
        BY DEF Override!Components, Override!Channels
      <4> QED BY <3>4, <4>1 DEF Override!ItemOf, Override!ChannelsOf, Override!Said
    <3> HIDE DEF found, valid
    <3>5. /\ DOMAIN mat.over = DOMAIN styled.over \cup valid
          /\ \A p \in DOMAIN styled.over : mat.over[p] = styled.over[p]
          /\ \A p \in valid \ DOMAIN styled.over : mat.over[p] = found[p]
      <4>1. PICK all, over, more : all = mat.over /\ over = styled.over /\ more = found
        OBVIOUS
      <4>2. all = Override!Merged(over, more)
        BY <3>1, <4>1
      <4>3. /\ DOMAIN all = DOMAIN over \cup DOMAIN more
            /\ \A p \in DOMAIN over : all[p] = over[p]
            /\ \A p \in DOMAIN more \ DOMAIN over : all[p] = more[p]
        BY <4>2 DEF Override!Merged
      <4> QED BY <3>3, <4>1, <4>3
    <3> QED BY <2>2, <3>2, <3>4, <3>5
  <2> QED BY <2>3, <2>4
<1> QED BY <1>1, <1>2, <1>3

LEMMA LevelOver ==
  ASSUME NEW level, NEW mat, mat = Override!LevelMaterial(level)
  PROVE  /\ DOMAIN mat.over = Styling(level, "prim") \cup Styling(level, "object")
              \cup Styling(level, "sheet") \cup ByPath(level, mat.node) \cup level.attrs
         /\ \A p \in DOMAIN mat.over : \A c \in Override!Components :
              mat.over[p][c] = Override!Said(level, SourceOf(level, mat.node, p), mat.node, p, c)
<1>1. PICK styled : styled = Override!StyledMaterial(level)
  OBVIOUS
<1>2. PICK inner : inner = Override!AppendMaterialOverride(styled, level)
  OBVIOUS
<1> DEFINE from == Override!From("attrs", level.attrs)
<1>3. mat = [inner EXCEPT !.over = Override!Merged(@, from)]
  BY <1>1, <1>2 DEF Override!LevelMaterial, Override!AddAttributes, Override!AppendOverrides
<1>4. DOMAIN inner = {"node", "over"}
  BY <1>1, <1>2 DEF Override!AppendMaterialOverride, Override!AppendMaterialOverrides,
     Override!AppendOverrideValues, Override!StyledMaterial, Override!ObjectMaterial, Override!NoMaterial
<1>5. mat.node = inner.node /\ mat.over = Override!Merged(inner.over, from)
  BY <1>3, <1>4
<1>6. /\ DOMAIN mat.over = DOMAIN inner.over \cup level.attrs
      /\ \A p \in DOMAIN inner.over : mat.over[p] = inner.over[p]
      /\ \A p \in level.attrs \ DOMAIN inner.over : mat.over[p] = from[p]
  BY <1>5 DEF Override!Merged, Override!From
<1> HIDE DEF from
<1>7. DOMAIN inner.over = DOMAIN styled.over \cup Styling(level, "sheet") \cup ByPath(level, mat.node)
  BY <1>1, <1>2, <1>5, AttributeOver
<1>8. DOMAIN styled.over = Styling(level, "prim") \cup Styling(level, "object")
  BY <1>1, StyledOver
<1>9. ASSUME NEW p \in DOMAIN mat.over, NEW c \in Override!Components
      PROVE  mat.over[p][c] = Override!Said(level, SourceOf(level, mat.node, p), mat.node, p, c)
  <2>1. CASE p \in DOMAIN styled.over
    <3>1. mat.over[p] = styled.over[p]
      BY <1>1, <1>2, <1>6, <1>7, <2>1, AttributeOver
    <3>2. mat.over[p][c] = IF p \in Styling(level, "prim") THEN "prim" ELSE "object"
      BY <1>1, <1>9, <2>1, <3>1, StyledOver
    <3> QED BY <1>8, <2>1, <3>2 DEF SourceOf, Override!Said
  <2>2. CASE p \notin DOMAIN styled.over /\ p \in Styling(level, "sheet")
    <3>1. mat.over[p][c] = "sheet"
      BY <1>1, <1>2, <1>6, <1>7, <1>9, <2>2, AttributeOver
    <3> QED BY <1>8, <2>2, <3>1 DEF SourceOf, Override!Said
  <2>3. CASE p \notin DOMAIN styled.over \cup Styling(level, "sheet") /\ p \in ByPath(level, mat.node)
    <3>1. mat.over[p][c] = Override!Said(level, "path", mat.node, p, c)
      BY <1>1, <1>2, <1>5, <1>6, <1>7, <1>9, <2>3, AttributeOver
    <3>2. SourceOf(level, mat.node, p) = "path"
      BY <1>8, <2>3 DEF SourceOf
    <3> QED BY <3>1, <3>2
  <2>4. CASE p \notin DOMAIN inner.over
    <3>1. mat.over[p][c] = "attrs"
      BY <1>6, <1>9, <2>4, OverrideFrom DEF from
    <3>2. SourceOf(level, mat.node, p) = "attrs"
      BY <1>7, <1>8, <2>4 DEF SourceOf
    <3> QED BY <3>1, <3>2 DEF Override!Said
  <2> QED BY <1>7, <2>1, <2>2, <2>3, <2>4
<1> QED BY <1>6, <1>7, <1>8, <1>9

-----------------------------------------------------------------------------
\* The levels on the stack have the materials of their sources, and what was read of
\* them is that of all levels joined.
OverrideInv ==
  /\ stack \in Seq(UNION {{[level |-> l, mat |-> Override!LevelMaterial(l)]} : l \in OverrideLevels})
  /\ initialized => overrideCurrent = Override!InitCurrentContext(stack)

LEMMA OverrideInit == Override!Init => OverrideInv
BY DEF Override!Init, OverrideInv

LEMMA OverrideStep == OverrideInv /\ [Override!Next]_(Override!overrideVars) => OverrideInv'
<1> SUFFICES ASSUME OverrideInv, [Override!Next]_(Override!overrideVars) PROVE OverrideInv'
  OBVIOUS
<1> DEFINE S == UNION {{[level |-> l, mat |-> Override!LevelMaterial(l)]} : l \in OverrideLevels}
<1>1. CASE Override!PushContext
  <2>1. PICK level \in OverrideLevels :
          stack' = Append(stack, [level |-> level, mat |-> Override!LevelMaterial(level)])
    BY <1>1 DEF Override!PushContext
  <2>2. [level |-> level, mat |-> Override!LevelMaterial(level)] \in S
    OBVIOUS
  <2>3. stack \in Seq(S)
    BY DEF OverrideInv
  <2> HIDE DEF S
  <2>4. stack' \in Seq(S)
    BY <2>1, <2>2, <2>3
  <2> QED BY <1>1, <2>4 DEF S, OverrideInv, Override!PushContext
<1>2. CASE Override!PopContext
  <2>1. stack \in Seq(S) /\ stack # <<>>
    BY <1>2 DEF OverrideInv, Override!PopContext
  <2> HIDE DEF S
  <2>2. stack' \in Seq(S)
    BY <1>2, <2>1 DEF Override!PopContext, Override!Front
  <2> QED BY <1>2, <2>2 DEF S, OverrideInv, Override!PopContext
<1>3. CASE Override!GetPrimMaterial
  BY <1>3 DEF OverrideInv, Override!GetPrimMaterial
<1>4. CASE UNCHANGED Override!overrideVars
  BY <1>4 DEF OverrideInv, Override!overrideVars
<1> QED BY <1>1, <1>2, <1>3, <1>4 DEF Override!Next

LEMMA OverrideAlways == AllSpec => [](which = "Override" => OverrideInv)
<1> DEFINE I == which = "Override" => OverrideInv
<1>1. AllInit => I
  BY OverrideInit DEF AllInit
<1>2. I /\ [AllNext]_allVars => I'
  BY OverrideAlone, OverrideStep DEF AllNext, allVars
<1> QED BY <1>1, <1>2, PTL DEF AllSpec

\* The sources of the property are those of the level, and the one that gives an
\* override comes before the others that would.
LEMMA SourcesGive ==
  ASSUME NEW level, NEW node
  PROVE  /\ UNION {Override!ParamsOf(level, s, node) : s \in Override!Sources(level)}
              = Styling(level, "prim") \cup Styling(level, "object") \cup Styling(level, "sheet")
                  \cup ByPath(level, node) \cup level.attrs
         /\ \A p \in Styling(level, "prim") \cup Styling(level, "object")
                       \cup Styling(level, "sheet") \cup ByPath(level, node) \cup level.attrs :
              LET Giving == {s \in Override!Sources(level) : p \in Override!ParamsOf(level, s, node)}
              IN /\ SourceOf(level, node, p) \in Giving
                 /\ \A t \in Giving : Override!Rank[SourceOf(level, node, p)] <= Override!Rank[t]
<1> DEFINE Gives(s) == IF s \in Override!Sources(level) THEN Override!ParamsOf(level, s, node) ELSE {}
<1>1. Override!Sources(level) \subseteq {"prim", "object", "sheet", "path", "attrs"}
  BY DEF Override!Sources, Override!Rank
<1>2. Gives("attrs") = level.attrs
  BY DEF Override!Sources, Override!ParamsOf, Override!Rank
<1>3. Gives("path") = ByPath(level, node)
  BY DEF Override!Sources, Override!ParamsOf, Override!Rank, ByPath
<1>4. Gives("prim") = Styling(level, "prim")
  BY DEF Override!Sources, Override!ParamsOf, Override!Rank, Styling
<1>5. Gives("object") = Styling(level, "object")
  BY DEF Override!Sources, Override!ParamsOf, Override!Rank, Styling
<1>6. Gives("sheet") = Styling(level, "sheet")
  BY DEF Override!Sources, Override!ParamsOf, Override!Rank, Styling
<1>7. \A s \in Override!Sources(level) : Override!ParamsOf(level, s, node) = Gives(s)
  OBVIOUS
<1>8. \A s, p : p \in Gives(s) => s \in Override!Sources(level)
  OBVIOUS
<1> HIDE DEF Gives
<1>9. UNION {Override!ParamsOf(level, s, node) : s \in Override!Sources(level)}
        = Gives("prim") \cup Gives("object") \cup Gives("sheet") \cup Gives("path") \cup Gives("attrs")
  BY <1>1, <1>7, <1>8
<1>10. ASSUME NEW p, p \in Gives("prim") \cup Gives("object") \cup Gives("sheet") \cup Gives("path")
                             \cup Gives("attrs"),
              NEW t \in Override!Sources(level), p \in Gives(t)
       PROVE  /\ p \in Gives(SourceOf(level, node, p))
              /\ Override!Rank[SourceOf(level, node, p)] <= Override!Rank[t]
  BY <1>1, <1>2, <1>3, <1>4, <1>5, <1>6, <1>10 DEF SourceOf, Override!Rank
<1> QED BY <1>2, <1>3, <1>4, <1>5, <1>6, <1>7, <1>8, <1>9, <1>10

\* The material of a level, source by source.
LEMMA LevelNode ==
  ASSUME NEW level, NEW mat, mat = Override!LevelMaterial(level)
  PROVE  IF Override!Finding(level) = {} THEN mat.node = Override!None
         ELSE \E s \in Override!Finding(level) :
                /\ \A t \in Override!Finding(level) : Override!Rank[s] <= Override!Rank[t]
                /\ mat.node = Override!MaterialOf(level, s)
<1> DEFINE Names(s) == s \in Override!Naming(level)
<1> DEFINE found(s) == Override!Found(Override!MaterialOf(level, s))
<1>1. PICK object : object = Override!ObjectMaterial(level)
  OBVIOUS
<1>2. PICK styled : styled = Override!StyledMaterial(level)
  OBVIOUS
<1>3. PICK inner : inner = Override!AppendMaterialOverride(styled, level)
  OBVIOUS
<1>4. /\ Names("object") <=> level.object # Override!NoSheet /\ level.object.node # Override!None
      /\ Names("prim") <=> level.prim # Override!NoSheet /\ level.prim.node # Override!None
      /\ Names("sheet") <=> level.sheet # Override!NoSheet /\ level.sheet.node # Override!None
      /\ Names("path") <=> /\ level.sheet = Override!NoSheet /\ level.path # ""
                           /\ level.path # Override!None
      /\ Override!Naming(level) \subseteq {"object", "prim", "sheet", "path"}
  BY DEF Override!Naming, Override!Sources, Override!Rank, Override!MaterialOf
<1>5. /\ Override!MaterialOf(level, "object") = level.object.node
      /\ Override!MaterialOf(level, "prim") = level.prim.node
      /\ Override!MaterialOf(level, "sheet") = level.sheet.node
      /\ Override!MaterialOf(level, "path") = level.path
  BY DEF Override!MaterialOf
<1>6. object.node = IF Names("object") THEN found("object") ELSE Override!None
  BY <1>1, <1>4, <1>5 DEF Override!ObjectMaterial, Override!AppendOverrideValues, Override!NoMaterial
<1>7. styled.node = IF Names("prim") THEN found("prim") ELSE object.node
  BY <1>1, <1>2, <1>4, <1>5 DEF Override!StyledMaterial, Override!AppendOverrideValues
<1>8. inner.node = IF styled.node # Override!None THEN styled.node
                   ELSE IF Names("sheet") THEN found("sheet")
                   ELSE IF Names("path") THEN found("path") ELSE Override!None
  <2>1. Override!Found(Override!None) = Override!None
    BY DEF Override!Found
  <2> QED BY <1>3, <1>4, <1>5, <2>1 DEF Override!AppendMaterialOverride,
         Override!AppendOverrideValues, Override!AppendMaterialOverrides
<1>9. mat.node = inner.node
  <2>1. DOMAIN inner = {"node", "over"}
    BY <1>2, <1>3 DEF Override!AppendMaterialOverride, Override!AppendMaterialOverrides,
       Override!AppendOverrideValues, Override!StyledMaterial, Override!ObjectMaterial,
       Override!NoMaterial
  <2> QED BY <1>2, <1>3, <2>1 DEF Override!LevelMaterial, Override!AddAttributes
<1>10. \A s : found(s) \in {Override!MaterialOf(level, s), Override!None}
  BY DEF Override!Found
<1>11. Names("sheet") => ~Names("path")
  BY <1>4
<1>12. \A s : s \in Override!Finding(level) <=>
          Names(s) /\ found(s) # Override!None /\ (s = "object" => ~Names("prim"))
  BY DEF Override!Finding
<1> HIDE DEF Names, found
<1>13. Override!Finding(level) \subseteq {"object", "prim", "sheet", "path"}
  BY <1>4, <1>12 DEF Names
<1>14. CASE styled.node # Override!None
  <2>1. CASE Names("prim")
    <3>1. "prim" \in Override!Finding(level)
      BY <1>7, <1>12, <1>14, <2>1
    <3> QED BY <1>7, <1>8, <1>9, <1>10, <1>12, <1>13, <1>14, <2>1, <3>1 DEF Override!Rank
  <2>2. CASE ~Names("prim")
    <3>1. "object" \in Override!Finding(level) /\ "prim" \notin Override!Finding(level)
      BY <1>6, <1>7, <1>12, <1>14, <2>2
    <3> QED BY <1>6, <1>7, <1>8, <1>9, <1>10, <1>12, <1>13, <1>14, <2>2, <3>1 DEF Override!Rank
  <2> QED BY <2>1, <2>2
<1>15. CASE styled.node = Override!None
  <2>1. "prim" \notin Override!Finding(level) /\ "object" \notin Override!Finding(level)
    BY <1>6, <1>7, <1>12, <1>15
  <2> QED BY <1>8, <1>9, <1>10, <1>11, <1>12, <1>13, <1>15, <2>1 DEF Override!Rank
<1> QED BY <1>14, <1>15

LEMMA OverrideHighest == OverrideInv => Override!HighestSourceWins
<1> SUFFICES ASSUME OverrideInv, NEW i \in DOMAIN stack
             PROVE  LET level == stack[i].level
                        mat == stack[i].mat
                        Giving(p) == {s \in Override!Sources(level) :
                                        p \in Override!ParamsOf(level, s, mat.node)}
                    IN /\ IF Override!Finding(level) = {} THEN mat.node = Override!None
                          ELSE \E s \in Override!Finding(level) :
                                 /\ \A t \in Override!Finding(level) :
                                      Override!Rank[s] <= Override!Rank[t]
                                 /\ mat.node = Override!MaterialOf(level, s)
                       /\ DOMAIN mat.over = UNION {Override!ParamsOf(level, s, mat.node) :
                                                     s \in Override!Sources(level)}
                       /\ \A p \in DOMAIN mat.over : \E s \in Giving(p) :
                            /\ \A t \in Giving(p) : Override!Rank[s] <= Override!Rank[t]
                            /\ \A c \in Override!Components :
                                 mat.over[p][c] = Override!Said(level, s, mat.node, p, c)
  BY DEF Override!HighestSourceWins
<1>1. PICK level \in OverrideLevels :
        stack[i] = [level |-> level, mat |-> Override!LevelMaterial(level)]
  BY DEF OverrideInv
<1>2. PICK mat : mat = Override!LevelMaterial(level)
  OBVIOUS
<1>3. stack[i].level = level /\ stack[i].mat = mat
  BY <1>1, <1>2
<1> DEFINE All == Styling(level, "prim") \cup Styling(level, "object") \cup Styling(level, "sheet")
                    \cup ByPath(level, mat.node) \cup level.attrs
<1>4. DOMAIN mat.over = All
  BY <1>2, LevelOver
<1>5. UNION {Override!ParamsOf(level, s, mat.node) : s \in Override!Sources(level)} = All
  BY SourcesGive
<1>6. ASSUME NEW p \in DOMAIN mat.over
      PROVE  \E s \in {r \in Override!Sources(level) : p \in Override!ParamsOf(level, r, mat.node)} :
               /\ \A t \in {r \in Override!Sources(level) :
                              p \in Override!ParamsOf(level, r, mat.node)} :
                    Override!Rank[s] <= Override!Rank[t]
               /\ \A c \in Override!Components :
                    mat.over[p][c] = Override!Said(level, s, mat.node, p, c)
  <2> DEFINE Giving == {r \in Override!Sources(level) : p \in Override!ParamsOf(level, r, mat.node)}
  <2>1. /\ SourceOf(level, mat.node, p) \in Giving
        /\ \A t \in Giving : Override!Rank[SourceOf(level, mat.node, p)] <= Override!Rank[t]
    BY <1>4, <1>6, SourcesGive
  <2>2. \A c \in Override!Components :
          mat.over[p][c] = Override!Said(level, SourceOf(level, mat.node, p), mat.node, p, c)
    BY <1>2, <1>6, LevelOver
  <2> QED BY <2>1, <2>2
<1>7. IF Override!Finding(level) = {} THEN mat.node = Override!None
      ELSE \E s \in Override!Finding(level) :
             /\ \A t \in Override!Finding(level) : Override!Rank[s] <= Override!Rank[t]
             /\ mat.node = Override!MaterialOf(level, s)
  BY <1>2, LevelNode
<1> HIDE DEF All
<1> QED BY <1>3, <1>4, <1>5, <1>6, <1>7

\* The material of a primitive is that of its highest source that names one there is
\* (a primitive's style that names a missing one sets its object's aside), and each
\* override is that of the highest source that has one.
THEOREM HighestSourcesWin == AllSpec => []HighestSourceWins
<1>1. (which = "Override" => OverrideInv) => HighestSourceWins
  BY OverrideHighest DEF HighestSourceWins
<1> QED BY <1>1, OverrideAlways, PTL

\* The loop over the levels, the innermost first, as far as n.
IsJoined(f, contexts, n) ==
  f = [k \in 0 .. n |-> IF k = 0 THEN Override!NoMaterial
                        ELSE Override!Join(contexts[Len(contexts) - k + 1], f[k - 1])]

LEMMA JoinedIs ==
  ASSUME NEW contexts, NEW f, f = CHOOSE g : IsJoined(g, contexts, Len(contexts))
  PROVE  Override!InitCurrentContext(contexts) = f[Len(contexts)]
BY DEF Override!InitCurrentContext, IsJoined

LEMMA JoinedExists ==
  ASSUME NEW contexts, Len(contexts) \in Nat, NEW n \in Nat
  PROVE  \E f : IsJoined(f, contexts, n)
<1> DEFINE S == {m \in Nat : \E f : IsJoined(f, contexts, m)}
<1>1. 0 \in S
  <2> DEFINE f == [k \in 0 .. 0 |-> Override!NoMaterial]
  <2>1. IsJoined(f, contexts, 0)
    BY DEF IsJoined
  <2> QED BY <2>1
<1>2. ASSUME NEW m \in Nat, m \in S PROVE m + 1 \in S
  <2> DEFINE Further(f, k) == Override!Join(contexts[Len(contexts) - k + 1], f[k - 1])
  <2>1. PICK f : IsJoined(f, contexts, m)
    BY <1>2
  <2> DEFINE g == [k \in 0 .. m + 1 |-> IF k = m + 1 THEN Further(f, m + 1) ELSE f[k]]
  <2>2. \A k \in 0 .. m : f[k] = IF k = 0 THEN Override!NoMaterial ELSE Further(f, k)
    BY <2>1 DEF IsJoined
  <2>3. \A k \in 0 .. m : g[k] = f[k]
    OBVIOUS
  <2>4. g[m + 1] = Further(f, m + 1) /\ f[(m + 1) - 1] = g[(m + 1) - 1]
    BY <2>3
  <2>5. g = [k \in 0 .. m + 1 |-> g[k]]
    OBVIOUS
  <2> HIDE DEF g
  <2>6. ASSUME NEW k \in 0 .. m + 1 PROVE g[k] = IF k = 0 THEN Override!NoMaterial ELSE Further(g, k)
    <3>1. CASE k = m + 1
      <4>1. g[k] = Further(g, k) /\ k # 0
        BY <2>4, <3>1
      <4> HIDE DEF Further
      <4> QED BY <4>1
    <3>2. CASE k = 0
      <4>1. 0 \in 0 .. m
        OBVIOUS
      <4>2. g[0] = f[0] /\ f[0] = Override!NoMaterial
        BY <4>1, <2>2, <2>3
      <4> QED BY <3>2, <4>2
    <3>3. CASE k \in 1 .. m
      <4>1. k \in 0 .. m /\ k - 1 \in 0 .. m /\ k # 0
        BY <3>3
      <4>2. g[k] = f[k] /\ g[k - 1] = f[k - 1]
        BY <4>1, <2>3
      <4> QED BY <4>1, <4>2, <2>2
    <3> QED BY <3>1, <3>2, <3>3
  <2>7. IsJoined(g, contexts, m + 1)
    <3> DEFINE h == [k \in 0 .. m + 1 |-> IF k = 0 THEN Override!NoMaterial ELSE Further(g, k)]
    <3>1. \A k \in 0 .. m + 1 : g[k] = h[k]
      BY <2>6
    <3>2. h = [k \in 0 .. m + 1 |-> h[k]]
      OBVIOUS
    <3> HIDE DEF h
    <3>3. g = h
      BY <2>5, <3>1, <3>2
    <3> QED BY <3>3 DEF h, IsJoined
  <2> QED BY <2>7
<1> HIDE DEF S
<1>3. Nat \subseteq S
  BY <1>1, <1>2, Induction
<1> QED BY <1>3 DEF S

\* What the k innermost levels say, put together.
Innermost(contexts, k) == Len(contexts) - k + 1 .. Len(contexts)
Joins(contexts, k, mat) ==
  LET Noded == {i \in Innermost(contexts, k) : contexts[i].mat.node # Override!None}
      With(p) == {i \in Innermost(contexts, k) : p \in DOMAIN contexts[i].mat.over}
  IN /\ Noded = {} => mat.node = Override!None
     /\ Noded # {} => \E i \in Noded : /\ \A j \in Noded : i <= j
                                       /\ mat.node = contexts[i].mat.node
     /\ DOMAIN mat.over = UNION {DOMAIN contexts[i].mat.over : i \in Innermost(contexts, k)}
     /\ \A p \in DOMAIN mat.over :
          \E i \in With(p) : /\ \A j \in With(p) : j <= i
                             /\ mat.over[p] = contexts[i].mat.over[p]

LEMMA JoinsNone ==
  ASSUME NEW contexts, Len(contexts) \in Nat
  PROVE  Joins(contexts, 0, Override!NoMaterial)
<1>1. Innermost(contexts, 0) = {}
  BY DEF Innermost
<1> QED BY <1>1 DEF Joins, Override!NoMaterial

LEMMA JoinsStep ==
  ASSUME NEW contexts, Len(contexts) \in Nat, NEW k \in Nat, k < Len(contexts), NEW mat,
         Joins(contexts, k, mat)
  PROVE  Joins(contexts, k + 1, Override!Join(contexts[Len(contexts) - k], mat))
<1> DEFINE n == Len(contexts) - k
<1> DEFINE more == Override!Join(contexts[n], mat)
<1> DEFINE outer == contexts[n].mat
<1>1. /\ n \in Nat /\ n \notin Innermost(contexts, k) /\ Innermost(contexts, k) \subseteq Nat
      /\ Innermost(contexts, k + 1) = Innermost(contexts, k) \cup {n}
      /\ \A i \in Innermost(contexts, k) : n <= i /\ ~(i <= n)
  BY DEF Innermost
<1>2. /\ more.node = IF outer.node # Override!None THEN outer.node ELSE mat.node
      /\ more.over = Override!Merged(mat.over, outer.over)
  BY DEF Override!Join, Override!AppendOverrides
<1>3. /\ DOMAIN more.over = DOMAIN mat.over \cup DOMAIN outer.over
      /\ \A p \in DOMAIN mat.over : more.over[p] = mat.over[p]
      /\ \A p \in DOMAIN outer.over \ DOMAIN mat.over : more.over[p] = outer.over[p]
  <2> HIDE DEF more, outer
  <2>1. PICK all, over, other : all = more.over /\ over = mat.over /\ other = outer.over
    OBVIOUS
  <2>2. all = Override!Merged(over, other)
    BY <1>2, <2>1
  <2>3. /\ DOMAIN all = DOMAIN over \cup DOMAIN other
        /\ \A p \in DOMAIN over : all[p] = over[p]
        /\ \A p \in DOMAIN other \ DOMAIN over : all[p] = other[p]
    BY <2>2 DEF Override!Merged
  <2> QED BY <2>1, <2>3
<1> DEFINE Noded(l) == {i \in Innermost(contexts, l) : contexts[i].mat.node # Override!None}
<1> DEFINE With(l, p) == {i \in Innermost(contexts, l) : p \in DOMAIN contexts[i].mat.over}
<1> HIDE DEF n, more
<1>4. /\ Noded(k) = {} => mat.node = Override!None
      /\ Noded(k) # {} => \E i \in Noded(k) : /\ \A j \in Noded(k) : i <= j
                                              /\ mat.node = contexts[i].mat.node
      /\ DOMAIN mat.over = UNION {DOMAIN contexts[i].mat.over : i \in Innermost(contexts, k)}
      /\ \A p \in DOMAIN mat.over :
           \E i \in With(k, p) : /\ \A j \in With(k, p) : j <= i
                                 /\ mat.over[p] = contexts[i].mat.over[p]
  BY DEF Joins
<1>5. /\ Noded(k + 1) = {} => more.node = Override!None
      /\ Noded(k + 1) # {} => \E i \in Noded(k + 1) : /\ \A j \in Noded(k + 1) : i <= j
                                                      /\ more.node = contexts[i].mat.node
  <2>1. CASE outer.node # Override!None
    <3>1. n \in Noded(k + 1) /\ (\A j \in Noded(k + 1) : n <= j) /\ more.node = contexts[n].mat.node
      BY <1>1, <1>2, <2>1
    <3> HIDE DEF Noded
    <3> QED BY <3>1
  <2>2. CASE outer.node = Override!None
    <3>1. Noded(k + 1) = Noded(k) /\ more.node = mat.node
      BY <1>1, <1>2, <2>2
    <3> HIDE DEF Noded
    <3> QED BY <1>4, <3>1
  <2> QED BY <2>1, <2>2
<1>6. DOMAIN more.over = UNION {DOMAIN contexts[i].mat.over : i \in Innermost(contexts, k + 1)}
  <2> DEFINE Some(l) == UNION {DOMAIN contexts[i].mat.over : i \in Innermost(contexts, l)}
  <2>1. \A l, p : p \in Some(l) <=> \E i \in Innermost(contexts, l) : p \in DOMAIN contexts[i].mat.over
    OBVIOUS
  <2>2. DOMAIN mat.over = Some(k)
    BY <1>4
  <2> HIDE DEF Some
  <2>3. \A p : p \in Some(k + 1) <=> p \in Some(k) \/ p \in DOMAIN outer.over
    BY <1>1, <2>1
  <2>4. DOMAIN more.over = Some(k + 1)
    BY <1>3, <2>2, <2>3
  <2> QED BY <2>4 DEF Some
<1>7. ASSUME NEW p \in DOMAIN more.over
      PROVE  \E i \in With(k + 1, p) : /\ \A j \in With(k + 1, p) : j <= i
                                       /\ more.over[p] = contexts[i].mat.over[p]
  <2>1. CASE p \in DOMAIN mat.over
    <3>1. PICK i \in With(k, p) : /\ \A j \in With(k, p) : j <= i
                                  /\ mat.over[p] = contexts[i].mat.over[p]
      BY <1>4, <2>1
    <3>2. i \in With(k + 1, p) /\ \A j \in With(k + 1, p) : j <= i
      BY <1>1, <3>1
    <3>3. more.over[p] = mat.over[p]
      BY <1>3, <2>1
    <3> HIDE DEF With
    <3> QED BY <3>1, <3>2, <3>3
  <2>2. CASE p \notin DOMAIN mat.over
    <3>1. p \in DOMAIN outer.over /\ more.over[p] = outer.over[p]
      BY <1>3, <2>2
    <3>2. With(k, p) = {}
      BY <1>4, <2>2
    <3>3. n \in With(k + 1, p) /\ \A j \in With(k + 1, p) : j <= n
      BY <1>1, <3>1, <3>2
    <3> HIDE DEF With
    <3> QED BY <3>1, <3>3
  <2> QED BY <2>1, <2>2
<1> QED BY <1>5, <1>6, <1>7 DEF Joins, more, n

LEMMA JoinsAll ==
  ASSUME NEW contexts, Len(contexts) \in Nat
  PROVE  Joins(contexts, Len(contexts), Override!InitCurrentContext(contexts))
<1> DEFINE len == Len(contexts)
<1>1. PICK f : f = CHOOSE g : IsJoined(g, contexts, len)
  OBVIOUS
<1>2. IsJoined(f, contexts, len)
  BY <1>1, JoinedExists
<1>3. Override!InitCurrentContext(contexts) = f[len]
  BY <1>1, JoinedIs
<1>4. f = [k \in 0 .. len |-> IF k = 0 THEN Override!NoMaterial
                              ELSE Override!Join(contexts[len - k + 1], f[k - 1])]
  BY <1>2 DEF IsJoined
<1> DEFINE S == {k \in Nat : k <= len => Joins(contexts, k, f[k])}
<1>5. 0 \in S
  BY <1>4, JoinsNone
<1>6. ASSUME NEW k \in Nat, k \in S PROVE k + 1 \in S
  <2> SUFFICES ASSUME k + 1 <= len PROVE Joins(contexts, k + 1, f[k + 1])
    OBVIOUS
  <2>1. f[k + 1] = Override!Join(contexts[len - (k + 1) + 1], f[(k + 1) - 1])
    BY <1>4
  <2>2. len - (k + 1) + 1 = len - k /\ (k + 1) - 1 = k
    OBVIOUS
  <2>3. f[k + 1] = Override!Join(contexts[len - k], f[k])
    BY <2>1, <2>2
  <2> QED BY <1>6, <2>3, JoinsStep
<1>7. len \in S
  <2> HIDE DEF S
  <2> QED BY <1>5, <1>6, Induction
<1> QED BY <1>3, <1>7

LEMMA OverrideCurrent == OverrideInv => Override!ContextIsCurrent
<1> SUFFICES ASSUME OverrideInv, initialized PROVE Override!ContextIsCurrent
  BY DEF Override!ContextIsCurrent
<1>1. Len(stack) \in Nat /\ DOMAIN stack = 1 .. Len(stack)
  BY DEF OverrideInv
<1>2. Innermost(stack, Len(stack)) = DOMAIN stack
  BY <1>1 DEF Innermost
<1>3. Joins(stack, Len(stack), overrideCurrent)
  BY <1>1, JoinsAll DEF OverrideInv
<1> QED BY <1>2, <1>3 DEF Joins, Override!ContextIsCurrent

\* What is read of the nested levels is what they say now: a pushed or popped level
\* is never missed.
THEOREM ContextsAreCurrent == AllSpec => []ContextIsCurrent
<1>1. (which = "Override" => OverrideInv) => ContextIsCurrent
  BY OverrideCurrent DEF ContextIsCurrent
<1> QED BY <1>1, OverrideAlways, PTL

-----------------------------------------------------------------------------
(* Proxies (ProxyExport). *)

ProxyInv ==
  /\ (rop # Proxy!NoRender) =>
       /\ DOMAIN rop = {"time", "options", "at"}
       /\ \E c \in ProxyCommands : c.by = "rop" /\ rop.options = Proxy!RopOptions(c)
  /\ Proxy!ProxyIsWhole

LEMMA MaxOfRange ==
  ASSUME NEW a \in Int, NEW b \in Int, a <= b
  PROVE  Proxy!Max(a .. b) = b
<1>1. b \in a .. b /\ \A y \in a .. b : b >= y
  OBVIOUS
<1>2. \A x \in a .. b : (\A y \in a .. b : x >= y) => x = b
  OBVIOUS
<1>3. PICK m : m = CHOOSE x \in a .. b : \A y \in a .. b : x >= y
  OBVIOUS
<1>4. m \in a .. b /\ \A y \in a .. b : m >= y
  BY <1>1, <1>3
<1>5. m = b
  BY <1>2, <1>4
<1> QED
  BY <1>3, <1>5 DEF Proxy!Max

LEMMA SameCardinality ==
  ASSUME NEW S
  PROVE  Proxy!Cardinality(S) = Cardinality(S)
BY DEF Proxy!Cardinality, Cardinality

LEMMA MinOfOne ==
  ASSUME NEW f \in Int
  PROVE  Proxy!Min({f}) = f
BY DEF Proxy!Min

\* Options of at least one frame.
ProxyOptions(o) ==
  /\ {"animStart", "animFrames", "sops", "overwrite", "mkpath", "single", "numbered", "animation"} = DOMAIN o
  /\ o.animStart \in Int /\ o.animFrames \in Nat \ {0}

LEMMA OptionsOfCmd ==
  ASSUME NEW c \in ProxyCommands, Proxy!CommandsAssumption
  PROVE  ProxyOptions(Proxy!CmdOptions(c))
<1>1. c.first \in Int /\ c.last \in Int
  BY DEF Proxy!CommandsAssumption
<1> DEFINE start == Proxy!Larger(Proxy!Smaller(c.first, c.last), 1)
           end == Proxy!Larger(Proxy!Larger(start, c.last), 1)
<1>2. start \in Nat /\ end \in Nat /\ end >= start
  BY <1>1 DEF Proxy!Larger, Proxy!Smaller
<1> HIDE DEF start, end
<1>3. end - start + 1 \in Nat \ {0}
  BY <1>2
<1>4. Proxy!CmdOptions(c) =
        [sops |-> c.sops, animation |-> c.animation, overwrite |-> c.overwrite,
         mkpath |-> c.mkpath, single |-> c.single, numbered |-> FALSE,
         animStart |-> IF c.animation THEN start ELSE c.first,
         animFrames |-> IF c.animation THEN end - start + 1 ELSE 1]
  BY DEF Proxy!CmdOptions, start, end
<1> QED
  BY <1>1, <1>2, <1>3, <1>4 DEF ProxyOptions

LEMMA OptionsOfRop ==
  ASSUME NEW c \in ProxyCommands, c.by = "rop", Proxy!CommandsAssumption
  PROVE  ProxyOptions(Proxy!RopOptions(c))
<1>1. c.first \in Int /\ c.last \in Int /\ c.first <= c.last
  BY DEF Proxy!CommandsAssumption
<1> QED
  BY <1>1 DEF ProxyOptions, Proxy!RopOptions

\* What is written of one export: h are its options.
LEMMA OneExport ==
  ASSUME NEW h, ProxyOptions(h), NEW broken \in Proxy!Broken(h)
  PROVE  LET content == Proxy!Contents(h, h.sops, broken)
             failed == \E f \in Proxy!Frames(h, broken), s \in Proxy!Range(h.sops) : <<s, f>> \in broken
             e == Proxy!Max(DOMAIN content)
         IN /\ h.animStart \in DOMAIN content
            /\ \A f \in DOMAIN content \ {e} : content[f] = Proxy!Range(h.sops)
            /\ ~failed => e = h.animStart + h.animFrames - 1 /\ content[e] = Proxy!Range(h.sops)
            /\ failed => Proxy!Cardinality(Proxy!Range(h.sops) \ content[e]) = 1
<1> DEFINE content == Proxy!Contents(h, h.sops, broken)
           failed == \E f \in Proxy!Frames(h, broken), s \in Proxy!Range(h.sops) : <<s, f>> \in broken
           final == h.animStart + h.animFrames - 1
           frames == h.animStart .. final
           stops == {f \in frames : \E s \in Proxy!Range(h.sops) : <<s, f>> \in broken}
<1>1. h.animStart \in Int /\ final \in Int /\ h.animStart <= final
  BY DEF ProxyOptions
<1>2. Proxy!Max(frames) = final
  BY <1>1, MaxOfRange
<1>3. Proxy!FrameAfter(h, broken) =
        IF stops = {} THEN Proxy!Max(frames) + 1 ELSE Proxy!Min(stops) + 1
  BY DEF Proxy!FrameAfter
<1>4. broken = {} \/ \E s \in Proxy!Range(h.sops), f \in frames : broken = {<<s, f>>}
  BY DEF Proxy!Broken
<1> DEFINE reach == Proxy!FrameAfter(h, broken) - 1
<1>5. ASSUME reach \in Int, h.animStart <= reach
      PROVE  /\ DOMAIN content = h.animStart .. reach
             /\ Proxy!Max(DOMAIN content) = reach
             /\ \A f \in h.animStart .. reach :
                  content[f] = {s \in Proxy!Range(h.sops) : <<s, f>> \notin broken}
             /\ failed <=> \E f \in h.animStart .. reach, s \in Proxy!Range(h.sops) : <<s, f>> \in broken
  <2>1. Proxy!Frames(h, broken) = h.animStart .. reach
    BY DEF Proxy!Frames
  <2>2. content = [f \in h.animStart .. reach |-> {s \in Proxy!Range(h.sops) : <<s, f>> \notin broken}]
    BY <2>1 DEF Proxy!Contents
  <2>3. Proxy!Max(h.animStart .. reach) = reach
    BY <1>1, <1>5, MaxOfRange
  <2> HIDE DEF content, reach
  <2> QED
    BY <2>1, <2>2, <2>3
<1> HIDE DEF content, failed
<1> SUFFICES LET e == Proxy!Max(DOMAIN content)
             IN /\ h.animStart \in DOMAIN content
                /\ \A f \in DOMAIN content \ {e} : content[f] = Proxy!Range(h.sops)
                /\ ~failed => e = final /\ content[e] = Proxy!Range(h.sops)
                /\ failed => Proxy!Cardinality(Proxy!Range(h.sops) \ content[e]) = 1
  BY DEF content, failed
<1>6. CASE broken = {}
  <2>1. stops = {}
    BY <1>6
  <2>2. reach = final
    BY <2>1, <1>1, <1>2, <1>3
  <2> HIDE DEF reach, final, frames, stops
  <2>3. DOMAIN content = h.animStart .. final /\ Proxy!Max(DOMAIN content) = final
    BY <2>2, <1>5, <1>1
  <2>4. \A f \in h.animStart .. final : content[f] = Proxy!Range(h.sops)
    BY <2>2, <1>5, <1>1, <1>6
  <2>5. ~failed
    BY <2>2, <1>5, <1>1, <1>6
  <2> QED
    BY <2>3, <2>4, <2>5, <1>1
<1>7. CASE \E s \in Proxy!Range(h.sops), f \in frames : broken = {<<s, f>>}
  <2>1. PICK s \in Proxy!Range(h.sops), f \in frames : broken = {<<s, f>>}
    BY <1>7
  <2>2. stops = {f}
    BY <2>1
  <2>3. f \in Int /\ h.animStart <= f
    BY <1>1
  <2>4. reach = f
    <3>1. Proxy!Min(stops) = f
      BY <2>2, <2>3, MinOfOne
    <3> HIDE DEF stops
    <3> QED
      BY <3>1, <2>2, <1>3, <2>3
  <2> HIDE DEF reach, final, frames, stops
  <2>5. DOMAIN content = h.animStart .. f /\ Proxy!Max(DOMAIN content) = f
    BY <2>4, <1>5, <2>3
  <2>6. \A g \in h.animStart .. f : g # f => content[g] = Proxy!Range(h.sops)
    BY <2>4, <1>5, <2>1, <2>3
  <2>7. f \in h.animStart .. f
    BY <2>3, <1>1
  <2>8. Proxy!Range(h.sops) \ content[f] = {s}
    BY <2>4, <1>5, <2>1, <2>3, <2>7
  <2>9. Proxy!Cardinality({s}) = 1
    BY FS_Singleton, SameCardinality
  <2>10. failed
    BY <2>4, <1>5, <2>1, <2>3, <2>7
  <2>11. h.animStart \in DOMAIN content
    BY <2>5, <2>3, <1>1
  <2>12. \A g \in DOMAIN content \ {f} : content[g] = Proxy!Range(h.sops)
    BY <2>5, <2>6
  <2> QED
    BY <2>5, <2>8, <2>9, <2>10, <2>11, <2>12
<1> QED
  BY <1>4, <1>6, <1>7

\* What ProxyIsWhole says of a file.
Whole(o, content, error) ==
  LET final == Proxy!Max(DOMAIN content)
  IN /\ o.animStart \in DOMAIN content
     /\ \A f \in DOMAIN content \ {final} : content[f] = Proxy!Range(o.sops)
     /\ IF error = "none"
        THEN final = o.animStart + o.animFrames - 1 /\ content[final] = Proxy!Range(o.sops)
        ELSE Proxy!Cardinality(Proxy!Range(o.sops) \ content[final]) = 1

LEMMA WholeIs ==
  (proxyResult.written => Whole(proxyResult.options, proxyFiles[proxyResult.file], proxyResult.error))
    => Proxy!ProxyIsWhole
BY DEF Whole, Proxy!ProxyIsWhole

LEMMA ExportIsWhole ==
  ASSUME NEW o, ProxyOptions(o), NEW sops, NEW t, NEW fault,
         NEW broken \in Proxy!Broken([o EXCEPT !.sops = sops]),
         Proxy!DoExport(o, sops, t, broken, fault)
  PROVE  Proxy!ProxyIsWhole'
<1> DEFINE h == [o EXCEPT !.sops = sops]
           out == Proxy!FileOf(h, sops, t)
           content == Proxy!Contents(h, h.sops, broken)
           failed == \E f \in Proxy!Frames(h, broken), s \in Proxy!Range(h.sops) : <<s, f>> \in broken
<1>1. ProxyOptions(h) /\ h.sops = sops
  BY DEF ProxyOptions
<1>2. proxyResult'.written => proxyFiles'[out] = content
  BY <1>1 DEF Proxy!DoExport
<1>3. proxyResult'.options = h /\ proxyResult'.file = out
  BY DEF Proxy!DoExport
<1>4. proxyResult'.written => proxyResult'.error = IF failed THEN "node" ELSE "none"
  BY <1>1 DEF Proxy!DoExport
<1>5. LET e == Proxy!Max(DOMAIN content)
      IN /\ h.animStart \in DOMAIN content
         /\ \A f \in DOMAIN content \ {e} : content[f] = Proxy!Range(h.sops)
         /\ ~failed => e = h.animStart + h.animFrames - 1 /\ content[e] = Proxy!Range(h.sops)
         /\ failed => Proxy!Cardinality(Proxy!Range(h.sops) \ content[e]) = 1
  BY <1>1, OneExport
<1> HIDE DEF h, out, content, failed
<1>6. proxyResult'.written => Whole(proxyResult'.options, proxyFiles'[proxyResult'.file], proxyResult'.error)
  BY <1>2, <1>3, <1>4, <1>5 DEF Whole
<1> QED
  BY <1>6, WholeIs DEF Proxy!ProxyIsWhole, Whole

LEMMA ProxyInit == Proxy!Init => ProxyInv
BY DEF Proxy!Init, ProxyInv, Proxy!ProxyIsWhole

LEMMA ProxyStep ==
  ASSUME ProxyInv, Proxy!CommandsAssumption, Proxy!Next \/ UNCHANGED ProxyVars
  PROVE  ProxyInv'
<1>1. ASSUME NEW c \in ProxyCommands, Proxy!Vrayproxy(c)
      PROVE  ProxyInv'
  <2>1. PICK broken \in Proxy!Broken(Proxy!CmdOptions(c)), fault \in Proxy!Faults :
          Proxy!DoExport(Proxy!CmdOptions(c), c.sops, Proxy!CmdOptions(c).animStart, broken, fault)
    BY <1>1 DEF Proxy!Vrayproxy
  <2>2. ProxyOptions(Proxy!CmdOptions(c))
    BY OptionsOfCmd
  <2>3. broken \in Proxy!Broken([Proxy!CmdOptions(c) EXCEPT !.sops = c.sops])
    <3> DEFINE o == Proxy!CmdOptions(c)
               h == [o EXCEPT !.sops = c.sops]
    <3>1. o.sops = c.sops
      BY DEF Proxy!CmdOptions
    <3> HIDE DEF o
    <3>2. h.sops = o.sops /\ h.animStart = o.animStart /\ h.animFrames = o.animFrames
      BY <2>2, <3>1 DEF ProxyOptions, o
    <3> HIDE DEF h
    <3>3. broken \in Proxy!Broken(o)
      BY <2>1 DEF o
    <3>4. broken \in Proxy!Broken(h)
      BY <3>2, <3>3 DEF Proxy!Broken
    <3> QED
      BY <3>4 DEF o, h
  <2>4. Proxy!ProxyIsWhole'
    BY <2>1, <2>2, <2>3, ExportIsWhole
  <2> QED
    BY <1>1, <2>4 DEF ProxyInv, Proxy!Vrayproxy
<1>2. ASSUME NEW c \in ProxyCommands, Proxy!StartRender(c)
      PROVE  ProxyInv'
  <2>1. rop' = [time |-> c.first, options |-> Proxy!RopOptions(c), at |-> 1] /\ c.by = "rop"
    BY <1>2 DEF Proxy!StartRender
  <2>2. Proxy!ProxyIsWhole'
    BY <1>2 DEF Proxy!StartRender, ProxyInv, Proxy!ProxyIsWhole
  <2> QED
    BY <2>1, <2>2 DEF ProxyInv
<1>3. ASSUME Proxy!RenderFrame
      PROVE  ProxyInv'
  <2>1. PICK c \in ProxyCommands : c.by = "rop" /\ rop.options = Proxy!RopOptions(c)
    BY <1>3 DEF ProxyInv, Proxy!RenderFrame
  <2>2. ProxyOptions(rop.options)
    BY <2>1, OptionsOfRop
  <2> DEFINE sops == IF rop.options.single THEN rop.options.sops ELSE <<rop.options.sops[rop.at]>>
  <2>3. PICK broken \in Proxy!Broken([rop.options EXCEPT !.sops = sops]), fault \in Proxy!Faults :
          Proxy!DoExport(rop.options, sops, rop.time, broken, fault)
    BY <1>3 DEF Proxy!RenderFrame
  <2>4. Proxy!ProxyIsWhole'
    <3> HIDE DEF sops
    <3> QED
      BY <2>2, <2>3, ExportIsWhole
  <2>5. \/ rop' = [rop EXCEPT !.at = @ + 1]
        \/ rop' = Proxy!NoRender
        \/ rop' = [rop EXCEPT !.time = @ + 1, !.at = 1]
    BY <1>3 DEF Proxy!RenderFrame
  <2>6. DOMAIN rop = {"time", "options", "at"}
    BY <1>3 DEF ProxyInv, Proxy!RenderFrame
  <2> QED
    BY <2>1, <2>4, <2>5, <2>6 DEF ProxyInv
<1>4. ASSUME UNCHANGED ProxyVars
      PROVE  ProxyInv'
  BY <1>4 DEF ProxyVars, ProxyInv, Proxy!ProxyIsWhole
<1> QED
  BY <1>1, <1>2, <1>3, <1>4 DEF Proxy!Next

LEMMA ProxyAlways == AllSpec => [](which = "Proxy" => ProxyInv)
<1> DEFINE I == which = "Proxy" => ProxyInv
<1>1. AllInit => I
  BY ProxyInit DEF AllInit
<1>2. I /\ [AllNext]_allVars => I'
  <2> SUFFICES ASSUME I, [AllNext]_allVars, which' = "Proxy" PROVE ProxyInv'
    OBVIOUS
  <2>1. which = "Proxy"
    BY DEF AllNext, allVars
  <2>2. Proxy!Next \/ UNCHANGED ProxyVars
    BY <2>1, ProxyAlone DEF ProxyVars, Proxy!proxyVars
  <2> QED
    BY <2>1, <2>2, ProxyStep, Assumptions DEF Assumptions
<1> QED BY <1>1, <1>2, PTL DEF AllSpec

\* A .vrmesh file that an export has reported on holds what it was asked for, or lacks
\* the one node that was reported, at the frame where the export stopped.
THEOREM ProxiesAreWhole == AllSpec => []ProxyIsWhole
<1>1. (which = "Proxy" => ProxyInv) => ProxyIsWhole
  BY DEF ProxyInv, ProxyIsWhole
<1> QED BY <1>1, ProxyAlways, PTL

-----------------------------------------------------------------------------
(* Shaders, materials and textures (ShaderExport). *)

\* What a socket or a node is found to have: nodes that exist, and wrappers whose
\* names are not those of nodes.
IsName(name) == \E S : name \in Seq(S)
IsWrapper(d) == IsName(d.name) /\ Len(d.name) > 1
Sound(found) ==
  /\ found = [ref |-> found.ref, made |-> found.made, nodes |-> found.nodes]
  /\ IsName(found.ref.name) /\ found.nodes \subseteq shadersAlive
  /\ \A d \in found.made : IsWrapper(d)

\* A node that exists leads to nodes that exist: no other is deleted.
NetworkInv ==
  /\ shadersAlive \subseteq Shading!Nodes /\ DOMAIN link = Shading!Nodes
  /\ \A n \in Shading!Nodes : link[n] \in [DOMAIN Shaders[n].in -> Shading!Connections]
  /\ ShadingMaterials \subseteq shadersAlive /\ Sky \in shadersAlive
  /\ \A n \in Shading!Nodes : Shaders[n].partner \in Shading!Nodes => Shaders[n].partner \in shadersAlive
  /\ \A n \in shadersAlive :
       /\ \A s \in DOMAIN link[n] : link[n][s] # Shading!Unlinked => link[n][s].node \in shadersAlive
       /\ \A path \in Shading!Range(Shaders[n].paths) : path \in Shading!Nodes => path \in shadersAlive

LEMMA Network == Shading!NetworkAssumption
BY Assumptions DEF Assumptions

LEMMA SocketNames ==
  ASSUME NEW socket \in Shading!Sockets
  PROVE  /\ socket[1] \in Shading!Nodes /\ socket[2] \in DOMAIN Shaders[socket[1]].in
         /\ socket = <<socket[1], socket[2]>>
BY DEF Shading!Sockets

LEMMA SocketOf ==
  ASSUME NEW n \in Shading!Nodes, NEW s \in DOMAIN Shaders[n].in
  PROVE  <<n, s>> \in Shading!Sockets
BY DEF Shading!Sockets

LEMMA LongerName ==
  ASSUME NEW name, IsName(name), NEW a, NEW b
  PROVE  IsName(name \o <<a, b>>) /\ Len(name \o <<a, b>>) > 1
<1>1. PICK S : name \in Seq(S)
  BY DEF IsName
<1>2. PICK T : T = S \cup {a, b}
  OBVIOUS
<1>3. name \in Seq(T) /\ <<a, b>> \in Seq(T)
  BY <1>1, <1>2
<1>4. name \o <<a, b>> \in Seq(T) /\ Len(name \o <<a, b>>) = Len(name) + 2 /\ Len(name) \in Nat
  BY <1>3
<1> QED BY <1>4 DEF IsName

LEMMA ShortName ==
  ASSUME NEW a
  PROVE  IsName(<<a>>) /\ Len(<<a>>) = 1
<1>1. PICK name, S : name = <<a>> /\ S = {a}
  OBVIOUS
<1>2. name \in Seq(S) /\ Len(name) = 1
  BY <1>1
<1>3. IsName(name)
  BY <1>2 DEF IsName
<1> QED BY <1>1, <1>2, <1>3

LEMMA NameOfTwo ==
  ASSUME NEW a, NEW b
  PROVE  IsName(<<a, b>>) /\ Len(<<a, b>>) > 1
<1>1. PICK name, S : name = <<a, b>> /\ S = {a, b}
  OBVIOUS
<1>2. name \in Seq(S) /\ Len(name) = 2
  BY <1>1
<1>3. IsName(name)
  BY <1>2 DEF IsName
<1> QED BY <1>1, <1>2, <1>3

LEMMA NameOfThree ==
  ASSUME NEW a, NEW b, NEW c
  PROVE  IsName(<<a, b, c>>) /\ Len(<<a, b, c>>) > 1
<1>1. PICK name, S : name = <<a, b, c>> /\ S = {a, b, c}
  OBVIOUS
<1>2. name \in Seq(S) /\ Len(name) = 3
  BY <1>1
<1>3. IsName(name)
  BY <1>2 DEF IsName
<1> QED BY <1>1, <1>2, <1>3

LEMMA Wrapping ==
  ASSUME NEW r, IsName(r.name), NEW id, NEW s, NEW w, w = Shading!Wrap(r, id, s)
  PROVE  IsName(w.ref.name) /\ \A d \in w.made : IsWrapper(d)
<1>1. PICK long : long = r.name \o <<id, s>>
  OBVIOUS
<1>2. IsName(long) /\ Len(long) > 1
  BY <1>1, LongerName
<1>3. PICK d : d = Shading!Desc(long, [input |-> r])
  OBVIOUS
<1>4. d.name = long
  BY <1>3 DEF Shading!Desc
<1>5. PICK o : o = Shading!Ref(long, "")
  OBVIOUS
<1>6. o.name = long
  BY <1>5 DEF Shading!Ref
<1>7. w = [ref |-> o, made |-> {d}]
  BY <1>1, <1>3, <1>5 DEF Shading!Wrap
<1>8. w.ref = o /\ w.made = {d}
  BY <1>7
<1> QED BY <1>2, <1>4, <1>6, <1>8 DEF IsWrapper

LEMMA Converting ==
  ASSUME NEW r, IsName(r.name), NEW from, NEW to, NEW s, NEW c,
         c = Shading!Converted(r, from, to, s)
  PROVE  IsName(c.ref.name) /\ \A d \in c.made : IsWrapper(d)
<1>1. PICK o : o = Shading!Ref(r.name, Shading!OutputFor[to])
  OBVIOUS
<1>2. \/ c = Shading!Direct(r) \/ c = Shading!Direct(o)
      \/ \E id : c = Shading!Wrap(r, id, s)
  BY <1>1 DEF Shading!Converted
<1>3. IsName(o.name)
  BY <1>1 DEF Shading!Ref
<1>4. ASSUME NEW p, IsName(p.name), c = Shading!Direct(p)
      PROVE  IsName(c.ref.name) /\ \A d \in c.made : IsWrapper(d)
  <2>1. c.ref = p /\ c.made = {}
    BY <1>4 DEF Shading!Direct
  <2> QED BY <1>4, <2>1
<1>5. CASE \E id : c = Shading!Wrap(r, id, s)
  <2>1. PICK id : c = Shading!Wrap(r, id, s)
    BY <1>5
  <2> QED BY <2>1, Wrapping
<1> QED BY <1>2, <1>3, <1>4, <1>5

LEMMA SoundNothing == Sound(Shading!Nothing)
<1>1. PICK r : r = Shading!NoRef
  OBVIOUS
<1>2. r.name = <<>>
  BY <1>1 DEF Shading!NoRef, Shading!Ref
<1>3. IsName(r.name)
  BY <1>2 DEF IsName
<1>4. Shading!Nothing = [ref |-> r, made |-> {}, nodes |-> {}]
  BY <1>1 DEF Shading!Nothing
<1> QED BY <1>3, <1>4 DEF Sound

LEMMA SoundAt ==
  ASSUME NEW n \in shadersAlive, NEW out
  PROVE  Sound(Shading!At(n, out))
<1>1. PICK r : r = Shading!Ref(<<n>>, out)
  OBVIOUS
<1>2. r.name = <<n>>
  BY <1>1 DEF Shading!Ref
<1>3. IsName(r.name)
  BY <1>2, ShortName
<1>4. Shading!At(n, out) = [ref |-> r, made |-> {}, nodes |-> {n}]
  BY <1>1 DEF Shading!At, Shading!NameOf
<1> QED BY <1>3, <1>4 DEF Sound

LEMMA SoundConvert ==
  ASSUME NEW found, Sound(found), NEW c, c.node \in shadersAlive, NEW socket \in Shading!Sockets
  PROVE  Sound(Shading!Convert(found, c, socket))
<1> DEFINE from == Shaders[c.node].out[c.out]
<1> DEFINE to == Shaders[socket[1]].in[socket[2]]
<1>1. PICK conv : conv = Shading!Converted(found.ref, from, to, socket[2])
  OBVIOUS
<1>2. IsName(conv.ref.name) /\ \A d \in conv.made : IsWrapper(d)
  BY <1>1, Converting DEF Sound
<1>3. Shading!Convert(found, c, socket) = [ref |-> conv.ref, made |-> found.made \cup conv.made,
                                           nodes |-> found.nodes \cup {c.node}]
  BY <1>1 DEF Shading!Convert
<1> QED BY <1>2, <1>3 DEF Sound

LEMMA SoundOr ==
  ASSUME NEW found, NEW onto, Sound(onto)
  PROVE  Sound(Shading!OrNothing(found, onto))
BY SoundNothing DEF Shading!OrNothing

\* A connection of a socket, and where a subnet behind it goes on.
LEMMA Followed ==
  ASSUME NetworkInv, NEW socket \in Shading!Sockets, socket[1] \in shadersAlive,
         NEW c, c = link[socket[1]][socket[2]], c # Shading!Unlinked
  PROVE  /\ c.node \in shadersAlive
         /\ Shading!Kind(c.node) \in {"subnet", "subinput"} =>
              Shading!Continued(c) \in Shading!Sockets /\ Shading!Continued(c)[1] \in shadersAlive
<1>1. socket[1] \in Shading!Nodes /\ socket[2] \in DOMAIN Shaders[socket[1]].in
  BY SocketNames
<1>2. link[socket[1]] \in [DOMAIN Shaders[socket[1]].in -> Shading!Connections]
  BY <1>1 DEF NetworkInv
<1>3. c \in Shading!Connections /\ socket[2] \in DOMAIN link[socket[1]]
  BY <1>1, <1>2
<1>4. c.node \in shadersAlive /\ c.node \in Shading!Nodes
  BY <1>3 DEF NetworkInv
<1>5. CASE Shading!Kind(c.node) \in {"subnet", "subinput"}
  <2>1. Shading!Continued(c) \in Shading!Sockets
    BY <1>3, <1>5 DEF Shading!Connections
  <2>2. Shading!Continued(c)[1] = Shaders[c.node].partner
    BY DEF Shading!Continued
  <2>3. Shaders[c.node].partner \in Shading!Nodes
    BY <2>1, <2>2, SocketNames
  <2>4. Shaders[c.node].partner \in shadersAlive
    BY <2>3, <1>4 DEF NetworkInv
  <2> QED BY <1>4, <2>1, <2>2, <2>4
<1> QED BY <1>4, <1>5

LEMMA SoundThrough ==
  ASSUME NetworkInv, NEW linked, NEW socket \in Shading!Sockets, socket[1] \in shadersAlive,
         \A to \in Shading!Sockets : to[1] \in shadersAlive => Sound(linked[to])
  PROVE  Sound(Shading!Through(linked)[socket])
<1>1. PICK c : c = link[socket[1]][socket[2]]
  OBVIOUS
<1>2. PICK direct : direct = Shading!At(c.node, c.out)
  OBVIOUS
<1>3. PICK behind : behind = linked[Shading!Continued(c)]
  OBVIOUS
<1>4. PICK t : t = Shading!Through(linked)[socket]
  OBVIOUS
<1>0. t = CASE c # Shading!Unlinked /\ Shading!Kind(c.node) \in Shading!PluginKinds ->
                 Shading!Convert(direct, c, socket)
            [] c # Shading!Unlinked /\ Shading!Kind(c.node) \in {"subnet", "subinput"} ->
                 Shading!OrNothing(behind, Shading!Convert(behind, c, socket))
            [] OTHER -> Shading!Nothing
  BY <1>1, <1>2, <1>3, <1>4 DEF Shading!Through
<1>5. \/ c # Shading!Unlinked /\ t = Shading!Convert(direct, c, socket)
      \/ /\ c # Shading!Unlinked /\ Shading!Kind(c.node) \in {"subnet", "subinput"}
         /\ t = Shading!OrNothing(behind, Shading!Convert(behind, c, socket))
      \/ t = Shading!Nothing
  BY <1>0
<1>6. CASE c # Shading!Unlinked /\ t = Shading!Convert(direct, c, socket)
  <2>1. c.node \in shadersAlive
    BY <1>1, <1>6, Followed
  <2>2. Sound(direct)
    BY <1>2, <2>1, SoundAt DEF NetworkInv
  <2>3. Sound(t)
    BY <1>6, <2>1, <2>2, SoundConvert
  <2> QED BY <1>4, <2>3
<1>7. CASE /\ c # Shading!Unlinked /\ Shading!Kind(c.node) \in {"subnet", "subinput"}
           /\ t = Shading!OrNothing(behind, Shading!Convert(behind, c, socket))
  <2>1. c.node \in shadersAlive /\ Sound(behind)
    BY <1>1, <1>3, <1>7, Followed
  <2>2. PICK onto : onto = Shading!Convert(behind, c, socket)
    OBVIOUS
  <2>3. Sound(onto)
    BY <2>1, <2>2, SoundConvert
  <2>4. Sound(t)
    BY <1>7, <2>2, <2>3, SoundOr
  <2> QED BY <1>4, <2>4
<1>8. CASE t = Shading!Nothing
  BY <1>4, <1>8, SoundNothing
<1> QED BY <1>5, <1>6, <1>7, <1>8

\* The loop over the sockets behind so many subnets, as far as n.
IsPath(f, n) ==
  f = [hops \in 0 .. n |-> IF hops = 0 THEN [socket \in Shading!Sockets |-> Shading!Nothing] ELSE Shading!Through(f[hops - 1])]

LEMMA PathExists ==
  ASSUME NEW n \in Nat
  PROVE  \E f : IsPath(f, n)
<1> DEFINE S == {m \in Nat : \E f : IsPath(f, m)}
<1>1. 0 \in S
  <2> DEFINE f == [hops \in 0 .. 0 |-> [socket \in Shading!Sockets |-> Shading!Nothing]]
  <2>1. IsPath(f, 0)
    BY DEF IsPath
  <2> QED BY <2>1
<1>2. ASSUME NEW m \in Nat, m \in S PROVE m + 1 \in S
  <2>1. PICK f : IsPath(f, m)
    BY <1>2
  <2>2. PICK further : further = Shading!Through(f[m])
    OBVIOUS
  <2> DEFINE g == [hops \in 0 .. m + 1 |-> IF hops = m + 1 THEN further ELSE f[hops]]
  <2>3. f[0] = [socket \in Shading!Sockets |-> Shading!Nothing] /\ \A hops \in 1 .. m : f[hops] = Shading!Through(f[hops - 1])
    BY <2>1 DEF IsPath
  <2>4. g[m + 1] = further /\ \A hops \in 0 .. m : g[hops] = f[hops]
    OBVIOUS
  <2>5. g = [hops \in 0 .. m + 1 |-> g[hops]]
    OBVIOUS
  <2> HIDE DEF g
  <2>6. ASSUME NEW hops \in 1 .. m + 1 PROVE g[hops] = Shading!Through(g[hops - 1])
    <3>1. CASE hops = m + 1
      <4>1. g[hops - 1] = f[m]
        BY <3>1, <2>4
      <4> QED BY <3>1, <4>1, <2>2, <2>4
    <3>2. CASE hops \in 1 .. m
      <4>1. hops \in 0 .. m /\ hops - 1 \in 0 .. m
        BY <3>2
      <4>2. g[hops] = f[hops] /\ g[hops - 1] = f[hops - 1]
        BY <4>1, <2>4
      <4> QED BY <4>2, <3>2, <2>3
    <3> QED BY <3>1, <3>2
  <2>7. g[0] = [socket \in Shading!Sockets |-> Shading!Nothing]
    BY <2>3, <2>4
  <2> DEFINE h == [hops \in 0 .. m + 1 |-> IF hops = 0 THEN [socket \in Shading!Sockets |-> Shading!Nothing] ELSE Shading!Through(g[hops - 1])]
  <2>8. ASSUME NEW hops \in 0 .. m + 1 PROVE g[hops] = h[hops]
    <3>1. CASE hops = 0
      BY <3>1, <2>7
    <3>2. CASE hops \in 1 .. m + 1
      <4>1. hops # 0
        BY <3>2
      <4>2. h[hops] = Shading!Through(g[hops - 1])
        BY <4>1
      <4> QED BY <3>2, <4>2, <2>6
    <3> QED BY <3>1, <3>2
  <2>9. h = [hops \in 0 .. m + 1 |-> h[hops]]
    OBVIOUS
  <2> HIDE DEF h
  <2>10. g = h
    BY <2>5, <2>8, <2>9
  <2>11. IsPath(g, m + 1)
    BY <2>10 DEF h, IsPath
  <2> QED BY <2>11
<1> HIDE DEF S
<1>3. Nat \subseteq S
  BY <1>1, <1>2, Induction
<1> QED BY <1>3 DEF S

LEMMA Finite ==
  Shading!Cardinality(Shading!Sockets) \in Nat /\ Shading!Cardinality(Shading!Nodes) \in Nat
<1>1. \A S : Shading!IsFiniteSet(S) <=> IsFiniteSet(S)
  BY DEF Shading!IsFiniteSet, IsFiniteSet
<1>2. \A S : Shading!Cardinality(S) = Cardinality(S)
  BY DEF Shading!Cardinality, Cardinality
<1>3. IsFiniteSet(Shading!Sockets) /\ IsFiniteSet(Shading!Nodes)
  BY <1>1, Network DEF Shading!NetworkAssumption
<1> QED BY <1>2, <1>3, FS_CardinalityType

LEMMA SoundLinked ==
  ASSUME NetworkInv, NEW socket \in Shading!Sockets, socket[1] \in shadersAlive
  PROVE  Sound(Shading!Linked[socket])
<1>1. PICK n : n = Shading!Cardinality(Shading!Sockets)
  OBVIOUS
<1>2. n \in Nat
  BY <1>1, Finite
<1>3. PICK f : f = CHOOSE g : IsPath(g, n)
  OBVIOUS
<1>4. IsPath(f, n)
  BY <1>2, <1>3, PathExists
<1>5. Shading!Linked = f[n]
  BY <1>1, <1>3 DEF Shading!Linked, Shading!LinkedWithin, Shading!Hops, IsPath
<1> DEFINE S == {m \in Nat : m <= n => \A to \in Shading!Sockets : to[1] \in shadersAlive => Sound(f[m][to])}
<1>6. 0 \in S
  <2>1. f[0] = [to \in Shading!Sockets |-> Shading!Nothing]
    BY <1>2, <1>4 DEF IsPath
  <2> QED BY <2>1, SoundNothing
<1>7. ASSUME NEW m \in Nat, m \in S PROVE m + 1 \in S
  <2> SUFFICES ASSUME m + 1 <= n, NEW to \in Shading!Sockets, to[1] \in shadersAlive
               PROVE  Sound(f[m + 1][to])
    OBVIOUS
  <2>1. f[m + 1] = Shading!Through(f[m])
    <3>1. m + 1 \in 0 .. n /\ m + 1 # 0 /\ (m + 1) - 1 = m
      BY <1>2
    <3> QED BY <3>1, <1>4 DEF IsPath
  <2>2. \A from \in Shading!Sockets : from[1] \in shadersAlive => Sound(f[m][from])
    BY <1>7, <1>2
  <2>3. PICK linked : linked = f[m]
    OBVIOUS
  <2>4. Sound(Shading!Through(linked)[to])
    BY <2>2, <2>3, SoundThrough
  <2> QED BY <2>1, <2>3, <2>4
<1> HIDE DEF S
<1>8. Nat \subseteq S
  BY <1>6, <1>7, Induction
<1>9. n \in S
  BY <1>2, <1>8
<1> QED BY <1>5, <1>9, <1>2 DEF S

LEMMA SoundWith ==
  ASSUME NEW found, Sound(found), NEW n \in shadersAlive
  PROVE  Sound(Shading!WithOutput(found, {n}))
<1>1. PICK more : more = [found EXCEPT !.nodes = @ \cup {n}]
  OBVIOUS
<1>2. more = [ref |-> found.ref, made |-> found.made, nodes |-> found.nodes \cup {n}]
  BY <1>1 DEF Sound
<1>3. Sound(more)
  BY <1>2 DEF Sound
<1>4. Shading!WithOutput(found, {n}) = Shading!OrNothing(found, more)
  BY <1>1 DEF Shading!WithOutput
<1> QED BY <1>3, <1>4, SoundOr

LEMMA SoundTopLevel ==
  ASSUME NetworkInv, NEW n \in shadersAlive
  PROVE  Sound(Shading!TopLevel(n))
<1>1. n \in Shading!Nodes
  BY DEF NetworkInv
<1>2. PICK output : output = <<Shaders[n].partner, "Material">>
  OBVIOUS
<1>3. PICK own : own = <<n, "Material">>
  OBVIOUS
<1>4. PICK t : t = Shading!TopLevel(n)
  OBVIOUS
<1>5. PICK found : found = Shading!Linked[own]
  OBVIOUS
<1>0. PICK at, top : at = Shading!At(n, "") /\ top = Shading!Linked[output]
  OBVIOUS
<1>12. PICK c, switched : c = link[n][Shading!Selected(n)] /\ switched = Shading!Switched(c)
  OBVIOUS
<1>6. t = CASE Shading!Kind(n) \in Shading!PluginKinds -> at
            [] Shading!Kind(n) = "builder"             -> top
            [] Shading!Kind(n) = "matoutput"           -> Shading!WithOutput(found, {n})
            [] Shading!Kind(n) \in {"null", "switch"}  -> Shading!WithOutput(switched, {n})
            [] OTHER                                   -> Shading!Nothing
  BY <1>0, <1>2, <1>3, <1>4, <1>5, <1>12 DEF Shading!TopLevel
<1>7. \/ t = at
      \/ Shading!Kind(n) = "builder" /\ t = top
      \/ Shading!Kind(n) = "matoutput" /\ t = Shading!WithOutput(found, {n})
      \/ Shading!Kind(n) \in {"null", "switch"} /\ t = Shading!WithOutput(switched, {n})
      \/ t = Shading!Nothing
  BY <1>6
<1>8. CASE t = at
  <2>1. Sound(at)
    BY <1>0, SoundAt
  <2> QED BY <1>4, <1>8, <2>1
<1>9. CASE Shading!Kind(n) = "builder" /\ t = top
  <2>1. output \in Shading!Sockets
    BY <1>1, <1>2, <1>9, Network DEF Shading!NetworkAssumption
  <2>2. output[1] \in shadersAlive
    BY <1>1, <1>2, <2>1, SocketNames DEF NetworkInv
  <2>3. Sound(top)
    BY <1>0, <2>1, <2>2, SoundLinked
  <2> QED BY <1>4, <1>9, <2>3
<1>10. CASE Shading!Kind(n) = "matoutput" /\ t = Shading!WithOutput(found, {n})
  <2>1. own \in Shading!Sockets
    BY <1>1, <1>3, <1>10, Network DEF Shading!NetworkAssumption
  <2>2. Sound(found)
    BY <1>3, <1>5, <2>1, SoundLinked
  <2> QED BY <1>4, <1>10, <2>2, SoundWith
<1>11. CASE t = Shading!Nothing
  BY <1>4, <1>11, SoundNothing
<1>13. CASE Shading!Kind(n) \in {"null", "switch"} /\ t = Shading!WithOutput(switched, {n})
  <2>1. PICK socket : socket = <<n, Shading!Selected(n)>>
    OBVIOUS
  <2>2. socket \in Shading!Sockets
    <3>1. \/ Shading!Selected(n) = "input1"
          \/ Shading!Kind(n) = "switch" /\ Shading!Selected(n) = "input2"
      BY DEF Shading!Selected
    <3>2. PICK one, two : one = <<n, "input1">> /\ two = <<n, "input2">>
      OBVIOUS
    <3>3. Shading!Kind(n) \in {"null", "switch"} => one \in Shading!Sockets
      BY <1>1, <3>2, Network DEF Shading!NetworkAssumption
    <3>4. Shading!Kind(n) = "switch" => two \in Shading!Sockets
      BY <1>1, <3>2, Network DEF Shading!NetworkAssumption
    <3>5. \/ socket = one
          \/ Shading!Kind(n) = "switch" /\ socket = two
      BY <2>1, <3>1, <3>2
    <3> QED BY <1>13, <3>3, <3>4, <3>5
  <2>3. socket[1] \in shadersAlive /\ c = link[socket[1]][socket[2]]
    BY <1>12, <2>1
  <2>4. Sound(switched)
    <3>1. CASE c = Shading!Unlinked
      BY <1>12, <3>1, SoundNothing DEF Shading!Switched
    <3>2. CASE c # Shading!Unlinked
      <4>1. c.node \in shadersAlive
        BY <2>2, <2>3, <3>2, Followed
      <4>2. PICK to : to = Shading!At(c.node, "")
        OBVIOUS
      <4>3. Sound(to)
        BY <4>1, <4>2, SoundAt
      <4>4. switched = to \/ switched = Shading!Nothing
        BY <1>12, <4>2 DEF Shading!Switched
      <4> QED BY <4>3, <4>4, SoundNothing
    <3> QED BY <3>1, <3>2
  <2> QED BY <1>4, <1>13, <2>4, SoundWith
<1> QED BY <1>7, <1>8, <1>9, <1>10, <1>11, <1>13

\* A plugin with a name of its own, and what is made for it.
LEMMA SoundRecord ==
  ASSUME NEW r, IsName(r.name), NEW made, \A d \in made : IsWrapper(d),
         NEW found, found = [ref |-> r, made |-> made, nodes |-> {}]
  PROVE  Sound(found)
BY DEF Sound

LEMMA RefName ==
  ASSUME NEW name, NEW out, NEW r, r = Shading!Ref(name, out)
  PROVE  r.name = name
BY DEF Shading!Ref

LEMMA DescName ==
  ASSUME NEW name, NEW attrs, NEW d, d = Shading!Desc(name, attrs)
  PROVE  d.name = name
BY DEF Shading!Desc

LEMMA SoundAtPath ==
  ASSUME NetworkInv, NEW n \in shadersAlive, NEW s \in DOMAIN Shaders[n].paths
  PROVE  Sound(Shading!AtPath(n, s))
<1>1. PICK path : path = Shaders[n].paths[s]
  OBVIOUS
<1>2. PICK a : a = Shading!AtPath(n, s)
  OBVIOUS
<1>3. PICK r : r = Shading!Ref(<<path, "TexBitmap">>, "")
  OBVIOUS
<1>4. PICK d : d = Shading!Desc(<<path, "TexBitmap">>, <<>>)
  OBVIOUS
<1>5. a = IF path \in Shading!Nodes THEN Shading!TopLevel(path)
          ELSE [ref |-> r, made |-> {d}, nodes |-> {}]
  BY <1>1, <1>2, <1>3, <1>4 DEF Shading!AtPath, Shading!File
<1>7. CASE path \in Shading!Nodes
  <2>1. path \in Shading!Range(Shaders[n].paths)
    BY <1>1 DEF Shading!Range
  <2>2. path \in shadersAlive
    BY <1>7, <2>1 DEF NetworkInv
  <2>3. Sound(Shading!TopLevel(path))
    BY <2>2, SoundTopLevel
  <2> QED BY <1>2, <1>5, <1>7, <2>3
<1>8. CASE path \notin Shading!Nodes
  <2>1. PICK made : made = {d}
    OBVIOUS
  <2>2. r.name = <<path, "TexBitmap">> /\ d.name = <<path, "TexBitmap">>
    BY <1>3, <1>4, RefName, DescName
  <2>3. IsName(r.name) /\ IsWrapper(d)
    BY <2>2, NameOfTwo DEF IsWrapper
  <2>4. a = [ref |-> r, made |-> made, nodes |-> {}]
    BY <1>5, <1>8, <2>1
  <2> QED BY <1>2, <2>1, <2>3, <2>4, SoundRecord
<1> QED BY <1>7, <1>8

LEMMA SoundOnly ==
  ASSUME NEW r, IsName(r.name)
  PROVE  Sound(Shading!Only(r))
<1>1. PICK none : none = {}
  OBVIOUS
<1>2. PICK only : only = [ref |-> r, made |-> none, nodes |-> {}]
  OBVIOUS
<1>3. Shading!Only(r) = only
  BY <1>1, <1>2 DEF Shading!Only, Shading!Nothing
<1>4. Sound(only)
  BY <1>1, <1>2, SoundRecord
<1> QED BY <1>3, <1>4

LEMMA SoundValue ==
  ASSUME NEW n
  PROVE  Sound(Shading!Only(Shading!Value(n)))
<1>1. PICK r : r = Shading!Value(n)
  OBVIOUS
<1>2. r.name = <<n, "value">>
  BY <1>1, RefName DEF Shading!Value
<1>3. IsName(r.name)
  BY <1>2, NameOfTwo
<1> QED BY <1>1, <1>3, SoundOnly

LEMMA SoundOwn ==
  ASSUME NetworkInv, NEW n \in shadersAlive, NEW s
  PROVE  Sound(Shading!Own(n, s))
<1>1. PICK own, path, value : /\ own = Shading!Own(n, s) /\ path = Shading!AtPath(n, s)
                              /\ value = Shading!Only(Shading!Value(n))
  OBVIOUS
<1>2. \/ s \in DOMAIN Shaders[n].paths /\ own = path
      \/ own = Shading!Nothing \/ own = value
  BY <1>1 DEF Shading!Own
<1>3. s \in DOMAIN Shaders[n].paths => Sound(path)
  BY <1>1, SoundAtPath
<1>4. Sound(value)
  BY <1>1, SoundValue
<1> QED BY <1>1, <1>2, <1>3, <1>4, SoundNothing

LEMMA SoundMore ==
  ASSUME NEW found, Sound(found), NEW more, \A d \in more : IsWrapper(d)
  PROVE  Sound([found EXCEPT !.made = @ \cup more])
<1>1. PICK f : f = [found EXCEPT !.made = @ \cup more]
  OBVIOUS
<1>2. f = [ref |-> found.ref, made |-> found.made \cup more, nodes |-> found.nodes]
  BY <1>1 DEF Sound
<1>3. Sound(f)
  BY <1>2 DEF Sound
<1> QED BY <1>1, <1>3

\* The user texture that is made of a parameter's value has a name of its own.
LEMMA DefaultWraps ==
  ASSUME NEW n, NEW s, NEW p
  PROVE  /\ IsName(Shading!UserTexture(n, s).name)
         /\ \A d \in Shading!Default(n, s, p) : IsWrapper(d)
<1>1. PICK user, value : user = Shading!UserTexture(n, s) /\ value = Shading!Value(Shaders[p].partner)
  OBVIOUS
<1>2. PICK d : d = Shading!Desc(user.name, [default |-> value])
  OBVIOUS
<1>3. user.name = <<n, s, "TexUser">> /\ d.name = user.name
  BY <1>1, <1>2, RefName, DescName DEF Shading!UserTexture
<1>4. IsName(user.name) /\ Len(user.name) > 1
  BY <1>3, NameOfThree
<1>5. IsWrapper(d)
  BY <1>3, <1>4 DEF IsWrapper
<1>6. Shading!Default(n, s, p) = {d}
  BY <1>1, <1>2 DEF Shading!Default
<1> QED BY <1>1, <1>4, <1>5, <1>6

LEMMA SoundParameter ==
  ASSUME NetworkInv, NEW n \in shadersAlive, NEW s, NEW p \in shadersAlive
  PROVE  Sound(Shading!FromParameter(n, s, p))
<1>1. PICK made, own, path, user :
        /\ made = Shading!Default(n, s, p) /\ own = Shading!Own(n, s)
        /\ path = Shading!AtPath(p, "value") /\ user = Shading!Only(Shading!UserTexture(n, s))
  OBVIOUS
<1>2. PICK value, found : value = Shading!Only(Shading!Value(Shaders[p].partner))
                          /\ found = Shading!FromParameter(n, s, p)
  OBVIOUS
<1>3. \A d \in made : IsWrapper(d)
  BY <1>1, DefaultWraps
<1>4. Sound(own) /\ Sound(user) /\ Sound(value)
  <2>1. PICK r : r = Shading!UserTexture(n, s)
    OBVIOUS
  <2>2. IsName(r.name)
    BY <2>1, DefaultWraps
  <2>3. Sound(user)
    BY <1>1, <2>1, <2>2, SoundOnly
  <2>4. Sound(own) /\ Sound(value)
    BY <1>1, <1>2, SoundOwn, SoundValue
  <2> QED BY <2>3, <2>4
<1>5. PICK colour, other : /\ colour = [user EXCEPT !.made = made]
                           /\ other = [own EXCEPT !.made = @ \cup made]
  OBVIOUS
<1>6. Sound(other)
  BY <1>3, <1>4, <1>5, SoundMore
<1>7. Sound(colour)
  <2>1. colour = [ref |-> user.ref, made |-> made, nodes |-> user.nodes]
    BY <1>4, <1>5 DEF Sound
  <2> QED BY <1>3, <1>4, <2>1 DEF Sound
<1>8. \/ "value" \in DOMAIN Shaders[p].paths /\ found = Shading!OrElse(path, own)
      \/ found = value \/ found = colour \/ found = other
  BY <1>1, <1>2, <1>5 DEF Shading!FromParameter
<1>9. "value" \in DOMAIN Shaders[p].paths => Sound(path)
  BY <1>1, SoundAtPath
<1>10. Sound(found)
  <2>1. CASE "value" \in DOMAIN Shaders[p].paths /\ found = Shading!OrElse(path, own)
    <3>1. found = path \/ found = own
      BY <2>1 DEF Shading!OrElse
    <3> QED BY <1>4, <1>9, <2>1, <3>1
  <2> QED BY <1>4, <1>6, <1>7, <1>8, <2>1
<1> QED BY <1>2, <1>10

LEMMA SoundUnconnected ==
  ASSUME NetworkInv, NEW n \in shadersAlive, NEW s \in DOMAIN Shaders[n].in
  PROVE  Sound(Shading!Unconnected(n, s))
<1>1. PICK u, c : u = Shading!Unconnected(n, s) /\ c = link[n][s]
  OBVIOUS
<1>2. PICK r : r = Shading!Ref(<<n, "DefaultUVWGen">>, "")
  OBVIOUS
<1>3. PICK mapping, transform : /\ mapping = Shading!Only(r)
                                /\ transform = Shading!Only(Shading!Value(c.node))
  OBVIOUS
<1>4. PICK own, given : own = Shading!Own(n, s) /\ given = Shading!FromParameter(n, s, c.node)
  OBVIOUS
<1>5. \/ u = mapping \/ u = transform \/ u = own
      \/ Shading!LinkedTo(n, s, "parameter") /\ u = given
  BY <1>1, <1>2, <1>3, <1>4 DEF Shading!Unconnected
<1>6. Sound(mapping)
  <2>1. r.name = <<n, "DefaultUVWGen">>
    BY <1>2, RefName
  <2>2. IsName(r.name)
    BY <2>1, NameOfTwo
  <2> QED BY <1>3, <2>2, SoundOnly
<1>7. Sound(transform) /\ Sound(own)
  BY <1>3, <1>4, SoundValue, SoundOwn
<1>8. ASSUME Shading!LinkedTo(n, s, "parameter")
      PROVE  Sound(given)
  <2>1. c # Shading!Unlinked
    BY <1>1, <1>8 DEF Shading!LinkedTo
  <2>2. PICK socket : socket = <<n, s>>
    OBVIOUS
  <2>3. socket \in Shading!Sockets /\ socket[1] \in shadersAlive /\ c = link[socket[1]][socket[2]]
    BY <1>1, <2>2, SocketOf DEF NetworkInv
  <2>4. c.node \in shadersAlive
    BY <2>1, <2>3, Followed
  <2> QED BY <1>4, <2>4, SoundParameter
<1>9. Sound(u)
  BY <1>5, <1>6, <1>7, <1>8
<1> QED BY <1>1, <1>9

LEMMA SoundInput ==
  ASSUME NetworkInv, NEW n \in shadersAlive, NEW s \in DOMAIN Shaders[n].in
  PROVE  Sound(Shading!Input(n, s))
<1>1. PICK socket : socket = <<n, s>>
  OBVIOUS
<1>2. socket \in Shading!Sockets /\ socket[1] \in shadersAlive
  BY <1>1, SocketOf DEF NetworkInv
<1>3. PICK linked : linked = Shading!Linked[socket]
  OBVIOUS
<1>4. PICK own : own = Shading!Unconnected(n, s)
  OBVIOUS
<1>5. Sound(linked) /\ Sound(own)
  BY <1>2, <1>3, <1>4, SoundLinked, SoundUnconnected
<1>6. Shading!Input(n, s) = IF linked.ref = Shading!NoRef THEN own ELSE linked
  BY <1>1, <1>3, <1>4 DEF Shading!Input
<1> QED BY <1>5, <1>6

\* A node leads to nodes that exist, and what is made for it has its name, or is a
\* wrapper.
LEMMA LeadsTo ==
  ASSUME NetworkInv, NEW n \in shadersAlive
  PROVE  /\ Shading!Successors(n) \subseteq shadersAlive
         /\ \A d \in Shading!PluginsOf(n) : d.name = <<n>> \/ IsWrapper(d)
         /\ \E d \in Shading!PluginsOf(n) : d.name = <<n>>
<1>1. PICK inputs : inputs = Shading!Inputs(n)
  OBVIOUS
<1>2. \A i \in Shading!Range(inputs) : \E s \in DOMAIN Shaders[n].in : i = Shading!Input(n, s)
  <2>1. inputs = [s \in DOMAIN Shaders[n].in |-> Shading!Input(n, s)]
    BY <1>1 DEF Shading!Inputs
  <2>2. \A i \in Shading!Range(inputs) : \E s \in DOMAIN inputs : i = inputs[s]
    BY DEF Shading!Range
  <2> QED BY <2>1, <2>2
<1>3. \A i \in Shading!Range(inputs) : Sound(i)
  BY <1>2, SoundInput
<1>4. \A i \in Shading!Range(inputs) : i.nodes \subseteq shadersAlive /\ \A d \in i.made : IsWrapper(d)
  BY <1>3 DEF Sound
<1>5. Shading!Successors(n) \subseteq UNION {i.nodes : i \in Shading!Range(inputs)}
  BY <1>1 DEF Shading!Successors
<1>6. PICK own : own = Shading!OwnPlugin(n, inputs)
  OBVIOUS
<1>7. PICK wrappers : wrappers = Shading!MadeFor(inputs)
  OBVIOUS
<1>8. own.name = <<n>>
  BY <1>6, DescName DEF Shading!OwnPlugin, Shading!NameOf
<1>9. Shading!Successors(n) \subseteq shadersAlive
  BY <1>4, <1>5
<1>10. Shading!PluginsOf(n) = wrappers \cup {own}
  BY <1>1, <1>6, <1>7 DEF Shading!PluginsOf, Shading!PluginsFor
<1>11. \A d \in wrappers : \E i \in Shading!Range(inputs) : d \in i.made
  BY <1>7 DEF Shading!MadeFor
<1>12. \A d \in wrappers : IsWrapper(d)
  BY <1>4, <1>11
<1> QED BY <1>8, <1>9, <1>10, <1>12

\* The loop over the nodes met on so long paths, as far as n.
IsReach(f, kept, n) ==
  f = [hops \in 0 .. n |-> IF hops = 0 THEN [node \in Shading!Nodes |-> {node}] ELSE Shading!Onward(f[hops - 1], kept)]

LEMMA ReachExists ==
  ASSUME NEW kept, NEW n \in Nat
  PROVE  \E f : IsReach(f, kept, n)
<1> DEFINE S == {m \in Nat : \E f : IsReach(f, kept, m)}
<1>1. 0 \in S
  <2> DEFINE f == [hops \in 0 .. 0 |-> [node \in Shading!Nodes |-> {node}]]
  <2>1. IsReach(f, kept, 0)
    BY DEF IsReach
  <2> QED BY <2>1
<1>2. ASSUME NEW m \in Nat, m \in S PROVE m + 1 \in S
  <2>1. PICK f : IsReach(f, kept, m)
    BY <1>2
  <2>2. PICK further : further = Shading!Onward(f[m], kept)
    OBVIOUS
  <2> DEFINE g == [hops \in 0 .. m + 1 |-> IF hops = m + 1 THEN further ELSE f[hops]]
  <2>3. f[0] = [node \in Shading!Nodes |-> {node}] /\ \A hops \in 1 .. m : f[hops] = Shading!Onward(f[hops - 1], kept)
    <3>1. 0 \in 0 .. m /\ \A hops \in 1 .. m : hops \in 0 .. m /\ hops # 0
      OBVIOUS
    <3>2. \A hops \in 0 .. m : f[hops] = IF hops = 0 THEN [node \in Shading!Nodes |-> {node}]
                                         ELSE Shading!Onward(f[hops - 1], kept)
      BY <2>1 DEF IsReach
    <3> QED BY <3>1, <3>2
  <2>4. g[m + 1] = further /\ \A hops \in 0 .. m : g[hops] = f[hops]
    OBVIOUS
  <2>5. g = [hops \in 0 .. m + 1 |-> g[hops]]
    OBVIOUS
  <2> HIDE DEF g
  <2>6. ASSUME NEW hops \in 1 .. m + 1 PROVE g[hops] = Shading!Onward(g[hops - 1], kept)
    <3>1. CASE hops = m + 1
      <4>1. g[hops - 1] = f[m]
        BY <3>1, <2>4
      <4> QED BY <3>1, <4>1, <2>2, <2>4
    <3>2. CASE hops \in 1 .. m
      <4>1. hops \in 0 .. m /\ hops - 1 \in 0 .. m
        BY <3>2
      <4>2. g[hops] = f[hops] /\ g[hops - 1] = f[hops - 1]
        BY <4>1, <2>4
      <4> QED BY <4>2, <3>2, <2>3
    <3> QED BY <3>1, <3>2
  <2>7. g[0] = [node \in Shading!Nodes |-> {node}]
    BY <2>3, <2>4
  <2> DEFINE h == [hops \in 0 .. m + 1 |-> IF hops = 0 THEN [node \in Shading!Nodes |-> {node}] ELSE Shading!Onward(g[hops - 1], kept)]
  <2>8. ASSUME NEW hops \in 0 .. m + 1 PROVE g[hops] = h[hops]
    <3>1. CASE hops = 0
      BY <3>1, <2>7
    <3>2. CASE hops \in 1 .. m + 1
      <4>1. hops # 0
        BY <3>2
      <4>2. h[hops] = Shading!Onward(g[hops - 1], kept)
        BY <4>1
      <4> QED BY <3>2, <4>2, <2>6
    <3> QED BY <3>1, <3>2
  <2>9. h = [hops \in 0 .. m + 1 |-> h[hops]]
    OBVIOUS
  <2> HIDE DEF h
  <2>10. g = h
    BY <2>5, <2>8, <2>9
  <2>11. IsReach(g, kept, m + 1)
    BY <2>10 DEF h, IsReach
  <2> QED BY <2>11
<1> HIDE DEF S
<1>3. Nat \subseteq S
  BY <1>1, <1>2, Induction
<1> QED BY <1>3 DEF S

\* An export from nodes that exist meets nodes that exist.
LEMMA MetExist ==
  ASSUME NetworkInv, NEW from, from \subseteq shadersAlive, NEW kept
  PROVE  Shading!Met(from, kept) \subseteq shadersAlive
<1>1. PICK n : n = Shading!Cardinality(Shading!Nodes)
  OBVIOUS
<1>2. n \in Nat
  BY <1>1, Finite
<1>3. PICK f : f = CHOOSE g : IsReach(g, kept, n)
  OBVIOUS
<1>4. IsReach(f, kept, n)
  BY <1>2, <1>3, ReachExists
<1>5. Shading!Met(from, kept) = UNION {f[n][node] : node \in from}
  BY <1>1, <1>3 DEF Shading!Met, IsReach
<1> DEFINE S == {m \in Nat : m <= n => \A node \in shadersAlive : f[m][node] \subseteq shadersAlive}
<1>6. 0 \in S
  <2>1. f[0] = [node \in Shading!Nodes |-> {node}]
    BY <1>2, <1>4 DEF IsReach
  <2>2. \A node \in shadersAlive : f[0][node] = {node}
    BY <2>1 DEF NetworkInv
  <2> QED BY <2>2
<1>7. ASSUME NEW m \in Nat, m \in S PROVE m + 1 \in S
  <2> SUFFICES ASSUME m + 1 <= n, NEW node \in shadersAlive
               PROVE  f[m + 1][node] \subseteq shadersAlive
    OBVIOUS
  <2>1. f[m + 1] = Shading!Onward(f[m], kept)
    <3>1. m + 1 \in 0 .. n /\ m + 1 # 0 /\ (m + 1) - 1 = m
      BY <1>2
    <3> QED BY <3>1, <1>4 DEF IsReach
  <2>2. \A other \in shadersAlive : f[m][other] \subseteq shadersAlive
    BY <1>7, <1>2
  <2>3. f[m + 1][node] = {node} \cup (IF node \in kept THEN {}
                                      ELSE UNION {f[m][other] : other \in Shading!Successors(node)})
    BY <2>1 DEF Shading!Onward, NetworkInv
  <2>4. Shading!Successors(node) \subseteq shadersAlive
    BY LeadsTo
  <2>5. UNION {f[m][other] : other \in Shading!Successors(node)} \subseteq shadersAlive
    BY <2>2, <2>4
  <2> QED BY <2>3, <2>5
<1> HIDE DEF S
<1>8. Nat \subseteq S
  BY <1>6, <1>7, Induction
<1>9. n \in S
  BY <1>2, <1>8
<1>10. \A node \in from : f[n][node] \subseteq shadersAlive
  BY <1>9, <1>2 DEF S
<1> QED BY <1>5, <1>10

\* What exportPlugin() makes of the renderer's plugins.
LEMMA PutAdds ==
  ASSUME NEW table, NEW descs
  PROVE  /\ DOMAIN Shading!Put(table, descs) = DOMAIN table \cup {d.name : d \in descs}
         /\ \A name \in DOMAIN table :
              DOMAIN table[name] \subseteq DOMAIN Shading!Put(table, descs)[name]
         /\ \A d \in descs : d.name \in DOMAIN table =>
              DOMAIN d.attrs \subseteq DOMAIN Shading!Put(table, descs)[d.name]
<1>1. PICK put : put = Shading!Put(table, descs)
  OBVIOUS
<1>2. DOMAIN put = DOMAIN table \cup {d.name : d \in descs}
  BY <1>1 DEF Shading!Put
<1>3. ASSUME NEW name \in DOMAIN table, NEW said, said = Shading!Said(Shading!NamedSo(descs, name))
      PROVE  DOMAIN put[name] = DOMAIN table[name] \cup DOMAIN said
  <2>1. put[name] = Shading!Merged(table[name], said)
    BY <1>1, <1>3 DEF Shading!Put
  <2>2. \A old, new : DOMAIN Shading!Merged(old, new) = DOMAIN old \cup DOMAIN new
    BY DEF Shading!Merged
  <2> QED BY <2>1, <2>2
<1>4. ASSUME NEW d \in descs, d.name \in DOMAIN table
      PROVE  DOMAIN d.attrs \subseteq DOMAIN put[d.name]
  <2>1. PICK same : same = Shading!NamedSo(descs, d.name)
    OBVIOUS
  <2>2. PICK said : said = Shading!Said(same)
    OBVIOUS
  <2>3. d \in same
    BY <2>1 DEF Shading!NamedSo
  <2>4. DOMAIN said = UNION {DOMAIN e.attrs : e \in same}
    BY <2>2 DEF Shading!Said
  <2>5. DOMAIN d.attrs \subseteq DOMAIN said
    BY <2>3, <2>4
  <2>6. PICK name : name = d.name
    OBVIOUS
  <2>7. DOMAIN put[name] = DOMAIN table[name] \cup DOMAIN said
    BY <1>3, <1>4, <2>1, <2>2, <2>6
  <2> QED BY <2>5, <2>6, <2>7
<1>5. ASSUME NEW name \in DOMAIN table PROVE DOMAIN table[name] \subseteq DOMAIN put[name]
  <2>1. PICK said : said = Shading!Said(Shading!NamedSo(descs, name))
    OBVIOUS
  <2> QED BY <2>1, <1>3
<1> QED BY <1>1, <1>2, <1>4, <1>5

\* What an export does to the renderer and the callbacks: whatever it makes is named
\* after a node that exists and is watched then, or is a wrapper, and a sky comes
\* with an item that waits for its sun.
SkyItem == <<<<Sky>>, Sun>>
Grows ==
  /\ watched \subseteq watched'
  /\ watched' \subseteq watched \cup (shadersAlive \X {"vop", "shop"})
  /\ DOMAIN shaderPlugins \subseteq DOMAIN shaderPlugins'
  /\ \A name \in DOMAIN shaderPlugins : DOMAIN shaderPlugins[name] \subseteq DOMAIN shaderPlugins'[name]
  /\ \A n : <<n>> \in DOMAIN shaderPlugins' \ DOMAIN shaderPlugins =>
       <<n, "vop">> \in watched' /\ (n = Sky => SkyItem \in delayed')
  /\ delayed \subseteq delayed' /\ delayed' \subseteq delayed \cup {SkyItem}
  /\ delayed' # delayed => <<Sky>> \in DOMAIN shaderPlugins'

\* Descriptions of wrappers alone.
LEMMA WrappersGrow ==
  ASSUME NEW descs, \A d \in descs : IsWrapper(d),
         shaderPlugins' = Shading!Put(shaderPlugins, descs), UNCHANGED <<watched, delayed>>
  PROVE  Grows
<1>1. ASSUME NEW n PROVE <<n>> \notin {d.name : d \in descs}
  <2> SUFFICES ASSUME NEW d \in descs, d.name = <<n>> PROVE FALSE
    OBVIOUS
  <2>1. ~IsWrapper(d)
    BY ShortName DEF IsWrapper
  <2> QED BY <2>1
<1>2. DOMAIN shaderPlugins' = DOMAIN shaderPlugins \cup {d.name : d \in descs}
  BY PutAdds
<1>3. \A name \in DOMAIN shaderPlugins : DOMAIN shaderPlugins[name] \subseteq DOMAIN shaderPlugins'[name]
  BY PutAdds
<1> QED BY <1>1, <1>2, <1>3 DEF Grows

LEMMA ExportGrows ==
  ASSUME NetworkInv, NEW top, Sound(top), NEW kept, NEW descs, \A d \in descs : IsWrapper(d),
         NEW added, added \subseteq shadersAlive \X {"vop", "shop"},
         Shading!Export(top, kept, descs, added)
  PROVE  Grows
<1>1. PICK met : met = Shading!Met(top.nodes, kept)
  OBVIOUS
<1>2. met \subseteq shadersAlive
  BY <1>1, MetExist DEF Sound
<1> DEFINE fresh == {n \in met \ kept : Shading!Kind(n) \in Shading!PluginKinds}
<1> DEFINE own == UNION {Shading!PluginsOf(n) : n \in fresh}
<1>3. PICK made : made = top.made \cup descs
  OBVIOUS
<1>4. Shading!Process(met, kept, made) /\ Shading!Watch(top, met, added)
  BY <1>1, <1>3 DEF Shading!Export
<1>5. PICK all : all = made \cup own
  OBVIOUS
<1>6. /\ shaderPlugins' = Shading!Put(shaderPlugins, all)
      /\ delayed' = delayed \cup {<<<<n>>, Sun>> : n \in fresh \cap {Sky}}
      /\ watched' = watched \cup (met \X {"vop"}) \cup added
  <2>1. shaderPlugins' = Shading!Put(shaderPlugins, made \cup own)
    BY <1>4, Zenon DEF Shading!Process
  <2>2. delayed' = delayed \cup {<<<<n>>, Sun>> : n \in fresh \cap {Sky}}
    BY <1>4 DEF Shading!Process, Shading!NameOf
  <2>3. watched' = watched \cup (met \X {"vop"}) \cup added
    BY <1>4 DEF Shading!Watch
  <2> HIDE DEF own, fresh
  <2> QED BY <1>5, <2>1, <2>2, <2>3
<1>7. fresh \subseteq met /\ fresh \subseteq shadersAlive
  BY <1>2
<1> HIDE DEF fresh
<1>8. DOMAIN shaderPlugins' = DOMAIN shaderPlugins \cup {d.name : d \in all}
  BY <1>6, PutAdds
<1>9. ASSUME NEW n, <<n>> \in {d.name : d \in all}
      PROVE  n \in fresh
  <2>1. PICK d \in all : d.name = <<n>>
    BY <1>9
  <2>2. ~IsWrapper(d)
    BY <2>1, ShortName DEF IsWrapper
  <2>3. d \in own
    BY <1>3, <1>5, <2>1, <2>2 DEF Sound
  <2>4. PICK m \in fresh : d \in Shading!PluginsOf(m)
    BY <2>3
  <2>5. d.name = <<m>>
    BY <1>7, <2>2, <2>4, LeadsTo
  <2>6. m = n
    BY <2>1, <2>5
  <2> QED BY <2>4, <2>6
<1>10. ASSUME NEW n \in fresh PROVE <<n>> \in DOMAIN shaderPlugins'
  <2>1. PICK d \in Shading!PluginsOf(n) : d.name = <<n>>
    BY <1>7, LeadsTo
  <2>2. d \in all
    BY <1>5, <2>1
  <2> QED BY <1>8, <2>1, <2>2
<1>11. delayed' = delayed \cup IF Sky \in fresh THEN {SkyItem} ELSE {}
  BY <1>6 DEF SkyItem
<1>12. \A n : <<n>> \in DOMAIN shaderPlugins' \ DOMAIN shaderPlugins =>
         <<n, "vop">> \in watched' /\ (n = Sky => SkyItem \in delayed')
  BY <1>6, <1>7, <1>8, <1>9, <1>11
<1>13. watched \subseteq watched' /\ watched' \subseteq watched \cup (shadersAlive \X {"vop", "shop"})
  BY <1>2, <1>6
<1>14. /\ delayed \subseteq delayed' /\ delayed' \subseteq delayed \cup {SkyItem}
       /\ delayed' # delayed => <<Sky>> \in DOMAIN shaderPlugins'
  BY <1>10, <1>11
<1>15. \A name \in DOMAIN shaderPlugins : DOMAIN shaderPlugins[name] \subseteq DOMAIN shaderPlugins'[name]
  BY <1>6, PutAdds
<1> QED BY <1>8, <1>12, <1>13, <1>14, <1>15 DEF Grows

LEMMA WrappersAre ==
  ASSUME NEW m, NEW ref
  PROVE  \A d \in Shading!Wrappers(m, ref) : IsWrapper(d)
<1>1. PICK single, stats, shown :
        /\ single = Shading!MtlSingle(m) /\ stats = Shading!MtlStats(m)
        /\ shown = Shading!Wrapped(m, ref)
  OBVIOUS
<1>2. PICK one, two : /\ one = Shading!Desc(single.name, [brdf |-> ref])
                      /\ two = Shading!Desc(stats.name, [base_mtl |-> shown])
  OBVIOUS
<1>3. Shading!Wrappers(m, ref) \subseteq {one, two}
  BY <1>1, <1>2 DEF Shading!Wrappers
<1>4. single.name = <<m, "MtlSingle">> /\ stats.name = <<m, "MtlStats">>
  BY <1>1, RefName DEF Shading!MtlSingle, Shading!MtlStats
<1>5. one.name = single.name /\ two.name = stats.name
  BY <1>2, DescName
<1> QED BY <1>3, <1>4, <1>5, NameOfTwo DEF IsWrapper

LEMMA ExportAsGrows ==
  ASSUME NetworkInv, NEW m \in shadersAlive, NEW kept,
         Shading!ExportAs(m, Shading!TopLevel(m), kept)
  PROVE  Grows
<1>1. PICK top : top = Shading!TopLevel(m)
  OBVIOUS
<1>2. Sound(top)
  BY <1>1, SoundTopLevel
<1>3. CASE top.ref # Shading!NoRef
  <2>1. PICK descs, added : descs = Shading!Wrappers(m, top.ref) /\ added = {<<m, "shop">>}
    OBVIOUS
  <2>2. Shading!Export(top, kept, descs, added)
    BY <1>1, <1>3, <2>1 DEF Shading!ExportAs
  <2>3. \A d \in descs : IsWrapper(d)
    BY <2>1, WrappersAre
  <2>4. added \subseteq shadersAlive \X {"vop", "shop"}
    BY <2>1
  <2> QED BY <1>2, <2>2, <2>3, <2>4, ExportGrows
<1>4. CASE top.ref = Shading!NoRef
  <2>1. PICK clay : clay = Shading!Clay
    OBVIOUS
  <2>2. clay.name = <<"Clay", "MtlSingle">>
    BY <2>1, DescName DEF Shading!Clay
  <2>3. IsWrapper(clay)
    BY <2>2, NameOfTwo DEF IsWrapper
  <2>4. shaderPlugins' = Shading!Put(shaderPlugins, {clay}) /\ UNCHANGED <<watched, delayed>>
    BY <1>1, <1>4, <2>1 DEF Shading!ExportAs
  <2> QED BY <2>3, <2>4, WrappersGrow
<1> QED BY <1>3, <1>4

\* An export of a finished material changes nothing.
LEMMA NothingGrows ==
  ASSUME UNCHANGED <<shaderPlugins, watched, delayed>>
  PROVE  Grows
BY DEF Grows

LEMMA MaterialGrows ==
  ASSUME NetworkInv, NEW m \in shadersAlive, NEW kept, Shading!ExportMaterial(m, kept)
  PROVE  Grows
<1>1. \/ Shading!ExportAs(m, Shading!TopLevel(m), kept)
      \/ UNCHANGED <<shaderPlugins, watched, delayed>>
  BY DEF Shading!ExportMaterial
<1> QED BY <1>1, ExportAsGrows, NothingGrows

\* An export of a node for itself.
LEMMA TopLevelGrows ==
  ASSUME NetworkInv, NEW n \in shadersAlive, NEW kept,
         Shading!Export(Shading!TopLevel(n), kept, {}, {})
  PROVE  Grows
<1>1. PICK top, none : top = Shading!TopLevel(n) /\ none = {}
  OBVIOUS
<1>2. Shading!Export(top, kept, none, none) /\ Sound(top)
  BY <1>1, SoundTopLevel
<1> QED BY <1>1, <1>2, ExportGrows

\* A node with a plugin is watched, and a node that is gone only until the callback
\* of its deletion.
Deleted(w) == <<w[1], w[2], "delete">>
Watches == Shading!Nodes \X {"vop", "shop"}
WatchInv ==
  /\ \A n \in shadersAlive : <<n>> \in DOMAIN shaderPlugins => <<n, "vop">> \in watched
  /\ watched \subseteq Watches
  /\ \A w \in watched : w[1] \in shadersAlive \/ Deleted(w) \in callbacks
  /\ callbacks \subseteq Shading!Nodes \X {"vop", "shop"} \X {"rewired", "parm", "delete"}
  /\ \A e \in callbacks : e[3] = "delete" <=> e[1] \notin shadersAlive

\* A sky in the renderer has its sun, or an item waits for it: until the session is
\* live for a sun that then has a plugin.
SkyInv ==
  /\ delayed \subseteq {SkyItem} /\ (delayed # {} => <<Sky>> \in DOMAIN shaderPlugins)
  /\ shadingPhase \in {"environment", "delayed", "live"} => <<Sun, "Light">> \in DOMAIN shaderPlugins
  /\ <<Sky>> \in DOMAIN shaderPlugins =>
       SkyItem \in delayed \/ (shadingPhase = "live" /\ "sun" \in DOMAIN shaderPlugins[<<Sky>>])
ShadingInv == NetworkInv /\ WatchInv /\ SkyInv

LEMMA NetworkKeep ==
  NetworkInv /\ UNCHANGED <<link, shadersAlive>> => NetworkInv'
BY DEF NetworkInv

LEMMA WatchKeep ==
  ASSUME NetworkInv, WatchInv, Grows, UNCHANGED shadersAlive, callbacks' \subseteq callbacks,
         \A e \in callbacks \ callbacks' : e[3] # "delete"
  PROVE  WatchInv'
<1>1. \A n \in shadersAlive : <<n>> \in DOMAIN shaderPlugins' => <<n, "vop">> \in watched'
  BY DEF WatchInv, Grows
<1>2. watched' \subseteq Watches
  BY DEF WatchInv, Grows, NetworkInv, Watches
<1>3. ASSUME NEW w \in watched' PROVE w[1] \in shadersAlive \/ Deleted(w) \in callbacks'
  <2>1. CASE w \in watched
    <3>1. Deleted(w)[3] = "delete"
      BY DEF Deleted
    <3> QED BY <2>1, <3>1 DEF WatchInv
  <2>2. CASE w \notin watched
    BY <1>3, <2>2 DEF Grows
  <2> QED BY <2>1, <2>2
<1> QED BY <1>1, <1>2, <1>3 DEF WatchInv, Watches, Deleted, Shading!Nodes

LEMMA SkyKeep ==
  ASSUME SkyInv, Grows,
         \/ shadingPhase' = shadingPhase
         \/ /\ shadingPhase # "live"
            /\ shadingPhase' \in {"environment", "delayed", "live"} =>
                 <<Sun, "Light">> \in DOMAIN shaderPlugins'
            /\ shadingPhase' \in {"objects", "lights", "environment", "delayed"}
  PROVE  SkyInv'
<1>1. delayed' \subseteq {SkyItem} /\ (delayed' # {} => <<Sky>> \in DOMAIN shaderPlugins')
  BY DEF SkyInv, Grows
<1>2. shadingPhase' \in {"environment", "delayed", "live"} => <<Sun, "Light">> \in DOMAIN shaderPlugins'
  BY DEF SkyInv, Grows
<1>3. ASSUME <<Sky>> \in DOMAIN shaderPlugins'
      PROVE  \/ SkyItem \in delayed'
             \/ shadingPhase' = "live" /\ "sun" \in DOMAIN shaderPlugins'[<<Sky>>]
  <2>1. CASE <<Sky>> \in DOMAIN shaderPlugins
    <3>1. CASE SkyItem \in delayed
      BY <3>1 DEF Grows
    <3>2. CASE SkyItem \notin delayed
      <4>1. shadingPhase = "live" /\ "sun" \in DOMAIN shaderPlugins[<<Sky>>]
        BY <2>1, <3>2 DEF SkyInv
      <4>2. "sun" \in DOMAIN shaderPlugins'[<<Sky>>]
        BY <2>1, <4>1 DEF Grows
      <4> QED BY <4>1, <4>2
    <3> QED BY <3>1, <3>2
  <2>2. CASE <<Sky>> \notin DOMAIN shaderPlugins
    BY <1>3, <2>2 DEF Grows
  <2> QED BY <2>1, <2>2
<1> QED BY <1>1, <1>2, <1>3 DEF SkyInv, SkyItem

LEMMA ShadingInit == Shading!Init => ShadingInv
<1> SUFFICES ASSUME Shading!Init PROVE ShadingInv
  OBVIOUS
<1>1. /\ shadingPhase = "new" /\ link = ShadingLinks /\ shadersAlive = Shading!Nodes
      /\ callbacks = {} /\ shaderPlugins = <<>> /\ watched = {} /\ delayed = {}
  BY DEF Shading!Init
<1>2. DOMAIN shaderPlugins = {}
  BY <1>1
<1>3. ASSUME NEW n \in Shading!Nodes, NEW s \in DOMAIN link[n], link[n][s] # Shading!Unlinked
      PROVE  link[n][s].node \in shadersAlive
  <2>1. link[n] \in [DOMAIN Shaders[n].in -> Shading!Connections]
    BY <1>1, Network DEF Shading!NetworkAssumption
  <2>2. link[n][s] \in Shading!Connections
    BY <2>1
  <2>3. PICK m \in Shading!Nodes : \E out : link[n][s] = Shading!To(m, out)
    BY <1>3, <2>2 DEF Shading!Connections
  <2>4. link[n][s].node = m
    BY <2>3 DEF Shading!To
  <2> QED BY <1>1, <2>4
<1>4. NetworkInv
  BY <1>1, <1>3, Network DEF NetworkInv, Shading!NetworkAssumption
<1>5. WatchInv
  BY <1>1, <1>2 DEF WatchInv
<1>6. SkyInv
  BY <1>1, <1>2 DEF SkyInv
<1> QED BY <1>4, <1>5, <1>6 DEF ShadingInv

\* What keeps the network, the edits and the callbacks.
LEMMA ShadingKeep ==
  ASSUME ShadingInv, Grows, UNCHANGED <<link, shadersAlive, callbacks>>,
         \/ shadingPhase' = shadingPhase
         \/ /\ shadingPhase # "live"
            /\ shadingPhase' \in {"environment", "delayed", "live"} =>
                 <<Sun, "Light">> \in DOMAIN shaderPlugins'
            /\ shadingPhase' \in {"objects", "lights", "environment", "delayed"}
  PROVE  ShadingInv'
<1>1. NetworkInv'
  BY NetworkKeep DEF ShadingInv
<1>2. WatchInv'
  BY WatchKeep DEF ShadingInv
<1>3. SkyInv'
  BY SkyKeep DEF ShadingInv
<1> QED BY <1>1, <1>2, <1>3 DEF ShadingInv

LEMMA ShadingScene ==
  ASSUME ShadingInv,
         \/ Shading!ExportScene \/ Shading!ObjectsDone \/ Shading!ExportEnvironment
         \/ \E m \in ShadingMaterials : Shading!ExportObject(m) \/ Shading!ObjectChanged(m)
  PROVE  ShadingInv'
<1>1. CASE Shading!ExportScene \/ Shading!ObjectsDone
  <2>1. /\ UNCHANGED <<shaderPlugins, watched, delayed, link, shadersAlive, callbacks>>
        /\ shadingPhase # "live" /\ shadingPhase' \in {"objects", "lights"}
    BY <1>1 DEF Shading!ExportScene, Shading!ObjectsDone, Shading!After, Shading!graph
  <2>2. Grows
    BY <2>1, NothingGrows
  <2> QED BY <2>1, <2>2, ShadingKeep
<1>2. CASE Shading!ExportEnvironment
  <2>1. /\ UNCHANGED <<link, shadersAlive, callbacks>>
        /\ shadingPhase = "environment" /\ shadingPhase' = "delayed"
        /\ Shading!Export(Shading!TopLevel(Sky), shaderCache, {}, {})
    BY <1>2 DEF Shading!ExportEnvironment, Shading!After, Shading!graph
  <2>2. Sky \in shadersAlive /\ NetworkInv
    BY DEF ShadingInv, NetworkInv
  <2>3. Grows
    BY <2>1, <2>2, TopLevelGrows
  <2>4. <<Sun, "Light">> \in DOMAIN shaderPlugins'
    BY <2>1, <2>3 DEF ShadingInv, SkyInv, Grows
  <2> QED BY <2>1, <2>3, <2>4, ShadingKeep
<1>3. ASSUME NEW m \in ShadingMaterials, Shading!ExportObject(m) \/ Shading!ObjectChanged(m)
      PROVE  ShadingInv'
  <2>1. m \in shadersAlive /\ NetworkInv
    BY DEF ShadingInv, NetworkInv
  <2>2. UNCHANGED <<link, shadersAlive, callbacks, shadingPhase>>
    BY <1>3 DEF Shading!ExportObject, Shading!ObjectChanged, Shading!graph
  <2>3. \/ Shading!ExportMaterial(m, shaderCache)
        \/ Shading!ExportAs(m, Shading!TopLevel(m), shaderCache)
    BY <1>3 DEF Shading!ExportObject, Shading!ObjectChanged
  <2>4. Grows
    BY <2>1, <2>3, MaterialGrows, ExportAsGrows
  <2> QED BY <2>2, <2>4, ShadingKeep
<1> QED BY <1>1, <1>2, <1>3

LEMMA ShadingLights ==
  ASSUME ShadingInv, Shading!ExportLights
  PROVE  ShadingInv'
<1>1. PICK sun : sun = Shading!Desc(<<Sun, "Light">>, <<>>)
  OBVIOUS
<1>2. sun.name = <<Sun, "Light">>
  BY <1>1, DescName
<1>3. IsWrapper(sun)
  BY <1>2, NameOfTwo DEF IsWrapper
<1>4. /\ UNCHANGED <<link, shadersAlive, callbacks, watched, delayed>>
      /\ shadingPhase = "lights" /\ shadingPhase' = "environment"
      /\ shaderPlugins' = Shading!Put(shaderPlugins, {sun})
  BY <1>1 DEF Shading!ExportLights, Shading!After, Shading!graph, Shading!LightOf
<1>5. Grows
  BY <1>3, <1>4, WrappersGrow
<1>6. <<Sun, "Light">> \in DOMAIN shaderPlugins'
  <2>1. DOMAIN shaderPlugins' = DOMAIN shaderPlugins \cup {d.name : d \in {sun}}
    BY <1>4, PutAdds
  <2>2. sun.name \in DOMAIN shaderPlugins'
    BY <2>1
  <2> QED BY <1>2, <2>2
<1> QED BY <1>4, <1>5, <1>6, ShadingKeep

\* The items that wait are resolved when the sun has its plugin.
LEMMA ShadingDelayed ==
  ASSUME ShadingInv, Shading!ExportDelayed
  PROVE  ShadingInv'
<1>1. /\ UNCHANGED <<link, shadersAlive, callbacks, watched>>
      /\ shadingPhase = "delayed" /\ shadingPhase' = "live" /\ delayed' = {}
  BY DEF Shading!ExportDelayed, Shading!After, Shading!graph
<1>2. PICK ref : ref = Shading!Ref(<<Sun, "Light">>, "")
  OBVIOUS
<1>3. PICK d : d = Shading!Desc(<<Sky>>, [sun |-> ref])
  OBVIOUS
<1>4. d.name = <<Sky>> /\ DOMAIN d.attrs = {"sun"}
  BY <1>3 DEF Shading!Desc
<1>5. <<Sun, "Light">> \in DOMAIN shaderPlugins /\ delayed \subseteq {SkyItem}
  BY <1>1 DEF ShadingInv, SkyInv
<1>6. PICK descs : descs = IF SkyItem \in delayed THEN {d} ELSE {}
  OBVIOUS
<1>7. shaderPlugins' = Shading!Put(shaderPlugins, descs)
  <2> DEFINE of(i) == Shading!Desc(i[1], IF <<i[2], "Light">> \in DOMAIN shaderPlugins
                                          THEN [sun |-> Shading!Ref(<<i[2], "Light">>, "")] ELSE <<>>)
  <2>1. shaderPlugins' = Shading!Put(shaderPlugins, {of(i) : i \in delayed})
    BY DEF Shading!ExportDelayed, Shading!LightOf
  <2>2. of(SkyItem) = d
    BY <1>2, <1>3, <1>5 DEF SkyItem
  <2> HIDE DEF of
  <2>3. {of(i) : i \in delayed} = descs
    BY <1>5, <1>6, <2>2
  <2> QED BY <2>1, <2>3
<1>8. SkyItem \in delayed => <<Sky>> \in DOMAIN shaderPlugins
  BY DEF ShadingInv, SkyInv
<1>9. DOMAIN shaderPlugins' = DOMAIN shaderPlugins
  <2>1. DOMAIN shaderPlugins' = DOMAIN shaderPlugins \cup {e.name : e \in descs}
    BY <1>7, PutAdds
  <2>2. \A e \in descs : e.name \in DOMAIN shaderPlugins
    BY <1>4, <1>6, <1>8
  <2> QED BY <2>1, <2>2
<1>10. NetworkInv'
  BY <1>1, NetworkKeep DEF ShadingInv
<1>11. WatchInv'
  BY <1>1, <1>9 DEF ShadingInv, WatchInv, Watches, Deleted, Shading!Nodes
<1>12. SkyInv'
  <2>1. <<Sky>> \in DOMAIN shaderPlugins => "sun" \in DOMAIN shaderPlugins'[<<Sky>>]
    <3> SUFFICES ASSUME <<Sky>> \in DOMAIN shaderPlugins
                 PROVE  "sun" \in DOMAIN shaderPlugins'[<<Sky>>]
      OBVIOUS
    <3>1. SkyItem \in delayed
      BY <1>1 DEF ShadingInv, SkyInv
    <3>2. d \in descs
      BY <1>6, <3>1
    <3>3. DOMAIN d.attrs \subseteq DOMAIN shaderPlugins'[d.name]
      <4>1. PICK table : table = shaderPlugins
        OBVIOUS
      <4>2. d.name \in DOMAIN table
        BY <1>4, <4>1
      <4>3. DOMAIN d.attrs \subseteq DOMAIN Shading!Put(table, descs)[d.name]
        BY <3>2, <4>2, PutAdds
      <4>4. shaderPlugins' = Shading!Put(table, descs)
        BY <1>7, <4>1
      <4> QED BY <4>3, <4>4
    <3> QED BY <1>4, <3>3
  <2> QED BY <1>1, <1>5, <1>9, <2>1 DEF SkyInv, SkyItem
<1> QED BY <1>10, <1>11, <1>12 DEF ShadingInv

\* The user's edits; only a node that nothing leads to is deleted.
LEMMA Notified ==
  ASSUME NEW n, NEW type, Shading!Notify(n, type)
  PROVE  /\ \A w \in watched : w[1] = n => <<w[1], w[2], type>> \in callbacks'
         /\ \A e \in callbacks' : \E w \in watched : w[1] = n /\ e = <<w[1], w[2], type>>
BY DEF Shading!Notify

LEMMA WatchEdited ==
  ASSUME ShadingInv, NEW n \in shadersAlive, NEW type \in {"rewired", "parm"},
         callbacks = {}, Shading!Notify(n, type), UNCHANGED <<shadersAlive, watched, shaderPlugins>>
  PROVE  WatchInv'
<1>1. \A e \in callbacks' : \E w \in watched : w[1] = n /\ e = <<w[1], w[2], type>>
  BY Notified
<1>2. watched \subseteq Watches
  BY DEF ShadingInv, WatchInv
<1>3. ASSUME NEW e \in callbacks'
      PROVE  /\ e \in Shading!Nodes \X {"vop", "shop"} \X {"rewired", "parm", "delete"}
             /\ e[3] # "delete" /\ e[1] \in shadersAlive
  <2>1. PICK w \in watched : w[1] = n /\ e = <<w[1], w[2], type>>
    BY <1>1
  <2>2. w[1] \in Shading!Nodes /\ w[2] \in {"vop", "shop"}
    BY <1>2 DEF Watches
  <2> QED BY <2>1, <2>2
<1>4. \A w \in watched : w[1] \in shadersAlive
  BY DEF ShadingInv, WatchInv
<1>5. \A m \in shadersAlive : <<m>> \in DOMAIN shaderPlugins => <<m, "vop">> \in watched
  BY DEF ShadingInv, WatchInv
<1> QED BY <1>2, <1>3, <1>4, <1>5 DEF WatchInv, Watches, Deleted, Shading!Nodes

LEMMA SkySame ==
  SkyInv /\ UNCHANGED <<shadingPhase, shaderPlugins, delayed>> => SkyInv'
BY DEF SkyInv, SkyItem

LEMMA ShadingRewire ==
  ASSUME ShadingInv, NEW n \in Shading!Nodes, Shading!Rewire(n)
  PROVE  ShadingInv'
<1>1. /\ n \in shadersAlive /\ callbacks = {} /\ Shading!Notify(n, "rewired")
      /\ UNCHANGED <<shadersAlive, watched, shaderPlugins, shadingPhase, delayed>>
  BY DEF Shading!Rewire, Shading!CanEdit
<1>2. PICK choice \in Rewirings[n] :
        /\ choice[2] = Shading!Unlinked \/ choice[2].node \in shadersAlive
        /\ link' = [link EXCEPT ![n][choice[1]] = choice[2]]
  BY DEF Shading!Rewire
<1>3. choice[1] \in DOMAIN Shaders[n].in /\ choice[2] \in Shading!Connections
  BY Network DEF Shading!NetworkAssumption
<1>4. link[n] \in [DOMAIN Shaders[n].in -> Shading!Connections] /\ DOMAIN link = Shading!Nodes
  BY DEF ShadingInv, NetworkInv
<1>5. /\ DOMAIN link' = Shading!Nodes
      /\ \A m \in Shading!Nodes : m # n => link'[m] = link[m]
      /\ link'[n] = [link[n] EXCEPT ![choice[1]] = choice[2]]
  BY <1>2, <1>4
<1>6. link'[n] \in [DOMAIN Shaders[n].in -> Shading!Connections]
  BY <1>3, <1>4, <1>5
<1>7. ASSUME NEW m \in shadersAlive, NEW s \in DOMAIN link'[m], link'[m][s] # Shading!Unlinked
      PROVE  link'[m][s].node \in shadersAlive
  <2>1. m \in Shading!Nodes
    BY DEF ShadingInv, NetworkInv
  <2>2. CASE m = n /\ s = choice[1]
    <3>1. link'[m][s] = choice[2]
      BY <1>3, <1>4, <1>5, <2>2
    <3> QED BY <1>2, <1>7, <3>1
  <2>3. CASE ~(m = n /\ s = choice[1])
    <3>1. s \in DOMAIN link[m] /\ link'[m][s] = link[m][s]
      BY <1>3, <1>4, <1>5, <2>1, <2>3
    <3> QED BY <1>7, <3>1 DEF ShadingInv, NetworkInv
  <2> QED BY <2>2, <2>3
<1>8. NetworkInv'
  BY <1>1, <1>5, <1>6, <1>7 DEF ShadingInv, NetworkInv
<1> QED BY <1>1, <1>8, WatchEdited, SkySame DEF ShadingInv

LEMMA ShadingParm ==
  ASSUME ShadingInv, NEW n \in Shading!Nodes, Shading!SetParm(n)
  PROVE  ShadingInv'
<1>1. /\ n \in shadersAlive /\ callbacks = {} /\ Shading!Notify(n, "parm")
      /\ UNCHANGED <<link, shadersAlive, watched, shaderPlugins, shadingPhase, delayed>>
  BY DEF Shading!SetParm, Shading!CanEdit
<1> QED BY <1>1, NetworkKeep, WatchEdited, SkySame DEF ShadingInv

LEMMA ShadingDelete ==
  ASSUME ShadingInv, NEW n \in Shading!Nodes, Shading!Delete(n)
  PROVE  ShadingInv'
<1>1. /\ n \in shadersAlive \ Shading!InUse /\ callbacks = {} /\ Shading!Notify(n, "delete")
      /\ shadersAlive' = shadersAlive \ {n}
      /\ UNCHANGED <<link, watched, shaderPlugins, shadingPhase, delayed>>
  BY DEF Shading!Delete, Shading!CanEdit, Shading!graph
<1>2. /\ n \notin ShadingMaterials /\ n # Sky
      /\ \A m \in Shading!Nodes : Shaders[m].partner # n
      /\ \A m \in shadersAlive : \A s \in DOMAIN link[m] : link[m][s].node # n
      /\ \A m \in shadersAlive : n \notin Shading!Range(Shaders[m].paths)
  BY <1>1 DEF Shading!InUse
<1>3. NetworkInv'
  BY <1>1, <1>2 DEF ShadingInv, NetworkInv
<1>4. WatchInv'
  <2>1. \A e \in callbacks' : \E w \in watched : w[1] = n /\ e = <<w[1], w[2], "delete">>
    BY <1>1, Notified
  <2>2. watched \subseteq Watches
    BY DEF ShadingInv, WatchInv
  <2>3. ASSUME NEW e \in callbacks'
        PROVE  /\ e \in Shading!Nodes \X {"vop", "shop"} \X {"rewired", "parm", "delete"}
               /\ e[3] = "delete" /\ e[1] \notin shadersAlive'
    <3>1. PICK w \in watched : w[1] = n /\ e = <<w[1], w[2], "delete">>
      BY <2>1
    <3>2. w[1] \in Shading!Nodes /\ w[2] \in {"vop", "shop"}
      BY <2>2 DEF Watches
    <3> QED BY <1>1, <3>1, <3>2
  <2>4. \A w \in watched : w[1] \in shadersAlive' \/ Deleted(w) \in callbacks'
    BY <1>1, Notified DEF ShadingInv, WatchInv, Deleted
  <2>5. \A m \in shadersAlive' : <<m>> \in DOMAIN shaderPlugins => <<m, "vop">> \in watched
    BY <1>1 DEF ShadingInv, WatchInv
  <2> QED BY <1>1, <2>2, <2>3, <2>4, <2>5 DEF WatchInv, Watches, Deleted, Shading!Nodes
<1> QED BY <1>1, <1>3, <1>4, SkySame DEF ShadingInv

\* The callbacks: a deleted node is not watched any more, another is exported.
LEMMA WatchDropped ==
  ASSUME ShadingInv, NEW e \in callbacks, e[3] = "delete", callbacks' = callbacks \ {e},
         watched' = watched \ {<<e[1], e[2]>>}, UNCHANGED <<shadersAlive, shaderPlugins>>
  PROVE  WatchInv'
<1>1. e[1] \notin shadersAlive
  BY DEF ShadingInv, WatchInv
<1>2. ASSUME NEW w \in watched' PROVE w[1] \in shadersAlive \/ Deleted(w) \in callbacks'
  <2>1. w = <<w[1], w[2]>>
    BY DEF ShadingInv, WatchInv, Watches
  <2>2. w[1] # e[1] \/ w[2] # e[2]
    BY <2>1
  <2>3. Deleted(w) # e
    BY <2>2 DEF Deleted
  <2> QED BY <2>3 DEF ShadingInv, WatchInv
<1>3. \A n \in shadersAlive : <<n>> \in DOMAIN shaderPlugins => <<n, "vop">> \in watched'
  BY <1>1 DEF ShadingInv, WatchInv
<1>4. /\ watched' \subseteq Watches
      /\ callbacks' \subseteq Shading!Nodes \X {"vop", "shop"} \X {"rewired", "parm", "delete"}
      /\ \A f \in callbacks' : f[3] = "delete" <=> f[1] \notin shadersAlive
  BY DEF ShadingInv, WatchInv
<1> QED BY <1>2, <1>3, <1>4 DEF WatchInv, Watches, Deleted, Shading!Nodes

LEMMA ShadingVop ==
  ASSUME ShadingInv, Shading!RtCallbackVop
  PROVE  ShadingInv'
<1>1. PICK e \in callbacks : e[2] = "vop" /\ callbacks' = callbacks \ {e} /\ Shading!VopCallback(e)
  BY DEF Shading!RtCallbackVop
<1>2. UNCHANGED <<shadingPhase, link, shadersAlive>>
  BY DEF Shading!RtCallbackVop, Shading!graph
<1>3. NetworkInv'
  BY <1>2, NetworkKeep DEF ShadingInv
<1>4. CASE e[3] = "delete"
  <2>1. watched' = watched \ {<<e[1], e[2]>>} /\ UNCHANGED <<shaderPlugins, delayed>>
    BY <1>1, <1>4 DEF Shading!VopCallback
  <2> QED BY <1>1, <1>2, <1>3, <1>4, <2>1, WatchDropped, SkySame DEF ShadingInv
<1>5. CASE e[3] # "delete"
  <2>1. e[1] \in shadersAlive
    BY <1>5 DEF ShadingInv, WatchInv
  <2>2. Shading!Export(Shading!TopLevel(e[1]), {}, {}, {})
    BY <1>1, <1>5 DEF Shading!VopCallback
  <2>3. Grows
    BY <2>1, <2>2, TopLevelGrows DEF ShadingInv
  <2>4. WatchInv'
    BY <1>1, <1>2, <1>5, <2>3, WatchKeep DEF ShadingInv
  <2>5. SkyInv'
    BY <1>2, <2>3, SkyKeep DEF ShadingInv
  <2> QED BY <1>3, <2>4, <2>5 DEF ShadingInv
<1> QED BY <1>4, <1>5

LEMMA ShadingShop ==
  ASSUME ShadingInv, Shading!RtCallbackSurfaceShop
  PROVE  ShadingInv'
<1>1. PICK e \in callbacks :
        /\ e[2] = "shop" /\ callbacks' = callbacks \ {e}
        /\ IF e[3] = "rewired" THEN Shading!ExportMaterial(e[1], {})
           ELSE /\ watched' = IF e[3] = "delete" THEN watched \ {<<e[1], "shop">>} ELSE watched
                /\ UNCHANGED <<shaderPlugins, delayed>>
  BY DEF Shading!RtCallbackSurfaceShop
<1>2. UNCHANGED <<shadingPhase, link, shadersAlive>>
  BY DEF Shading!RtCallbackSurfaceShop, Shading!graph
<1>3. NetworkInv'
  BY <1>2, NetworkKeep DEF ShadingInv
<1>4. CASE e[3] = "delete"
  <2>1. watched' = watched \ {<<e[1], e[2]>>} /\ UNCHANGED <<shaderPlugins, delayed>>
    BY <1>1, <1>4
  <2> QED BY <1>1, <1>2, <1>3, <1>4, <2>1, WatchDropped, SkySame DEF ShadingInv
<1>5. CASE e[3] # "delete"
  <2>1. e[1] \in shadersAlive
    BY <1>5 DEF ShadingInv, WatchInv
  <2>2. Shading!ExportMaterial(e[1], {}) \/ UNCHANGED <<shaderPlugins, watched, delayed>>
    BY <1>1, <1>5
  <2>3. Grows
    BY <2>1, <2>2, MaterialGrows, NothingGrows DEF ShadingInv
  <2>4. WatchInv'
    BY <1>1, <1>2, <1>5, <2>3, WatchKeep DEF ShadingInv
  <2>5. SkyInv'
    BY <1>2, <2>3, SkyKeep DEF ShadingInv
  <2> QED BY <1>3, <2>4, <2>5 DEF ShadingInv
<1> QED BY <1>4, <1>5

LEMMA ShadingStep == ShadingInv /\ [Shading!Next]_(Shading!vars) => ShadingInv'
<1> SUFFICES ASSUME ShadingInv, [Shading!Next]_(Shading!vars) PROVE ShadingInv'
  OBVIOUS
<1>1. CASE UNCHANGED Shading!vars
  <2>1. UNCHANGED <<shadingPhase, link, shadersAlive, callbacks, shaderPlugins, watched, delayed>>
    BY <1>1 DEF Shading!vars, Shading!graph
  <2> QED BY <2>1, NothingGrows, ShadingKeep
<1>2. CASE Shading!Edit
  BY <1>2, ShadingRewire, ShadingParm, ShadingDelete DEF Shading!Edit
<1> QED
  BY <1>1, <1>2, ShadingScene, ShadingLights, ShadingDelayed, ShadingVop, ShadingShop
     DEF Shading!Next

LEMMA ShadingAlways == AllSpec => [](which = "Shading" => ShadingInv)
<1> DEFINE I == which = "Shading" => ShadingInv
<1>1. AllInit => I
  BY ShadingInit DEF AllInit
<1>2. I /\ [AllNext]_allVars => I'
  <2> SUFFICES ASSUME I, [AllNext]_allVars, which' = "Shading" PROVE ShadingInv'
    OBVIOUS
  <2>1. which = "Shading"
    BY DEF AllNext, allVars
  <2> QED BY <2>1, ShadingAlone, ShadingStep
<1> QED BY <1>1, <1>2, PTL DEF AllSpec

\* Once the callbacks of an edit have run, every node that the renderer has a plugin
\* of is watched, so that its next edit reaches the renderer, and no deleted node is:
\* through whatever subnets, conversions, paths and caches it was exported.
THEOREM NodesWatched == AllSpec => []NodesAreWatched
<1>1. (which = "Shading" => ShadingInv) => NodesAreWatched
  <2> SUFFICES ASSUME which = "Shading", ShadingInv PROVE Shading!ExportedAreWatched
    BY DEF NodesAreWatched
  <2>1. \A n \in shadersAlive : <<n>> \in DOMAIN shaderPlugins => <<n, "vop">> \in watched
    BY DEF ShadingInv, WatchInv
  <2>2. callbacks = {} => \A w \in watched : w[1] \in shadersAlive
    BY DEF ShadingInv, WatchInv
  <2> QED BY <2>1, <2>2 DEF Shading!ExportedAreWatched, Shading!Quiet, Shading!InRenderer, Shading!NameOf
<1> QED BY <1>1, ShadingAlways, PTL

\* A sky of a live session whose item no longer waits has the plugin of its sun: the
\* items are resolved after the lights, and after all exports that make any.
THEOREM SkiesSeeSuns == AllSpec => []SkyHasItsSun
<1>1. (which = "Shading" => ShadingInv) => SkyHasItsSun
  BY DEF ShadingInv, SkyInv, SkyItem, SkyHasItsSun, Shading!SkySeesItsSun, Shading!InRenderer,
     Shading!NameOf
<1> QED BY <1>1, ShadingAlways, PTL

-----------------------------------------------------------------------------
(* The registry of renderers (VRayInstances).  Its invariants are not inductive *)
(* one by one: a client's renderer stays alive only because no other client     *)
(* holds it and because every slot names a different renderer, and the last     *)
(* unload cleans up only because the attached modules are the ones that are not *)
(* unloaded.                                                                    *)

\* The segment exists as long as a module is attached, and VRayInit needs it.
Attachment ==
  /\ present <=> attached # {}
  /\ attached \subseteq Modules \ unloaded
  /\ vrayInit => present

\* A renderer has one owner: two clients never delete the same instance.
OneOwner ==
  unloaded = {} =>
    \A m, n \in Modules : m # n => held[m] \cap held[n] = {}

\* A client makes its renderer only with a VRayInit in place.
ReadyHasInit == pc # Idle => present /\ vrayInit /\ pc.m \in attached \ unloaded

IInv ==
  /\ TypeOK
  /\ Attachment
  /\ NoDanglingSlot
  /\ AllTracked
  /\ InitOutlivesRenderers
  /\ HeldAlive
  /\ OneOwner
  /\ ReadyHasInit
  /\ CleanExit

LEMMA InitIInv == Init => IInv
<1> SUFFICES ASSUME Init PROVE IInv
  OBVIOUS
<1> USE NullAssumption DEF Init, EmptyTable
<1>1. TypeOK
  BY DEF TypeOK, Idle
<1>2. Tracked = {}
  BY DEF Tracked
<1>3. Attachment
  BY DEF Attachment
<1>4. NoDanglingSlot
  BY DEF NoDanglingSlot
<1>5. AllTracked /\ InitOutlivesRenderers
  BY <1>2 DEF AllTracked, InitOutlivesRenderers
<1>6. HeldAlive /\ OneOwner /\ ReadyHasInit /\ CleanExit
  BY DEF HeldAlive, OneOwner, ReadyHasInit, CleanExit
<1> QED
  BY <1>1, <1>3, <1>4, <1>5, <1>6 DEF IInv

\* A renderer that Create() makes is put into one free slot, or missed because
\* there is none: the table stays exact.
LEMMA CreateKeepsTable ==
  ASSUME IInv, NEW r \in Renderers, Create(r)
  PROVE  /\ slot' \in [Slots -> Renderers \cup {Null}]
         /\ alive' = alive \cup {r} /\ r \notin alive
         /\ alive' \subseteq Renderers
         /\ missed' \subseteq Renderers
         /\ NoDanglingSlot'
         /\ AllTracked'
<1> USE NullAssumption DEF IInv, TypeOK
<1>1. /\ alive' = alive \cup {r} /\ r \notin alive /\ r # Null
      /\ alive' \subseteq Renderers
  BY DEF Create
<1>2. CASE \E i \in Slots : FirstFree(i) /\ slot' = [slot EXCEPT ![i] = r]
                              /\ missed' = missed \ {r}
  <2>1. PICK i \in Slots : /\ slot[i] = Null
                           /\ slot' = [slot EXCEPT ![i] = r]
                           /\ missed' = missed \ {r}
    BY <1>2 DEF FirstFree
  <2>2. \A j \in Slots : slot'[j] = IF j = i THEN r ELSE slot[j]
    BY <2>1
  <2>3. \A j \in Slots : slot[j] # r
    BY <1>1 DEF NoDanglingSlot
  <2>4. NoDanglingSlot'
    BY <1>1, <2>2, <2>3 DEF NoDanglingSlot
  <2>5. Tracked' = Tracked \cup {r}
    BY <1>1, <2>1, <2>2 DEF Tracked
  <2>6. AllTracked'
    BY <1>1, <2>1, <2>5 DEF AllTracked
  <2> QED
    BY <1>1, <2>1, <2>4, <2>6
<1>3. CASE missed' = missed \cup {r} /\ UNCHANGED slot
  BY <1>1, <1>3 DEF NoDanglingSlot, AllTracked, Tracked
<1> QED
  BY <1>1, <1>2, <1>3 DEF Create

LEMMA NewVRayInitStep ==
  ASSUME IInv, NEW m \in Modules, NewVRayInit(m)
  PROVE  IInv'
<1> USE NullAssumption DEF IInv, NewVRayInit
<1>1. Tracked' = IF present THEN Tracked ELSE {}
  BY DEF Tracked, EmptyTable
<1>2. ~present => Tracked = {}
  BY DEF InitOutlivesRenderers
<1>3. pc' \in {Idle} \cup [at : {"dummy", "ready"}, m : Modules]
  OBVIOUS
<1>31. slot' \in [Slots -> Renderers \cup {Null}]
  BY DEF TypeOK, EmptyTable
<1>32. TypeOK'
  BY <1>3, <1>31 DEF TypeOK
<1>4. Attachment'
  BY DEF Attachment, TypeOK
<1>5. NoDanglingSlot'
  BY DEF NoDanglingSlot, EmptyTable
<1>6. AllTracked'
  BY <1>1, <1>2 DEF AllTracked
<1>7. InitOutlivesRenderers'
  BY <1>1, <1>2 DEF InitOutlivesRenderers
<1>8. HeldAlive' /\ OneOwner'
  BY DEF HeldAlive, OneOwner
<1>9. ReadyHasInit'
  BY DEF ReadyHasInit, Idle
<1>10. CleanExit'
  BY DEF CleanExit
<1> QED
  BY <1>32, <1>4, <1>5, <1>6, <1>7, <1>8, <1>9, <1>10

LEMMA NewDummyStep ==
  ASSUME IInv, NEW r \in Renderers, NewDummy(r)
  PROVE  IInv'
<1> Create(r)
  BY DEF NewDummy
<1>1. /\ slot' \in [Slots -> Renderers \cup {Null}]
      /\ alive' = alive \cup {r} /\ alive' \subseteq Renderers
      /\ missed' \subseteq Renderers
      /\ NoDanglingSlot' /\ AllTracked'
  BY CreateKeepsTable
<1> USE DEF IInv, NewDummy
<1>2. pc # Idle /\ pc' # Idle /\ pc'.m = pc.m
      /\ pc' \in [at : {"dummy", "ready"}, m : Modules]
  BY DEF TypeOK, Idle
<1>3. present /\ vrayInit /\ pc.m \in attached \ unloaded
  BY <1>2 DEF ReadyHasInit
<1>4. TypeOK'
  BY <1>1, <1>2 DEF TypeOK
<1>5. Attachment' /\ InitOutlivesRenderers' /\ ReadyHasInit'
  BY <1>2, <1>3 DEF Attachment, InitOutlivesRenderers, ReadyHasInit
<1>6. HeldAlive' /\ OneOwner'
  BY <1>1 DEF HeldAlive, OneOwner
<1>7. CleanExit'
  BY <1>3 DEF CleanExit
<1> QED
  BY <1>1, <1>4, <1>5, <1>6, <1>7

LEMMA NewVRayRendererStep ==
  ASSUME IInv, NEW r \in Renderers, NewVRayRenderer(r)
  PROVE  IInv'
<1> Create(r)
  BY DEF NewVRayRenderer
<1>1. /\ slot' \in [Slots -> Renderers \cup {Null}]
      /\ alive' = alive \cup {r} /\ r \notin alive /\ alive' \subseteq Renderers
      /\ missed' \subseteq Renderers
      /\ NoDanglingSlot' /\ AllTracked'
  BY CreateKeepsTable
<1> USE DEF IInv, NewVRayRenderer
<1>2. pc # Idle /\ pc.m \in Modules
  BY DEF TypeOK, Idle
<1>3. present /\ vrayInit /\ pc.m \in attached \ unloaded
  BY <1>2 DEF ReadyHasInit
<1>4. \A m \in Modules : held'[m] = IF m = pc.m THEN held[m] \cup {r} ELSE held[m]
  BY <1>2 DEF TypeOK
<1>5. TypeOK'
  BY <1>1, <1>2 DEF TypeOK
<1>6. Attachment' /\ InitOutlivesRenderers' /\ ReadyHasInit'
  BY <1>3 DEF Attachment, InitOutlivesRenderers, ReadyHasInit
<1>7. HeldAlive'
  BY <1>1, <1>4 DEF HeldAlive
<1>8. OneOwner'
  BY <1>1, <1>4 DEF OneOwner, HeldAlive
<1>9. CleanExit'
  BY <1>3 DEF CleanExit
<1> QED
  BY <1>1, <1>5, <1>6, <1>7, <1>8, <1>9

LEMMA NoRendererStep ==
  ASSUME IInv, NoRenderer
  PROVE  IInv'
BY DEF IInv, NoRenderer, TypeOK, Attachment, NoDanglingSlot, AllTracked, Tracked,
       InitOutlivesRenderers, HeldAlive, OneOwner, ReadyHasInit, CleanExit

LEMMA DeleteVRayRendererStep ==
  ASSUME IInv, NEW m \in Modules, NEW r \in Renderers, DeleteVRayRenderer(m, r)
  PROVE  IInv'
<1> USE NullAssumption DEF IInv, DeleteVRayRenderer
<1>1. \A n \in Modules : held'[n] = IF n = m THEN held[n] \ {r} ELSE held[n]
  BY DEF TypeOK
<1>2. OneOwner'
  BY <1>1 DEF OneOwner
<1>3. Attachment' /\ ReadyHasInit'
  BY DEF Attachment, ReadyHasInit
<1>4. CASE \E i \in Slots : slot[i] = r /\ slot' = [slot EXCEPT ![i] = Null]
                              /\ alive' = alive \ {r}
  <2>1. PICK i \in Slots : /\ slot[i] = r
                           /\ slot' = [slot EXCEPT ![i] = Null]
                           /\ alive' = alive \ {r}
    BY <1>4
  <2>2. \A j \in Slots : slot'[j] = IF j = i THEN Null ELSE slot[j]
    BY <2>1 DEF TypeOK
  <2>3. \A j \in Slots : j # i => slot[j] # r
    BY <2>1 DEF NoDanglingSlot
  <2>4. TypeOK'
    BY <2>1 DEF TypeOK
  <2>5. NoDanglingSlot'
    BY <2>1, <2>2, <2>3 DEF NoDanglingSlot
  <2>6. Tracked' = Tracked \ {r}
    BY <2>1, <2>2, <2>3 DEF Tracked
  <2>7. AllTracked' /\ InitOutlivesRenderers'
    BY <2>1, <2>6 DEF AllTracked, InitOutlivesRenderers
  <2>8. HeldAlive'
    BY <1>1, <2>1 DEF HeldAlive, OneOwner
  <2>9. CleanExit'
    BY <2>1 DEF CleanExit
  <2> QED
    BY <1>2, <1>3, <2>4, <2>5, <2>7, <2>8, <2>9
<1>5. CASE UNCHANGED <<slot, alive>>
  <2>1. TypeOK'
    BY <1>5 DEF TypeOK
  <2>2. NoDanglingSlot' /\ AllTracked' /\ InitOutlivesRenderers' /\ CleanExit'
    BY <1>5 DEF NoDanglingSlot, AllTracked, InitOutlivesRenderers, CleanExit, Tracked
  <2>3. HeldAlive'
    BY <1>1, <1>5 DEF HeldAlive
  <2> QED
    BY <1>2, <1>3, <2>1, <2>2, <2>3
<1> QED
  BY <1>4, <1>5

LEMMA DeleteVRayInitStep ==
  ASSUME IInv, NEW m \in Modules, DeleteVRayInit(m)
  PROVE  IInv'
<1> USE NullAssumption DEF IInv, DeleteVRayInit
<1>1. ~present => Tracked = {} /\ ~vrayInit /\ attached = {}
  BY DEF InitOutlivesRenderers, Attachment
<1>2. /\ unloaded' = unloaded \cup {m}
      /\ pc' = Idle
  OBVIOUS
<1>3. HeldAlive' /\ OneOwner' /\ ReadyHasInit'
  BY <1>2 DEF HeldAlive, OneOwner, ReadyHasInit
<1>4. CASE ~present
  <2> UNCHANGED <<present, attached, vrayInit, slot, alive>>
    BY <1>4
  <2>1. TypeOK'
    BY DEF TypeOK
  <2>2. Attachment'
    BY <1>1, <1>4 DEF Attachment
  <2>3. NoDanglingSlot' /\ AllTracked' /\ InitOutlivesRenderers'
    BY DEF NoDanglingSlot, AllTracked, InitOutlivesRenderers, Tracked
  <2>4. CleanExit'
    BY <1>1, <1>4 DEF CleanExit, AllTracked
  <2> QED
    BY <1>3, <2>1, <2>2, <2>3, <2>4
<1>5. CASE present
  <2> /\ alive' = alive \ Tracked
      /\ slot' = EmptyTable
      /\ vrayInit' = FALSE
      /\ attached' = attached \ {m}
      /\ present' = (attached \ {m} # {})
    BY <1>5
  <2>1. TypeOK'
    BY DEF TypeOK, EmptyTable
  <2>2. Attachment'
    BY DEF Attachment
  <2>3. Tracked' = {}
    BY DEF Tracked, EmptyTable
  <2>4. NoDanglingSlot'
    BY DEF NoDanglingSlot, EmptyTable
  <2>5. AllTracked' /\ InitOutlivesRenderers'
    BY <2>3 DEF AllTracked, InitOutlivesRenderers
  <2>6. CleanExit'
    BY <2>2, <2>3, <2>5 DEF CleanExit, Attachment, AllTracked
  <2> QED
    BY <1>3, <2>1, <2>2, <2>4, <2>5, <2>6
<1> QED
  BY <1>4, <1>5

LEMMA IInvStep == IInv /\ [Next]_vars => IInv'
<1> SUFFICES ASSUME IInv, [Next]_vars PROVE IInv'
  OBVIOUS
<1>1. CASE UNCHANGED vars
  BY <1>1 DEF vars, IInv, TypeOK, Attachment, NoDanglingSlot, AllTracked, Tracked,
              InitOutlivesRenderers, HeldAlive, OneOwner, ReadyHasInit, CleanExit
<1>2. CASE Next
  BY <1>2, NewVRayInitStep, NewDummyStep, NewVRayRendererStep, NoRendererStep,
     DeleteVRayRendererStep, DeleteVRayInitStep DEF Next
<1> QED
  BY <1>1, <1>2

LEMMA IInvHolds == Spec => []IInv
BY InitIInv, IInvStep, PTL DEF Spec

\* The variables of the registry keep their types.
THEOREM TypeCorrect == Spec => []TypeOK
<1>1. IInv => TypeOK
  BY DEF IInv
<1> QED
  BY <1>1, IInvHolds, PTL

\* The table of renderers never names a deleted renderer nor one renderer
\* twice, so deleteVRayInit() deletes each once.
THEOREM TableIsSafe == Spec => []NoDanglingSlot
<1>1. IInv => NoDanglingSlot
  BY DEF IInv
<1> QED
  BY <1>1, IInvHolds, PTL

\* While no module was unloaded, deleteVRayRenderer() never deletes a renderer
\* that another client still holds.
THEOREM HeldRenderersLive == Spec => [](HeldAlive /\ OneOwner)
<1>1. IInv => HeldAlive /\ OneOwner
  BY DEF IInv
<1> QED
  BY <1>1, IInvHolds, PTL

\* Renderers exist only under a VRayInit.
THEOREM RenderersNeedInit == Spec => [](InitOutlivesRenderers /\ ReadyHasInit)
<1>1. IInv => InitOutlivesRenderers /\ ReadyHasInit
  BY DEF IInv
<1> QED
  BY <1>1, IInvHolds, PTL

\* The last unload leaves neither VRayInit nor the segment nor a renderer, but
\* for those created while the table was full.
THEOREM LastUnloadCleansUp == Spec => [](AllTracked /\ CleanExit)
<1>1. IInv => AllTracked /\ CleanExit
  BY DEF IInv
<1> QED
  BY <1>1, IInvHolds, PTL
=============================================================================
