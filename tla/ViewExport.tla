----------------------------- MODULE ViewExport -----------------------------
(***************************************************************************)
(* How the camera and the settings of the ROP reach the renderer           *)
(* (VRayExporter::exportView, vfh_export_view.cpp).  The exporter keeps    *)
(* the parameters it exported last and compares: some changes rebuild all  *)
(* plugins of the view, others update the one or two they concern.         *)
(* Several changes may lie between two exports of an IPR session.          *)
(***************************************************************************)
EXTENDS Integers

CONSTANTS
  SessionTypes, \* "still", "animation", "rt", "ipr"
  MaxChanges    \* bound on the user's changes

SessionAssumption ==
  SessionTypes \subseteq {"still", "animation", "rt", "ipr"} /\ MaxChanges \in Nat

\* What the user sets.  A lens is a focal length and the unit it is given in, of
\* which 0 is the unit the renderer takes;
\* "wide" is a stereo view that doubles the image; a crop is a range of halves.
Choice ==
  [mode |-> {"none", "auto", "user"}, body |-> {0, 1},
   lens |-> {<<1, 0>>, <<2, 0>>, <<1, 1>>}, override |-> {0, 1},
   tm |-> {0, 1}, ortho |-> {0, 1}, camera |-> {0, 1}, dof |-> {0, 1}, blur |-> {0, 1},
   stereo |-> {"off", "on", "wide"}, width |-> {4, 6}, scale |-> {1, 2},
   crop |-> {<<0, 2>>, <<1, 2>>}]
Default ==
  [mode |-> "none", body |-> 0, lens |-> <<1, 0>>, override |-> 0, tm |-> 0, ortho |-> 0,
   camera |-> 0, dof |-> 0, blur |-> 0, stereo |-> "off", width |-> 4, scale |-> 1,
   crop |-> <<0, 2>>]

VARIABLES
  session, gpu, headlight, \* how the scene is exported
  want,     \* the camera and the ROP now
  told,     \* a change has reached exportView()
  changes,  \* bound counter
  first,    \* m_viewParams.firstExport
  last,     \* m_viewParams
  view,     \* the plugins of the view: name -> what they were given, or Absent
  camera,   \* the renderer's camera
  size,     \* the renderer's image width
  region,   \* the renderer's region
  light,    \* the transform of the default headlight
  since,    \* history: the parameters exported since the last reset of the view,
            \* which included
  regions   \* history: the crop regions exported that were not the whole image

fixed == <<session, gpu, headlight>>
renderer == <<view, camera, size, region, light>>
history == <<since, regions>>
viewVars == <<fixed, want, told, changes, first, last, renderer, history>>

Interactive == session \in {"rt", "ipr"}

-----------------------------------------------------------------------------
(* Reading the parameters. *)

Whole(w) == <<0, w>>
Part(w, crop) == <<(w * crop[1]) \div 2, (w * (crop[2] - crop[1])) \div 2>>

\* fillViewParamsResFromCameraNode(), then the stereo view of the ROP: the region
\* is that of the image before it is doubled. An IPR reads the resolution again, from
\* its viewer or its camera, and does not double it.
ImageWidth(p) == p.width * p.scale
RenderWidth(p) ==
  IF p.stereo = "wide" /\ session # "ipr" THEN 2 * ImageWidth(p) ELSE ImageWidth(p)

\* fillViewParamsFromCameraNode(): a field of view set on the ROP comes first, and
\* the unit is not read then.  An IPR takes the field of view from its viewer.
Fov(p) == IF p.override = 1 /\ session # "ipr" THEN <<"rop", p.override>> ELSE <<"lens", p.lens>>
FocalUnits(p) == IF p.override = 1 THEN 0 ELSE p.lens[2]

\* usePhysicalCamera(), fillPhysicalViewParamsFromCameraNode()
PhysicalCamera(p) ==
  CASE p.mode = "none" -> [units |-> FocalUnits(p), fov |-> <<>>, body |-> <<>>]
    [] p.mode = "auto" -> [units |-> FocalUnits(p), fov |-> Fov(p), body |-> <<"offset", p.body>>]
    [] p.mode = "user" -> [units |-> FocalUnits(p),
                           fov |-> IF p.override = 1 THEN Fov(p) ELSE <<"own", p.body>>,
                           body |-> <<"user", p.body>>]

ViewParams(p) ==
  [useCameraPhysical |-> p.mode, cameraPhysical |-> PhysicalCamera(p),
   renderView |-> [fov |-> Fov(p), fovRopOverride |-> p.override, tm |-> p.tm,
                   ortho |-> IF session = "ipr" THEN p.ortho ELSE 0],
   stereo |-> p.stereo, settingsCamera |-> p.camera, settingsCameraDof |-> p.dof,
   settingsMotionBlur |-> p.blur, renderSize |-> RenderWidth(p),
   cropRegion |-> Part(ImageWidth(p), p.crop)]
NoParams ==
  [ViewParams(Default) EXCEPT !.renderView.tm = -1, !.renderSize = 0, !.cropRegion = <<0, 0>>]

-----------------------------------------------------------------------------
(* Comparing with the last export. *)

StereoOn(v) == v.stereo # "off"

\* ViewParams::needReset(): StereoViewParams compares all but adjust_resolution.
NeedReset(v) ==
  \/ last.useCameraPhysical # v.useCameraPhysical
  \/ last.settingsCamera # v.settingsCamera
  \/ last.settingsCameraDof # v.settingsCameraDof
  \/ last.settingsMotionBlur # v.settingsMotionBlur
  \/ StereoOn(last) # StereoOn(v)

\* exportView(): an animation exports all keys at every frame.
NeedReExport(v) == session = "animation" \/ first \/ (Interactive /\ NeedReset(v))
ChangedPhysCam(v) == last.cameraPhysical # v.cameraPhysical
ChangedParams(v) == last.renderView # v.renderView

-----------------------------------------------------------------------------
(* The plugins. *)

Absent == <<>>
NoPlugins ==
  [name \in {"RenderView", "SettingsCamera", "SettingsCameraDof", "SettingsMotionBlur",
             "VRayStereoscopicSettings", "CameraPhysical", "CameraDefault"} |-> Absent]
Given(value) == <<value>>

\* exportRenderView(): a renderer without GPU has a plugin of its own for stereo.
\* Attributes that are not given stay as they were.
WithRenderView(plugins, v) ==
  LET stereo == IF StereoOn(v) /\ gpu THEN v.stereo
                ELSE IF plugins.RenderView = Absent THEN "off" ELSE plugins.RenderView[1].stereo
  IN [plugins EXCEPT !.RenderView = Given([v |-> v.renderView, stereo |-> stereo])]

\* exportPhysicalCamera(): the vertical offset depends on the size of the image.
WithCameraPhysical(plugins, v) ==
  [plugins EXCEPT !.CameraPhysical = Given([v |-> v.cameraPhysical, aspect |-> v.renderSize])]

\* exportSettingsMotionBlur(), exportSettingsCameraDof(), exportCameraDefault()
WithCameraDefault(plugins, v) ==
  [plugins EXCEPT
     !.SettingsMotionBlur = Given(v.settingsMotionBlur),
     !.SettingsCameraDof = IF v.renderView.ortho = 1 THEN @ ELSE Given(v.settingsCameraDof),
     !.CameraDefault = Given(v.renderView.ortho)]

CameraOf(v) == IF v.useCameraPhysical = "none" THEN "CameraDefault" ELSE "CameraPhysical"
WithCamera(plugins, v) ==
  IF CameraOf(v) = "CameraDefault" THEN WithCameraDefault(plugins, v) ELSE WithCameraPhysical(plugins, v)

\* exportSettingsCamera(), exportStereoSettings()
WithSettings(plugins, v) ==
  [plugins EXCEPT
     !.SettingsCamera = Given(v.settingsCamera),
     !.VRayStereoscopicSettings = IF StereoOn(v) /\ ~gpu THEN Given(v.stereo) ELSE @]

ResetView(v) ==
  LET before == IF Interactive /\ ~first THEN NoPlugins ELSE view
  IN /\ view' = WithRenderView(WithSettings(WithCamera(before, v), v), v)
     /\ camera' = CameraOf(v)

UpdatePhysCam(v) ==
  /\ view' = WithRenderView([WithCameraPhysical(view, v) EXCEPT !.RenderView = Absent], v)
  /\ camera' = "CameraPhysical"

UpdateRenderView(v) ==
  view' = WithRenderView(view, v) /\ UNCHANGED camera

\* Mutant: a physical camera is only updated with the render view.
UpdateIfParams(v) ==
  CASE ChangedParams(v) -> UpdateRenderView(v)
    [] OTHER            -> UNCHANGED <<view, camera>>

UpdateView(v) ==
  CASE ChangedPhysCam(v)                     -> UpdatePhysCam(v)
    [] ~ChangedPhysCam(v) /\ ChangedParams(v) -> UpdateRenderView(v)
    [] OTHER                                 -> UNCHANGED <<view, camera>>

\* A region that is the whole image is not set, whatever was set before.
SetImage(v) ==
  /\ size' = v.renderSize
  /\ region' = IF last.cropRegion # v.cropRegion /\ v.cropRegion # Whole(v.renderSize)
               THEN v.cropRegion ELSE region

Remember(v) ==
  /\ since' = IF NeedReExport(v) THEN {v} ELSE since \cup {v}
  /\ regions' = regions \cup ({v.cropRegion} \ {Whole(v.renderSize)})

\* exportView(viewParams)
ExportView(v) ==
  /\ CASE NeedReExport(v)                 -> ResetView(v)
       [] ~NeedReExport(v) /\ Interactive -> UpdateView(v)
       [] OTHER                           -> UNCHANGED <<view, camera>>
  /\ SetImage(v)
  /\ last' = v /\ first' = FALSE
  /\ Remember(v)

-----------------------------------------------------------------------------
(* Sessions. *)

Init ==
  /\ session \in SessionTypes /\ gpu \in BOOLEAN /\ headlight \in BOOLEAN
  /\ want = Default /\ told = FALSE /\ changes = 0
  /\ first = TRUE /\ last = NoParams
  /\ view = NoPlugins /\ camera = "" /\ size = 0 /\ region = Absent /\ light = Absent
  /\ since = {} /\ regions = {}

\* exportDefaultHeadlight(): an update does not create it.
Headlight(v, update) ==
  light' = IF headlight /\ (update => light # Absent) THEN Given(v.renderView.tm) ELSE light

\* The export of the scene, at the start of a session and at the frames of an
\* animation; a frame of stills resets the exporter.
ExportScene ==
  /\ first \/ (session = "animation" /\ ~told)
  /\ ExportView(ViewParams(want)) /\ Headlight(ViewParams(want), FALSE)
  /\ told' = TRUE /\ UNCHANGED <<fixed, want, changes>>

\* The parameters of the ROP the callback of an RT session looks at are told by
\* their name; the one that scales the camera's resolution is not among them.
Watched(parm) == parm # "scale"

\* onCameraChange() is called in the user's edit; an IPR is told by its driver.
Change(parm, value) ==
  /\ ~first /\ session # "still" /\ changes < MaxChanges /\ want[parm] # value
  /\ parm = "ortho" => session = "ipr"
  /\ want' = [want EXCEPT ![parm] = value] /\ changes' = changes + 1
  /\ IF session = "rt" /\ Watched(parm)
     THEN LET v == ViewParams(want')
          IN ExportView(v) /\ Headlight(v, TRUE) /\ told' = TRUE
     ELSE told' = FALSE /\ UNCHANGED <<first, last, renderer, history>>
  /\ UNCHANGED fixed

\* vfhExportView()
IprExportView ==
  /\ session = "ipr" /\ ~first /\ ~told
  /\ ExportView(ViewParams(want)) /\ Headlight(ViewParams(want), TRUE)
  /\ told' = TRUE /\ UNCHANGED <<fixed, want, changes>>

Next ==
  \/ ExportScene \/ IprExportView
  \/ \E parm \in DOMAIN Choice : \E value \in Choice[parm] : Change(parm, value)

Spec == Init /\ [][Next]_viewVars

-----------------------------------------------------------------------------
(* What the export of the view should guarantee. *)

Cropped == want.crop # <<0, 2>>

\* Whatever changed since the last export, once exportView() has run the renderer
\* has what the camera and the ROP say: the render view, the settings of the camera,
\* the blur of a default camera, all of the physical camera but its vertical offset,
\* whether it is stereo, the width of the image, the region of a cropped image and
\* the headlight at the camera. The rest is what exportView() and needReset() leave
\* in place: the default camera, its depth of field, the vertical offset (which
\* depends on the width) and how stereo doubles the image are those of the last
\* reset or of an update since; a default camera gives way to a physical one after
\* the first change of the focal units; an animation keeps the stereo settings of an
\* earlier frame; and a region, once set, stays when the image is no longer cropped.
ViewIsCurrent ==
  told =>
    LET v == ViewParams(want)
    IN /\ view.RenderView # Absent /\ view.RenderView[1].v = v.renderView
       /\ view.SettingsCamera = Given(v.settingsCamera)
       /\ v.useCameraPhysical = "none" =>
            /\ view.SettingsMotionBlur = Given(v.settingsMotionBlur)
            /\ \E u \in since :
                 /\ view.CameraDefault = Given(u.renderView.ortho)
                 /\ view.SettingsCameraDof =
                      IF u.renderView.ortho = 1 THEN Absent ELSE Given(v.settingsCameraDof)
            /\ camera = IF \A u \in since : u.cameraPhysical = v.cameraPhysical
                        THEN "CameraDefault" ELSE "CameraPhysical"
       /\ v.useCameraPhysical # "none" =>
            /\ camera = "CameraPhysical"
            /\ view.CameraPhysical[1].v = v.cameraPhysical
            /\ \E u \in since : view.CameraPhysical[1].aspect = u.renderSize
       /\ view[camera] # Absent
       /\ (Interactive /\ ~gpu) =>
            \E u \in since : view.VRayStereoscopicSettings =
                              IF StereoOn(v) THEN Given(u.stereo) ELSE Absent
       /\ (StereoOn(v) /\ ~gpu) => view.VRayStereoscopicSettings # Absent
       /\ (StereoOn(v) /\ gpu) => view.RenderView[1].stereo # "off"
       /\ (Interactive /\ gpu) => (StereoOn(v) <=> view.RenderView[1].stereo # "off")
       /\ size = v.renderSize
       /\ Cropped => region = v.cropRegion
       /\ region \in {Absent} \cup regions
       /\ region = Absent => \A r \in regions : r[1] = 0
       /\ light # Absent => light = Given(v.renderView.tm)
=============================================================================
