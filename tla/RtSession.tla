------------------------------- MODULE RtSession -------------------------------
(***************************************************************************)
(* The RT session of a V-Ray ROP: the callbacks the exporter registers at  *)
(* the nodes it exports (addOpCallback()), the list it keeps of them, what *)
(* the callbacks do when nodes change or are deleted, the take the session *)
(* switches to, and exportEnd(), which V-Ray calls on its own thread when  *)
(* an RT render ends or its frame buffer is closed.  Production and cloud  *)
(* sessions of the same ROP may start at any time the UI thread is free.   *)
(*                                                                         *)
(* Houdini delivers a node's events on the UI thread, to the interests the *)
(* node has; a deleted node takes its interests with it.  A callback that  *)
(* is raised inside another, or inside an export, returns at once (csect,  *)
(* inSceneExport) and is left out.  Node creation is left out as well: the *)
(* bodies of its handlers are compiled out.                                *)
(***************************************************************************)
EXTENDS Integers

CONSTANTS
  Geometry,     \* geometry objects; their SOPs are like them
  Lights,       \* lights and clippers
  Shaders,      \* materials and VOPs
  Camera, Rop,
  Takes,
  NoTake,       \* the null pointer
  MaxSessions   \* bound: sessions of the ROP

Objects == Geometry \cup Lights
Nodes == Objects \cup Shaders \cup {Camera, Rop}

ASSUME NodesAssumption ==
  /\ Geometry \cap Lights = {}
  /\ Objects \cap Shaders = {}
  /\ Camera \notin Objects \cup Shaders
  /\ Rop \notin Objects \cup Shaders \cup {Camera}
  /\ NoTake \notin Takes
  /\ MaxSessions \in Nat

\* The callbacks a node may have.  Those of objects are one, "Object".
Callbacks ==
  (Objects \X {"Object"}) \cup (Geometry \X {"Displacement"})
    \cup (Shaders \X {"Shader"}) \cup {<<Camera, "Camera">>, <<Rop, "Camera">>, <<Rop, "Rop">>}

VARIABLES
  upc,          \* the UI thread: "idle", "export" (RT), "driver", "crash"
  epc,          \* exportEnd() on V-Ray's thread: "none" or its next step
  sessionType,  \* "production", "rt", "cloud"
  live,         \* an RT session is between its export and its end
  rendering,    \* the RT session's render runs and its callbacks are bound
  alive,        \* nodes that exist
  interests,    \* callbacks of this exporter that Houdini knows
  entries,      \* m_opRegCallbacks; repeated entries make no difference
  scene,        \* objects that were exported since the renderer was reset and exist
  uiTake,       \* Houdini's current take
  currentTake,  \* the take the exporter saved
  chosen,       \* history: the takes the user has selected
  raced,        \* history: the UI thread used the exporter during exportEnd()
  sessions      \* bound counter

tracking == <<alive, interests, entries, scene>>
takes    == <<uiTake, currentTake, chosen>>
control  == <<sessionType, live, rendering>>
vars == <<upc, epc, control, tracking, takes, raced, sessions>>

TypeOK ==
  /\ upc \in {"idle", "export", "driver", "crash"}
  /\ epc \in {"none", "reset", "clear", "take", "unbind", "crash"}
  /\ sessionType \in {"production", "rt", "cloud"}
  /\ live \in BOOLEAN /\ rendering \in BOOLEAN
  /\ alive \subseteq Nodes
  /\ interests \subseteq Callbacks /\ entries \subseteq Callbacks
  /\ scene \subseteq Objects
  /\ uiTake \in Takes /\ currentTake \in Takes \cup {NoTake}
  /\ chosen \subseteq Takes /\ raced \in BOOLEAN
  /\ sessions \in 0 .. MaxSessions

Init ==
  /\ upc = "idle" /\ epc = "none" /\ sessionType = "production"
  /\ live = FALSE /\ rendering = FALSE
  /\ alive = Nodes /\ interests = {} /\ entries = {} /\ scene = {}
  /\ uiTake \in Takes /\ currentTake = NoTake
  /\ chosen = {uiTake} /\ raced = FALSE /\ sessions = 0

-----------------------------------------------------------------------------
(* The callback list. *)

\* addOpCallback() returns at once in a production session.
Wanted(new) == IF sessionType = "production" THEN {} ELSE new

\* Mutant: the interest is not stored.
AddUnlisted(new) ==
  /\ interests' = interests \cup Wanted(new)
  /\ UNCHANGED entries

\* addOpCallback() for each of new.
AddOpCallbacks(new) ==
  /\ interests' = interests \cup Wanted(new)
  /\ entries' = entries \cup (Wanted(new) \ interests)

\* resetOpCallbacks() asks every node of the list, a deleted one too, which is
\* undefined behaviour.
Dangling == \E e \in entries : e[1] \notin alive

\* resetOpCallbacks(): only listed interests are removed.
Unregistered == interests \ entries

\* V-Ray's thread walks or clears the list: a change of it may crash the program.
ListInUse == epc \in {"reset", "clear"}

\* The UI thread uses the exporter, and nothing keeps exportEnd() away.
UiUses(pc) ==
  /\ raced' = (raced \/ epc # "none")
  /\ upc' = pc \/ (ListInUse /\ upc' = "crash")
  /\ UNCHANGED <<epc, sessions>>

-----------------------------------------------------------------------------
(* Takes. *)

\* applyTake() with a take: the current one is saved unless one is.
ApplyTake(t) ==
  /\ currentTake' = IF currentTake = NoTake THEN uiTake ELSE currentTake
  /\ uiTake' = t
  /\ UNCHANGED chosen

\* The ROP may name no take, and one that is not found is not switched to.
MayApplyTake == UNCHANGED takes \/ \E t \in Takes : ApplyTake(t)

\* restoreCurrentTake(): nothing in a production session.
RestoreTake ==
  IF sessionType # "production" /\ currentTake # NoTake
    THEN uiTake' = currentTake /\ currentTake' = NoTake /\ UNCHANGED chosen
    ELSE UNCHANGED takes

\* The user selects another take.
UserTake ==
  /\ upc \in {"idle", "driver"}
  /\ \E t \in Takes : uiTake' = t /\ chosen' = chosen \cup {t}
  /\ UNCHANGED <<upc, epc, control, tracking, currentTake, raced, sessions>>

-----------------------------------------------------------------------------
(* Sessions. *)

\* Mutant: the ROP is registered before initExporter() resets the callbacks.
RopCallbackLost(type) == {}

\* The callback initSession() registers after initExporter().
RopCallback(type) == IF type = "rt" THEN {<<Rop, "Rop">>} ELSE {}

\* initSession(): the renderer is reset, which unbinds its callbacks and clears
\* its scene; initExporter() resets the node callbacks and binds the renderer's
\* anew.  It needs a camera.
InitSession(type) ==
  /\ upc = "idle" /\ sessions < MaxSessions /\ Camera \in alive
  /\ sessionType' = type
  /\ live' = FALSE /\ rendering' = FALSE
  /\ scene' = {}
  /\ interests' = Unregistered \cup RopCallback(type)
  /\ entries' = RopCallback(type)
  /\ raced' = (raced \/ epc # "none")
  /\ \/ upc' = IF type = "rt" THEN "export" ELSE "driver"
     \/ (Dangling \/ ListInUse) /\ upc' = "crash"
  /\ sessions' = sessions + 1
  /\ UNCHANGED <<epc, alive, takes>>

\* exportObject() follows geometry in RT sessions only.
ObjectCallbacks(objs) ==
  (IF sessionType = "rt" THEN objs ELSE objs \cap Lights) \X {"Object"}

\* exportDisplacement(), exportMaterial() with the VOPs it exports.
DisplacementCallbacks(displaced) == displaced \X {"Displacement"}
ShaderCallbacks(shaders) == shaders \X {"Shader"}

\* exportView() needs a camera.
ViewCallbacks == IF Camera \in alive THEN {Camera, Rop} \X {"Camera"} ELSE {}

\* exportScene(): some objects export, some of them with displacement, and so do
\* some shaders; each is followed.
ExportScene ==
  \E objs \in SUBSET (Objects \cap alive), shaders \in SUBSET (Shaders \cap alive) :
    \E displaced \in SUBSET (Geometry \cap objs) :
      /\ scene' = objs
      /\ AddOpCallbacks(ObjectCallbacks(objs) \cup DisplacementCallbacks(displaced)
                          \cup ShaderCallbacks(shaders) \cup ViewCallbacks)

\* exportFrame() of an RT session; the renderer is started unless the work mode
\* is export only.
ExportRt ==
  /\ upc = "export"
  /\ MayApplyTake
  /\ ExportScene
  /\ live' = TRUE /\ rendering' \in BOOLEAN
  /\ UiUses("idle")
  /\ UNCHANGED <<sessionType, alive>>

\* renderFrame(), for Houdini's driver.
ExportDriven ==
  /\ upc = "driver"
  /\ IF sessionType = "production" THEN UNCHANGED takes ELSE MayApplyTake
  /\ ExportScene
  /\ UiUses("driver")
  /\ UNCHANGED <<control, alive>>

\* endRender(): exportEnd() on the UI thread.
EndRender ==
  /\ upc = "driver"
  /\ interests' = Unregistered /\ entries' = {}
  /\ RestoreTake
  /\ rendering' = FALSE /\ scene' = {}
  /\ raced' = (raced \/ epc # "none")
  /\ \/ upc' = "idle"
     \/ (Dangling \/ ListInUse) /\ upc' = "crash"
  /\ UNCHANGED <<epc, sessionType, live, alive, sessions>>

-----------------------------------------------------------------------------
(* Events of nodes, delivered to the callbacks on the UI thread. *)

Listens(n, cb) == <<n, cb>> \in interests

\* An object is exported again, with the shaders it now has.
Reexported(n) ==
  /\ \E shaders \in SUBSET (Shaders \cap alive), displaced \in SUBSET (Geometry \cap {n}) :
       AddOpCallbacks(ObjectCallbacks({n}) \cup DisplacementCallbacks(displaced)
                        \cup ShaderCallbacks(shaders))
  /\ scene' = scene \cup {n}

GeometryChanged(n)     == n \in Geometry /\ Listens(n, "Object") /\ Reexported(n)
LightChanged(n)        == n \in Lights /\ Listens(n, "Object") /\ Reexported(n)
DisplacementChanged(n) == Listens(n, "Displacement") /\ Reexported(n)

\* A shader is exported again, with the shaders it now uses.
ShaderChanged(n) ==
  /\ Listens(n, "Shader")
  /\ \E shaders \in SUBSET (Shaders \cap alive) : AddOpCallbacks(ShaderCallbacks(shaders))
  /\ UNCHANGED scene

\* The camera or the ROP's camera settings change: the view is exported again.
OnCameraChange(n) ==
  /\ Listens(n, "Camera")
  /\ AddOpCallbacks(ViewCallbacks)
  /\ UNCHANGED scene

NodeChanged(n) ==
  /\ upc \in {"idle", "driver"} /\ n \in alive
  /\ \/ GeometryChanged(n) \/ LightChanged(n) \/ DisplacementChanged(n)
     \/ ShaderChanged(n) \/ OnCameraChange(n)
  /\ UiUses(upc)
  /\ UNCHANGED <<control, alive, takes>>

\* The ROP's parameter "take" changes.
RopTakeChanged ==
  /\ upc = "idle" /\ Listens(Rop, "Rop")
  /\ sessionType # "production"
  /\ \E t \in Takes : ApplyTake(t)
  /\ UiUses(upc)
  /\ UNCHANGED <<control, tracking>>

Removed(n) == {c \in interests : c[1] = n}

\* delOpCallbacks(n), which the object callbacks call on OP_NODE_PREDELETE;
\* those of shaders and cameras call delOpCallback(), which leaves the entry.
Forgotten(n) ==
  IF n \in Objects /\ Listens(n, "Object") THEN {e \in entries : e[1] = n} ELSE {}

\* A node is deleted.  The ROP owns the exporter and is not.  What the renderer
\* keeps of a deleted object is a question of the plugin caches (ObjectExport).
DeleteNode(n) ==
  /\ upc \in {"idle", "driver"}
  /\ n \in alive \ {Rop}
  /\ alive' = alive \ {n}
  /\ entries' = entries \ Forgotten(n)
  /\ interests' = interests \ Removed(n)
  /\ scene' = scene \ {n}
  /\ IF Removed(n) # {} THEN UiUses(upc) ELSE UNCHANGED <<upc, epc, raced, sessions>>
  /\ UNCHANGED <<control, takes>>

-----------------------------------------------------------------------------
(* exportEnd() on V-Ray's thread. *)

\* onStateChanged() or onVfbClosed() of a render that runs.
RenderEnds ==
  /\ epc = "none" /\ rendering /\ sessionType = "rt"
  /\ epc' = "reset" /\ rendering' = FALSE
  /\ UNCHANGED <<upc, sessionType, live, tracking, takes, raced, sessions>>

\* resetOpCallbacks(): the loop over the list.
EndReset ==
  /\ epc = "reset"
  /\ interests' = Unregistered
  /\ \/ epc' = "clear"
     \/ Dangling /\ epc' = "crash"
  /\ UNCHANGED <<upc, control, alive, entries, scene, takes, raced, sessions>>

EndClear ==
  /\ epc = "clear"
  /\ entries' = {}
  /\ epc' = "take"
  /\ UNCHANGED <<upc, control, alive, interests, scene, takes, raced, sessions>>

EndTake ==
  /\ epc = "take"
  /\ RestoreTake
  /\ epc' = "unbind"
  /\ UNCHANGED <<upc, control, tracking, raced, sessions>>

\* m_renderer.reset().
EndUnbind ==
  /\ epc = "unbind"
  /\ rendering' = FALSE /\ live' = FALSE
  /\ scene' = {}
  /\ epc' = "none"
  /\ UNCHANGED <<upc, sessionType, alive, interests, entries, takes, raced, sessions>>

-----------------------------------------------------------------------------

Running == upc # "crash" /\ epc # "crash"

UiThread ==
  \/ \E type \in {"production", "rt", "cloud"} : InitSession(type)
  \/ ExportRt \/ ExportDriven \/ EndRender
  \/ \E n \in Nodes : NodeChanged(n)
  \/ \E n \in Nodes : DeleteNode(n)
  \/ RopTakeChanged \/ UserTake
VRayThread == RenderEnds \/ EndReset \/ EndClear \/ EndTake \/ EndUnbind

Next == Running /\ (UiThread \/ VRayThread)

Spec == Init /\ [][Next]_vars

-----------------------------------------------------------------------------
(* Properties *)

Resting == Running /\ upc = "idle" /\ epc = "none" /\ ~live

\* Without a session no node calls the exporter, which may be gone by then:
\* whatever changed or was deleted, exportEnd() finds every interest in its
\* list, unless it ran against the UI thread.
NoStrayInterest == Resting /\ ~raced => interests = {}

\* In an RT session a deleted object is forgotten in the list, whichever of its
\* callbacks is the one that is told.
DeletedObjectsForgotten ==
  sessionType = "rt" /\ epc = "none" /\ ~raced =>
    \A e \in entries : e[1] \in Objects => e[1] \in alive

\* In an RT session each object of the scene is followed, and so are the camera
\* and the ROP: nothing on the way resets what an earlier step registered.
SceneIsFollowed ==
  live /\ epc = "none" /\ upc = "idle" /\ ~raced =>
    /\ \A n \in scene : <<n, "Object">> \in interests
    /\ <<Rop, "Rop">> \in interests
    /\ Camera \in alive => <<Camera, "Camera">> \in interests

\* The exporter saves only takes the user selected and holds one while the
\* current take is not; after an RT or cloud session the current take is the
\* user's.  A production session that starts on a running RT session keeps the
\* saved take: reset() restores nothing then.
TakeIsUsers ==
  ~raced =>
    /\ currentTake \in chosen \cup {NoTake}
    /\ currentTake = NoTake => uiTake \in chosen
    /\ Resting /\ sessionType # "production" => currentTake = NoTake

=============================================================================
