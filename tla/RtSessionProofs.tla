---------------------------- MODULE RtSessionProofs ----------------------------
(***************************************************************************)
(* Theorems about RtSession, for any nodes, takes and number of sessions.  *)
(* All of them hold while the UI thread keeps away from the exporter       *)
(* during exportEnd() (~raced): the code does not make it.                 *)
(***************************************************************************)
EXTENDS RtSession, TLAPS

-----------------------------------------------------------------------------
(* Type correctness. *)

\* The callbacks an export adds are callbacks.
LEMMA CallbacksAreTyped ==
  ASSUME NEW objs \in SUBSET Objects, NEW displaced \in SUBSET Geometry,
         NEW shaders \in SUBSET Shaders
  PROVE  /\ ObjectCallbacks(objs) \subseteq Callbacks
         /\ DisplacementCallbacks(displaced) \subseteq Callbacks
         /\ ShaderCallbacks(shaders) \subseteq Callbacks
         /\ ViewCallbacks \subseteq Callbacks
BY DEF ObjectCallbacks, DisplacementCallbacks, ShaderCallbacks, ViewCallbacks,
       Callbacks, Objects

LEMMA AddKeepsType ==
  ASSUME TypeOK, NEW new, new \subseteq Callbacks, AddOpCallbacks(new)
  PROVE  interests' \subseteq Callbacks /\ entries' \subseteq Callbacks
BY DEF TypeOK, AddOpCallbacks, Wanted

LEMMA ApplyKeepsType ==
  ASSUME TypeOK, MayApplyTake \/ (\E t \in Takes : ApplyTake(t)) \/ RestoreTake
  PROVE  /\ uiTake' \in Takes /\ currentTake' \in Takes \cup {NoTake}
         /\ chosen' \subseteq Takes
BY DEF TypeOK, MayApplyTake, ApplyTake, RestoreTake, takes

LEMMA UseKeepsType ==
  ASSUME TypeOK, NEW pc \in {"idle", "export", "driver"}, UiUses(pc)
  PROVE  /\ upc' \in {"idle", "export", "driver", "crash"}
         /\ epc' \in {"none", "reset", "clear", "take", "unbind", "crash"}
         /\ raced' \in BOOLEAN
         /\ sessions' \in 0 .. MaxSessions
BY DEF TypeOK, UiUses

LEMMA SceneKeepsType ==
  ASSUME TypeOK, ExportScene
  PROVE  scene' \subseteq Objects /\ interests' \subseteq Callbacks /\ entries' \subseteq Callbacks
<1>1. PICK objs \in SUBSET (Objects \cap alive), shaders \in SUBSET (Shaders \cap alive),
           displaced \in SUBSET Geometry :
        /\ scene' = objs
        /\ AddOpCallbacks(ObjectCallbacks(objs) \cup DisplacementCallbacks(displaced)
                            \cup ShaderCallbacks(shaders) \cup ViewCallbacks)
  BY DEF ExportScene
<1>2. ObjectCallbacks(objs) \cup DisplacementCallbacks(displaced)
        \cup ShaderCallbacks(shaders) \cup ViewCallbacks \subseteq Callbacks
  BY CallbacksAreTyped
<1> QED  BY <1>1, <1>2, AddKeepsType

LEMMA ChangeKeepsType ==
  ASSUME TypeOK, NEW n \in Nodes, NodeChanged(n)
  PROVE  scene' \subseteq Objects /\ interests' \subseteq Callbacks /\ entries' \subseteq Callbacks
<1>1. CASE Reexported(n) /\ n \in Objects
  <2>1. PICK shaders \in SUBSET (Shaders \cap alive), displaced \in SUBSET (Geometry \cap {n}) :
          AddOpCallbacks(ObjectCallbacks({n}) \cup DisplacementCallbacks(displaced)
                           \cup ShaderCallbacks(shaders))
    BY <1>1 DEF Reexported
  <2>2. ObjectCallbacks({n}) \cup DisplacementCallbacks(displaced)
          \cup ShaderCallbacks(shaders) \subseteq Callbacks
    BY <1>1, CallbacksAreTyped
  <2>3. interests' \subseteq Callbacks /\ entries' \subseteq Callbacks
    BY <2>1, <2>2, AddKeepsType
  <2> QED  BY <1>1, <2>3 DEF Reexported, TypeOK
<1>2. CASE ShaderChanged(n)
  <2>1. PICK shaders \in SUBSET (Shaders \cap alive) : AddOpCallbacks(ShaderCallbacks(shaders))
    BY <1>2 DEF ShaderChanged
  <2>2. ShaderCallbacks(shaders) \subseteq Callbacks
    BY CallbacksAreTyped
  <2> QED  BY <1>2, <2>1, <2>2, AddKeepsType DEF ShaderChanged, TypeOK
<1>3. CASE OnCameraChange(n)
  BY <1>3, CallbacksAreTyped, AddKeepsType DEF OnCameraChange, TypeOK
<1>4. DisplacementChanged(n) => n \in Objects
  BY NodesAssumption DEF DisplacementChanged, Listens, TypeOK, Callbacks, Objects
<1> QED  BY <1>1, <1>2, <1>3, <1>4
         DEF NodeChanged, GeometryChanged, LightChanged, DisplacementChanged, Objects

LEMMA TypeInit == Init => TypeOK
<1>1. Init => sessions \in 0 .. MaxSessions
  BY NodesAssumption DEF Init
<1>2. Init => chosen \subseteq Takes
  BY DEF Init
<1> QED  BY <1>1, <1>2 DEF Init, TypeOK

LEMMA TypeSession ==
  ASSUME TypeOK, NEW type \in {"production", "rt", "cloud"}, InitSession(type)
  PROVE  TypeOK'
<1>1. sessions' \in 0 .. MaxSessions
  BY NodesAssumption DEF TypeOK, InitSession
<1>2. RopCallback(type) \subseteq Callbacks
  BY DEF RopCallback, Callbacks
<1>3. interests' \subseteq Callbacks /\ entries' \subseteq Callbacks
  BY <1>2 DEF TypeOK, InitSession, Unregistered
<1>4. upc' \in {"idle", "export", "driver", "crash"} /\ raced' \in BOOLEAN
  BY DEF TypeOK, InitSession
<1> QED  BY <1>1, <1>3, <1>4 DEF TypeOK, InitSession, takes

LEMMA TypeExport ==
  ASSUME TypeOK, ExportRt \/ ExportDriven
  PROVE  TypeOK'
<1>1. PICK pc \in {"idle", "driver"} : UiUses(pc)
  BY DEF ExportRt, ExportDriven
<1>2. scene' \subseteq Objects /\ interests' \subseteq Callbacks /\ entries' \subseteq Callbacks
  BY SceneKeepsType DEF ExportRt, ExportDriven
<1>3. MayApplyTake
  BY DEF ExportRt, ExportDriven, MayApplyTake
<1> QED  BY <1>1, <1>2, <1>3, UseKeepsType, ApplyKeepsType
         DEF TypeOK, ExportRt, ExportDriven, control

LEMMA TypeNode ==
  ASSUME TypeOK, NEW n \in Nodes, NodeChanged(n) \/ DeleteNode(n)
  PROVE  TypeOK'
<1>1. CASE NodeChanged(n)
  <2>1. upc \in {"idle", "driver"} /\ UiUses(upc)
    BY <1>1 DEF NodeChanged
  <2> QED  BY <1>1, <2>1, UseKeepsType, ChangeKeepsType DEF NodeChanged, TypeOK, control, takes
<1>2. CASE DeleteNode(n)
  <2>1. /\ upc' \in {"idle", "export", "driver", "crash"}
        /\ epc' \in {"none", "reset", "clear", "take", "unbind", "crash"}
        /\ raced' \in BOOLEAN
        /\ sessions' \in 0 .. MaxSessions
    BY <1>2, UseKeepsType DEF DeleteNode, TypeOK
  <2> QED  BY <1>2, <2>1 DEF DeleteNode, TypeOK, control, takes
<1> QED  BY <1>1, <1>2

LEMMA TypeNext == TypeOK /\ [Next]_vars => TypeOK'
<1> SUFFICES ASSUME TypeOK, [Next]_vars  PROVE TypeOK'
  OBVIOUS
<1>1. ASSUME NEW type \in {"production", "rt", "cloud"}, InitSession(type)  PROVE TypeOK'
  BY <1>1, TypeSession
<1>2. CASE ExportRt \/ ExportDriven
  BY <1>2, TypeExport
<1>3. CASE EndRender
  BY <1>3, ApplyKeepsType DEF EndRender, TypeOK, Unregistered
<1>4. ASSUME NEW n \in Nodes, NodeChanged(n) \/ DeleteNode(n)  PROVE TypeOK'
  BY <1>4, TypeNode
<1>5. CASE RopTakeChanged
  <2>1. upc = "idle" /\ UiUses(upc)
    BY <1>5 DEF RopTakeChanged
  <2> QED  BY <1>5, <2>1, UseKeepsType, ApplyKeepsType DEF RopTakeChanged, TypeOK, control, tracking
<1>6. CASE UserTake
  BY <1>6 DEF UserTake, TypeOK, control, tracking
<1>7. CASE RenderEnds \/ EndReset \/ EndClear \/ EndUnbind
  BY <1>7 DEF RenderEnds, EndReset, EndClear, EndUnbind, TypeOK, control, tracking, takes,
              Unregistered
<1>8. CASE EndTake
  BY <1>8, ApplyKeepsType DEF EndTake, TypeOK, control, tracking
<1>9. CASE UNCHANGED vars
  BY <1>9 DEF vars, TypeOK, control, tracking, takes
<1> QED  BY <1>1, <1>2, <1>3, <1>4, <1>5, <1>6, <1>7, <1>8, <1>9
         DEF Next, UiThread, VRayThread

\* Every variable keeps its type: the exporter only ever lists callbacks that
\* nodes have, and the current take is never the null pointer.
THEOREM TypeCorrect == Spec => []TypeOK
BY TypeInit, TypeNext, PTL DEF Spec

-----------------------------------------------------------------------------
(* The inductive invariant. *)

Between == upc = "idle" /\ epc = "none" /\ ~live

\* Which sessions may be in which state of the UI thread.  Initialising a
\* session stops a render, so none ends while its successor exports.
PhaseInv ==
  /\ live => sessionType = "rt"
  /\ upc = "export" => sessionType = "rt"
  /\ upc = "driver" => sessionType # "rt"
  /\ upc \in {"export", "driver"} => ~live /\ ~rendering
  /\ ~raced /\ epc # "none" => upc # "export"

\* Every interest is listed, so that exportEnd() removes it.
ListInv ==
  ~raced =>
    /\ interests \subseteq entries
    /\ epc \in {"clear", "take", "unbind"} => interests = {}
    /\ epc \in {"take", "unbind"} \/ Between => entries = {}

TakeInv ==
  ~raced =>
    /\ currentTake \in chosen \cup {NoTake}
    /\ currentTake = NoTake => uiTake \in chosen
    /\ (epc = "unbind" \/ Between) /\ sessionType # "production" => currentTake = NoTake

\* In an RT session whatever is listed or in the scene is followed by the
\* callback of its object, the one that forgets it.
SceneInv ==
  sessionType = "rt" /\ epc = "none" /\ ~raced =>
    /\ \A e \in entries :
         e[1] \in Objects => e[1] \in alive /\ <<e[1], "Object">> \in interests
    /\ \A n \in scene : n \in alive /\ <<n, "Object">> \in interests
    /\ upc = "export" \/ live => <<Rop, "Rop">> \in interests
    /\ live /\ Camera \in alive => <<Camera, "Camera">> \in interests

\* A use of the exporter that does not race with exportEnd() cannot crash in it.
LEMMA UseAlone ==
  ASSUME NEW pc, UiUses(pc), ~raced'
  PROVE  epc = "none" /\ epc' = "none" /\ ~raced /\ upc' = pc
BY DEF UiUses, ListInUse

LEMMA PhaseNext == TypeOK /\ PhaseInv /\ [Next]_vars => PhaseInv'
<1> SUFFICES ASSUME TypeOK, PhaseInv, [Next]_vars  PROVE PhaseInv'
  OBVIOUS
<1>1. ASSUME NEW type \in {"production", "rt", "cloud"}, InitSession(type)  PROVE PhaseInv'
  BY <1>1 DEF PhaseInv, InitSession, takes
<1>2. CASE ExportRt \/ ExportDriven
  BY <1>2 DEF PhaseInv, ExportRt, ExportDriven, UiUses, ListInUse, control
<1>3. CASE EndRender
  BY <1>3 DEF PhaseInv, EndRender
<1>4. ASSUME NEW n \in Nodes, NodeChanged(n)  PROVE PhaseInv'
  BY <1>4 DEF PhaseInv, NodeChanged, UiUses, control
<1>5. ASSUME NEW n \in Nodes, DeleteNode(n)  PROVE PhaseInv'
  BY <1>5 DEF PhaseInv, DeleteNode, UiUses, control
<1>6. CASE RopTakeChanged \/ UserTake
  BY <1>6 DEF PhaseInv, RopTakeChanged, UserTake, UiUses, control
<1>7. CASE RenderEnds \/ EndReset \/ EndClear \/ EndTake \/ EndUnbind
  BY <1>7 DEF PhaseInv, RenderEnds, EndReset, EndClear, EndTake, EndUnbind, control
<1>8. CASE UNCHANGED vars
  BY <1>8 DEF vars, PhaseInv, control
<1> QED  BY <1>1, <1>2, <1>3, <1>4, <1>5, <1>6, <1>7, <1>8
         DEF Next, UiThread, VRayThread

-----------------------------------------------------------------------------
(* Interests and the list. *)

LEMMA AddKeepsListed ==
  ASSUME NEW new, AddOpCallbacks(new), interests \subseteq entries
  PROVE  interests' \subseteq entries'
BY DEF AddOpCallbacks

LEMMA ChangeAdds ==
  ASSUME NEW n \in Nodes, NodeChanged(n)
  PROVE  \E new : AddOpCallbacks(new)
<1>1. CASE Reexported(n)
  BY <1>1 DEF Reexported
<1>2. CASE ShaderChanged(n)
  BY <1>2 DEF ShaderChanged
<1>3. CASE OnCameraChange(n)
  BY <1>3 DEF OnCameraChange
<1> QED  BY <1>1, <1>2, <1>3
         DEF NodeChanged, GeometryChanged, LightChanged, DisplacementChanged

\* A node that changes or listens has an interest.
LEMMA ChangeIsHeard ==
  ASSUME NEW n \in Nodes, NodeChanged(n)
  PROVE  interests # {}
BY DEF NodeChanged, GeometryChanged, LightChanged, DisplacementChanged, ShaderChanged,
       OnCameraChange, Listens

LEMMA ListNext == TypeOK /\ ListInv /\ [Next]_vars => ListInv'
<1> SUFFICES ASSUME TypeOK, ListInv, [Next]_vars, ~raced'
             PROVE  /\ interests' \subseteq entries'
                    /\ epc' \in {"clear", "take", "unbind"} => interests' = {}
                    /\ epc' \in {"take", "unbind"} \/ Between' => entries' = {}
  BY DEF ListInv
<1>1. ASSUME NEW type \in {"production", "rt", "cloud"}, InitSession(type)  PROVE ListInv'
  <2>1. epc = "none" /\ epc' = "none" /\ ~raced /\ upc' # "idle"
    BY <1>1 DEF InitSession
  <2>2. interests' = entries'
    BY <1>1, <2>1 DEF InitSession, ListInv, Unregistered
  <2> QED  BY <2>1, <2>2 DEF ListInv, Between
<1>2. CASE ExportRt \/ ExportDriven
  <2>1. PICK pc \in {"idle", "driver"} : UiUses(pc)
    BY <1>2 DEF ExportRt, ExportDriven
  <2>2. epc = "none" /\ epc' = "none" /\ ~raced
    BY <2>1, UseAlone
  <2>3. \E new : AddOpCallbacks(new)
    BY <1>2 DEF ExportRt, ExportDriven, ExportScene
  <2>4. interests' \subseteq entries'
    BY <2>2, <2>3, AddKeepsListed DEF ListInv
  <2>5. ~Between'
    <3>1. CASE ExportRt
      BY <3>1 DEF ExportRt, Between
    <3>2. CASE ExportDriven
      <4>1. upc' = "driver"
        BY <3>2, UseAlone DEF ExportDriven
      <4> QED  BY <4>1 DEF Between
    <3> QED  BY <1>2, <3>1, <3>2
  <2> QED  BY <2>2, <2>4, <2>5 DEF ListInv
<1>3. CASE EndRender
  BY <1>3 DEF EndRender, ListInv, Unregistered
<1>4. ASSUME NEW n \in Nodes, NodeChanged(n)  PROVE ListInv'
  <2>1. epc = "none" /\ epc' = "none" /\ ~raced /\ upc' = upc /\ live' = live
    BY <1>4, UseAlone DEF NodeChanged, control
  <2>2. interests' \subseteq entries'
    BY <1>4, <2>1, ChangeAdds, AddKeepsListed DEF ListInv
  <2>3. ~Between
    BY <1>4, <2>1, ChangeIsHeard DEF ListInv
  <2> QED  BY <2>1, <2>2, <2>3 DEF ListInv, Between
<1>5. ASSUME NEW n \in Nodes, DeleteNode(n)  PROVE ListInv'
  <2>1. epc' = epc /\ ~raced /\ upc' = upc /\ live' = live
    BY <1>5, UseAlone DEF DeleteNode, control
  <2>2. \A e \in Forgotten(n) : e[1] = n
    BY DEF Forgotten
  <2>3. interests' \subseteq entries' /\ interests' \subseteq interests /\ entries' \subseteq entries
    BY <1>5, <2>1, <2>2 DEF DeleteNode, ListInv, Removed
  <2> QED  BY <2>1, <2>3 DEF ListInv, Between
<1>6. CASE RopTakeChanged
  <2>1. epc = "none" /\ epc' = "none" /\ ~raced /\ upc' = upc
    BY <1>6, UseAlone DEF RopTakeChanged
  <2> QED  BY <1>6, <2>1 DEF RopTakeChanged, ListInv, Between, control, tracking
<1>7. CASE UserTake \/ UNCHANGED vars
  BY <1>7 DEF UserTake, vars, ListInv, Between, control, tracking
<1>8. CASE RenderEnds
  BY <1>8 DEF RenderEnds, ListInv, Between, tracking
<1>9. CASE EndReset
  BY <1>9 DEF EndReset, ListInv, Between, Unregistered, control
<1>10. CASE EndClear
  BY <1>10 DEF EndClear, ListInv, Between, control
<1>11. CASE EndTake
  BY <1>11 DEF EndTake, ListInv, Between, control, tracking
<1>12. CASE EndUnbind
  BY <1>12 DEF EndUnbind, ListInv, Between
<1> QED  BY <1>1, <1>2, <1>3, <1>4, <1>5, <1>6, <1>7, <1>8, <1>9, <1>10, <1>11, <1>12
         DEF Next, UiThread, VRayThread, ListInv

-----------------------------------------------------------------------------
(* Takes. *)

\* Applying or restoring a take keeps what TakeInv says of the saved one.
LEMMA ApplyKeepsSaved ==
  ASSUME TypeOK,
         currentTake \in chosen \cup {NoTake}, currentTake = NoTake => uiTake \in chosen,
         MayApplyTake \/ (\E t \in Takes : ApplyTake(t)) \/ RestoreTake
  PROVE  /\ currentTake' \in chosen' \cup {NoTake}
         /\ currentTake' = NoTake => uiTake' \in chosen'
<1>1. uiTake # NoTake
  BY NodesAssumption DEF TypeOK
<1> QED  BY <1>1 DEF TypeOK, MayApplyTake, ApplyTake, RestoreTake, takes

LEMMA TakeNext ==
  TypeOK /\ PhaseInv /\ ListInv /\ TakeInv /\ [Next]_vars => TakeInv'
<1> SUFFICES ASSUME TypeOK, PhaseInv, ListInv, TakeInv, [Next]_vars, ~raced'
             PROVE  TakeInv'
  BY DEF TakeInv
<1>1. ASSUME NEW type \in {"production", "rt", "cloud"}, InitSession(type)  PROVE TakeInv'
  BY <1>1 DEF InitSession, TakeInv, Between, takes
<1>2. CASE ExportRt \/ ExportDriven
  <2>1. PICK pc \in {"idle", "driver"} : UiUses(pc)
    BY <1>2 DEF ExportRt, ExportDriven
  <2>2. epc' = "none" /\ ~raced
    BY <2>1, UseAlone
  <2>3. /\ currentTake' \in chosen' \cup {NoTake}
        /\ currentTake' = NoTake => uiTake' \in chosen'
    BY <1>2, <2>2, ApplyKeepsSaved DEF ExportRt, ExportDriven, TakeInv, MayApplyTake
  <2>4. ~Between'
    <3>1. CASE ExportRt
      BY <3>1 DEF ExportRt, Between
    <3>2. CASE ExportDriven
      <4>1. upc' = "driver"
        BY <3>2, UseAlone DEF ExportDriven
      <4> QED  BY <4>1 DEF Between
    <3> QED  BY <1>2, <3>1, <3>2
  <2> QED  BY <2>2, <2>3, <2>4 DEF TakeInv
<1>3. CASE EndRender
  <2>1. ~raced /\ epc' = "none" /\ RestoreTake /\ sessionType' = sessionType
    BY <1>3 DEF EndRender
  <2>2. /\ currentTake' \in chosen' \cup {NoTake}
        /\ currentTake' = NoTake => uiTake' \in chosen'
    BY <2>1, ApplyKeepsSaved DEF TakeInv
  <2>3. sessionType' # "production" => currentTake' = NoTake
    BY <2>1 DEF RestoreTake, takes
  <2> QED  BY <2>2, <2>3 DEF TakeInv
<1>4. ASSUME NEW n \in Nodes, NodeChanged(n) \/ DeleteNode(n)  PROVE TakeInv'
  <2>1. epc' = epc /\ ~raced /\ upc' = upc
    BY <1>4, UseAlone DEF NodeChanged, DeleteNode
  <2> QED  BY <1>4, <2>1 DEF NodeChanged, DeleteNode, TakeInv, Between, control, takes
<1>5. CASE RopTakeChanged
  <2>1. epc = "none" /\ epc' = "none" /\ ~raced /\ upc' = upc /\ live' = live
    BY <1>5, UseAlone DEF RopTakeChanged, control
  <2>2. /\ currentTake' \in chosen' \cup {NoTake}
        /\ currentTake' = NoTake => uiTake' \in chosen'
    BY <1>5, <2>1, ApplyKeepsSaved DEF RopTakeChanged, TakeInv
  <2>3. ~Between
    BY <1>5, <2>1 DEF RopTakeChanged, Listens, ListInv
  <2> QED  BY <2>1, <2>2, <2>3 DEF TakeInv, Between
<1>6. CASE UserTake
  BY <1>6 DEF UserTake, TakeInv, Between, control
<1>7. CASE RenderEnds \/ EndReset \/ EndClear
  BY <1>7 DEF RenderEnds, EndReset, EndClear, TakeInv, Between, control, takes
<1>8. CASE EndTake
  <2>1. ~raced /\ epc' = "unbind" /\ RestoreTake /\ sessionType' = sessionType
    BY <1>8 DEF EndTake, control
  <2>2. /\ currentTake' \in chosen' \cup {NoTake}
        /\ currentTake' = NoTake => uiTake' \in chosen'
    BY <2>1, ApplyKeepsSaved DEF TakeInv
  <2>3. sessionType' # "production" => currentTake' = NoTake
    BY <2>1 DEF RestoreTake, takes
  <2> QED  BY <2>2, <2>3 DEF TakeInv
<1>9. CASE EndUnbind
  BY <1>9 DEF EndUnbind, TakeInv, Between, takes
<1>10. CASE UNCHANGED vars
  BY <1>10 DEF vars, TakeInv, Between, control, takes
<1> QED  BY <1>1, <1>2, <1>3, <1>4, <1>5, <1>6, <1>7, <1>8, <1>9, <1>10
         DEF Next, UiThread, VRayThread

-----------------------------------------------------------------------------
(* The scene of an RT session. *)

\* What an export of objs adds in an RT session follows each of them, and no
\* other object.
LEMMA ExportFollows ==
  ASSUME sessionType = "rt", NEW objs \in SUBSET Objects, NEW displaced \in SUBSET objs,
         NEW shaders \in SUBSET Shaders
  PROVE  /\ \A c \in ObjectCallbacks(objs) \cup DisplacementCallbacks(displaced)
                      \cup ShaderCallbacks(shaders) :
              c[1] \in Objects => c[1] \in objs
         /\ \A n \in objs : <<n, "Object">> \in ObjectCallbacks(objs)
BY NodesAssumption DEF ObjectCallbacks, DisplacementCallbacks, ShaderCallbacks

LEMMA ViewFollowsNoObject ==
  ASSUME NEW c \in ViewCallbacks  PROVE c[1] \notin Objects
BY NodesAssumption DEF ViewCallbacks

\* Adding callbacks of objects that exist, each with that of its object, keeps
\* SceneInv's first part; nothing loses an interest.
LEMMA AddKeepsFollowed ==
  ASSUME sessionType = "rt", NEW new, AddOpCallbacks(new), alive' = alive,
         \A e \in entries :
           e[1] \in Objects => e[1] \in alive /\ <<e[1], "Object">> \in interests,
         \A c \in new : c[1] \in Objects => c[1] \in alive /\ <<c[1], "Object">> \in new
  PROVE  /\ \A e \in entries' :
              e[1] \in Objects => e[1] \in alive' /\ <<e[1], "Object">> \in interests'
         /\ interests \cup new \subseteq interests'
BY DEF AddOpCallbacks, Wanted

LEMMA SceneExport ==
  ASSUME TypeOK, PhaseInv, SceneInv, ExportRt, ~raced'
  PROVE  SceneInv'
<1>1. epc = "none" /\ epc' = "none" /\ ~raced /\ sessionType = "rt" /\ sessionType' = "rt"
      /\ alive' = alive
  BY UseAlone DEF ExportRt, PhaseInv
<1>2. PICK objs \in SUBSET (Objects \cap alive), shaders \in SUBSET (Shaders \cap alive),
           displaced \in SUBSET Geometry :
        /\ displaced \subseteq objs
        /\ scene' = objs
        /\ AddOpCallbacks(ObjectCallbacks(objs) \cup DisplacementCallbacks(displaced)
                            \cup ShaderCallbacks(shaders) \cup ViewCallbacks)
  BY DEF ExportRt, ExportScene
<1> DEFINE exported == ObjectCallbacks(objs) \cup DisplacementCallbacks(displaced)
                         \cup ShaderCallbacks(shaders)
<1> DEFINE new == exported \cup ViewCallbacks
<1>3. /\ \A c \in exported : c[1] \in Objects => c[1] \in objs
      /\ \A n \in objs : <<n, "Object">> \in exported
  <2>1. objs \in SUBSET Objects /\ displaced \in SUBSET objs /\ shaders \in SUBSET Shaders
    BY <1>2
  <2> QED  BY <1>1, <2>1, ExportFollows
<1>4. \A c \in new : c[1] \in Objects => c[1] \in objs
  BY <1>3, ViewFollowsNoObject
<1>5. AddOpCallbacks(new)
  BY <1>2
<1>6. \A c \in new : c[1] \in Objects => c[1] \in alive /\ <<c[1], "Object">> \in new
  BY <1>2, <1>3, <1>4
<1>7. \A e \in entries :
        e[1] \in Objects => e[1] \in alive /\ <<e[1], "Object">> \in interests
  BY <1>1 DEF SceneInv
<1>8. ViewCallbacks \subseteq new /\ exported \subseteq new
  OBVIOUS
<1> HIDE DEF new
<1>9. /\ \A e \in entries' :
           e[1] \in Objects => e[1] \in alive' /\ <<e[1], "Object">> \in interests'
      /\ interests \cup new \subseteq interests'
  BY <1>1, <1>5, <1>6, <1>7, AddKeepsFollowed
<1> HIDE DEF exported
<1>10. \A n \in scene' : n \in alive' /\ <<n, "Object">> \in interests'
  BY <1>1, <1>2, <1>3, <1>8, <1>9
<1>11. <<Rop, "Rop">> \in interests'
  BY <1>1, <1>9 DEF SceneInv, ExportRt
<1>12. Camera \in alive' => <<Camera, "Camera">> \in interests'
  BY <1>1, <1>8, <1>9 DEF ViewCallbacks
<1> QED  BY <1>9, <1>10, <1>11, <1>12 DEF SceneInv

LEMMA SceneChange ==
  ASSUME TypeOK, PhaseInv, SceneInv, NEW n \in Nodes, NodeChanged(n), ~raced'
  PROVE  SceneInv'
<1> SUFFICES ASSUME sessionType' = "rt"  PROVE SceneInv'
  BY DEF SceneInv
<1>1. /\ epc = "none" /\ epc' = "none" /\ ~raced /\ sessionType = "rt"
      /\ alive' = alive /\ upc' = upc /\ live' = live /\ n \in alive
  BY UseAlone DEF NodeChanged, control
<1>2. /\ \A e \in entries :
           e[1] \in Objects => e[1] \in alive /\ <<e[1], "Object">> \in interests
      /\ \A o \in scene : o \in alive /\ <<o, "Object">> \in interests
      /\ upc = "export" \/ live => <<Rop, "Rop">> \in interests
      /\ live /\ Camera \in alive => <<Camera, "Camera">> \in interests
  BY <1>1 DEF SceneInv
<1>3. SUFFICES
        /\ \A e \in entries' :
             e[1] \in Objects => e[1] \in alive' /\ <<e[1], "Object">> \in interests'
        /\ \A o \in scene' : o \in alive' /\ <<o, "Object">> \in interests'
        /\ interests \subseteq interests'
  BY <1>1, <1>2 DEF SceneInv
<1>4. CASE Reexported(n) /\ n \in Objects
  <2>1. PICK shaders \in SUBSET (Shaders \cap alive), displaced \in SUBSET (Geometry \cap {n}) :
          AddOpCallbacks(ObjectCallbacks({n}) \cup DisplacementCallbacks(displaced)
                           \cup ShaderCallbacks(shaders))
    BY <1>4 DEF Reexported
  <2> DEFINE new == ObjectCallbacks({n}) \cup DisplacementCallbacks(displaced)
                      \cup ShaderCallbacks(shaders)
  <2>2. /\ \A c \in new : c[1] \in Objects => c[1] \in {n}
        /\ \A o \in {n} : <<o, "Object">> \in new
    <3>1. {n} \in SUBSET Objects /\ displaced \in SUBSET {n} /\ shaders \in SUBSET Shaders
      BY <1>4
    <3> QED  BY <1>1, <3>1, ExportFollows
  <2>3. AddOpCallbacks(new)
    BY <2>1
  <2> HIDE DEF new
  <2>4. \A c \in new : c[1] \in Objects => c[1] \in alive /\ <<c[1], "Object">> \in new
    BY <1>1, <2>2
  <2>5. /\ \A e \in entries' :
             e[1] \in Objects => e[1] \in alive' /\ <<e[1], "Object">> \in interests'
        /\ interests \cup new \subseteq interests'
    BY <1>1, <1>2, <2>3, <2>4, AddKeepsFollowed
  <2> QED  BY <1>1, <1>2, <1>4, <2>2, <2>5 DEF Reexported
<1>5. ASSUME NEW new, AddOpCallbacks(new), \A c \in new : c[1] \notin Objects, scene' = scene
      PROVE  /\ \A e \in entries' :
                  e[1] \in Objects => e[1] \in alive' /\ <<e[1], "Object">> \in interests'
             /\ \A o \in scene' : o \in alive' /\ <<o, "Object">> \in interests'
             /\ interests \subseteq interests'
  BY <1>1, <1>2, <1>5, AddKeepsFollowed
<1>6. CASE ShaderChanged(n)
  <2>1. PICK shaders \in SUBSET (Shaders \cap alive) : AddOpCallbacks(ShaderCallbacks(shaders))
    BY <1>6 DEF ShaderChanged
  <2>2. \A c \in ShaderCallbacks(shaders) : c[1] \notin Objects
    BY NodesAssumption DEF ShaderCallbacks
  <2> QED  BY <1>5, <1>6, <2>1, <2>2 DEF ShaderChanged
<1>7. CASE OnCameraChange(n)
  BY <1>5, <1>7, ViewFollowsNoObject DEF OnCameraChange
<1>8. DisplacementChanged(n) => n \in Objects
  BY NodesAssumption DEF DisplacementChanged, Listens, TypeOK, Callbacks, Objects
<1> QED  BY <1>4, <1>6, <1>7, <1>8
         DEF NodeChanged, GeometryChanged, LightChanged, DisplacementChanged, Objects

LEMMA SceneDelete ==
  ASSUME TypeOK, SceneInv, NEW n \in Nodes, DeleteNode(n), ~raced'
  PROVE  SceneInv'
<1> SUFFICES ASSUME sessionType' = "rt", epc' = "none"  PROVE SceneInv'
  BY DEF SceneInv
<1>1. epc = "none" /\ ~raced /\ sessionType = "rt" /\ upc' = upc /\ live' = live
  BY UseAlone DEF DeleteNode, control
<1>2. /\ alive' = alive \ {n} /\ n # Rop
      /\ \A c \in interests : c[1] # n => c \in interests'
  BY DEF DeleteNode, Removed
<1>3. ASSUME NEW e \in entries', e[1] \in Objects
      PROVE  e[1] \in alive' /\ <<e[1], "Object">> \in interests'
  <2>1. e \in entries /\ e \notin Forgotten(n)
    BY DEF DeleteNode
  <2>2. e[1] \in alive /\ <<e[1], "Object">> \in interests
    BY <1>1, <1>3, <2>1 DEF SceneInv
  <2>3. e[1] # n
    BY <1>3, <2>1, <2>2 DEF Forgotten, Listens
  <2> QED  BY <1>2, <2>2, <2>3
<1>4. ASSUME NEW o \in scene'  PROVE o \in alive' /\ <<o, "Object">> \in interests'
  <2>1. o \in scene /\ o # n
    BY DEF DeleteNode
  <2>2. o \in alive /\ <<o, "Object">> \in interests
    BY <1>1, <2>1 DEF SceneInv
  <2> QED  BY <1>2, <2>1, <2>2
<1>5. upc' = "export" \/ live' => <<Rop, "Rop">> \in interests'
  BY <1>1, <1>2 DEF SceneInv
<1>6. live' /\ Camera \in alive' => <<Camera, "Camera">> \in interests'
  BY <1>1, <1>2 DEF SceneInv
<1> QED  BY <1>3, <1>4, <1>5, <1>6 DEF SceneInv

LEMMA SceneNext ==
  TypeOK /\ PhaseInv /\ ListInv /\ SceneInv /\ [Next]_vars => SceneInv'
<1> SUFFICES ASSUME TypeOK, PhaseInv, ListInv, SceneInv, [Next]_vars, ~raced'
             PROVE  SceneInv'
  BY DEF SceneInv
<1>1. ASSUME NEW type \in {"production", "rt", "cloud"}, InitSession(type)  PROVE SceneInv'
  <2>1. ~live' /\ scene' = {} /\ epc' = "none" /\ sessionType' = type
    BY <1>1 DEF InitSession
  <2>2. sessionType' = "rt" => entries' = {<<Rop, "Rop">>} /\ entries' \subseteq interests'
    BY <1>1, <2>1 DEF InitSession, RopCallback
  <2> QED  BY <2>1, <2>2, NodesAssumption DEF SceneInv
<1>2. CASE ExportRt
  BY <1>2, SceneExport
<1>3. CASE ExportDriven \/ EndRender
  BY <1>3 DEF ExportDriven, EndRender, PhaseInv, SceneInv, control
<1>4. ASSUME NEW n \in Nodes, NodeChanged(n) \/ DeleteNode(n)  PROVE SceneInv'
  BY <1>4, SceneChange, SceneDelete
<1>5. CASE RopTakeChanged
  <2>1. epc = "none" /\ epc' = "none" /\ ~raced /\ upc' = upc
    BY <1>5, UseAlone DEF RopTakeChanged
  <2> QED  BY <1>5, <2>1 DEF RopTakeChanged, SceneInv, control, tracking
<1>6. CASE UserTake \/ UNCHANGED vars
  BY <1>6 DEF UserTake, vars, SceneInv, control, tracking
<1>7. CASE RenderEnds \/ EndReset \/ EndClear \/ EndTake
  BY <1>7 DEF RenderEnds, EndReset, EndClear, EndTake, SceneInv
<1>8. CASE EndUnbind
  <2>1. entries' = {} /\ scene' = {} /\ ~live'
    BY <1>8 DEF EndUnbind, ListInv
  <2>2. upc' # "export"
    BY <1>8 DEF EndUnbind, PhaseInv
  <2> QED  BY <2>1, <2>2 DEF SceneInv
<1> QED  BY <1>1, <1>2, <1>3, <1>4, <1>5, <1>6, <1>7, <1>8
         DEF Next, UiThread, VRayThread

-----------------------------------------------------------------------------
(* The theorems. *)

IInv == TypeOK /\ PhaseInv /\ ListInv /\ TakeInv /\ SceneInv

LEMMA Invariant == Spec => []IInv
<1>1. Init => IInv
  <2>1. Init => PhaseInv /\ ListInv /\ SceneInv
    BY DEF Init, PhaseInv, ListInv, SceneInv, Between
  <2>2. Init => TakeInv
    BY DEF Init, TakeInv, Between
  <2> QED  BY <2>1, <2>2, TypeInit DEF IInv
<1>2. IInv /\ [Next]_vars => IInv'
  BY TypeNext, PhaseNext, ListNext, TakeNext, SceneNext DEF IInv
<1> QED  BY <1>1, <1>2, PTL DEF Spec

\* Between sessions no node calls the exporter: the list names every interest,
\* and the end of a session removes what it lists before it clears it.
THEOREM NoInterestLeft == Spec => []NoStrayInterest
<1>1. IInv => NoStrayInterest
  BY DEF IInv, ListInv, NoStrayInterest, Resting, Running, Between
<1> QED  BY <1>1, Invariant, PTL

\* The take the exporter saves is the user's and is restored at the end of an
\* RT or cloud session.
THEOREM UsersTakeReturns == Spec => []TakeIsUsers
<1>1. IInv => TakeIsUsers
  BY DEF IInv, TakeInv, TakeIsUsers, Resting, Running, Between
<1> QED  BY <1>1, Invariant, PTL

\* An RT session keeps no entry of a deleted object, because each object that is
\* listed is followed by the callback that forgets it.
THEOREM DeletedAreForgotten == Spec => []DeletedObjectsForgotten
<1>1. IInv => DeletedObjectsForgotten
  BY DEF IInv, SceneInv, DeletedObjectsForgotten
<1> QED  BY <1>1, Invariant, PTL

\* An RT session follows each object of its scene, its camera and its ROP.
THEOREM LiveSceneFollowed == Spec => []SceneIsFollowed
<1>1. IInv => SceneIsFollowed
  BY DEF IInv, PhaseInv, SceneInv, SceneIsFollowed
<1> QED  BY <1>1, Invariant, PTL

=============================================================================
