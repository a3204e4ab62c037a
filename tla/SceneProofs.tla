----------------------------- MODULE SceneProofs -----------------------------
(***************************************************************************)
(* Frame export: type correctness of FrameExport, and that a rendered      *)
(* frame, and every frame of a written file, has all its key frames, for   *)
(* any motion blur settings, frame rates and numbers of frames and         *)
(* sessions.  And what the nodes of the scene's materials guarantee        *)
(* (MeshSets, LayerNodes and OslNode, as systems of Tools), for any        *)
(* proxies, layers, codes and edits.                                       *)
(***************************************************************************)
EXTENDS FrameExport, Tools, Sequences, NaturalsInduction, WellFoundedInduction, FiniteSetTheorems, TLAPS

-----------------------------------------------------------------------------
(* The frames (FrameExport). *)

\* The number of intervals is positive, and the exact fit of the increment.
LEMMA IntervalFacts ==
  ASSUME NEW mb \in MbSettings
  PROVE  /\ Intervals(mb) \in Nat /\ Intervals(mb) >= 1
         /\ Inc(mb) \in Nat /\ mb.duration \in Nat /\ mb.before \in Int
         /\ mb.duration = Intervals(mb) * Inc(mb)
<1>1. mb \in [duration : Nat, before : Int, samples : Nat]
  BY SettingsAssumption
<1>2. Intervals(mb) \in Nat /\ Intervals(mb) >= 1
  BY <1>1 DEF Intervals, Larger
<1>3. Inc(mb) \in Nat /\ mb.duration = Intervals(mb) * Inc(mb)
  BY SettingsAssumption
<1> QED BY <1>1, <1>2, <1>3

LEMMA ClampType ==
  ASSUME NEW t \in Int
  PROVE  Clamp(t) \in Nat /\ Clamp(t) >= t
BY DEF Clamp, Larger

LEMMA SettingsType ==
  ASSUME NEW s \in Sessions
  PROVE  s.mb \in MbSettings
BY DEF Sessions

\* The conjuncts of TypeOK about one kind of value each: the provers do not
\* take empty sets of numbers and of files at once.
FilesType == files \subseteq SceneFiles
FlowType ==
  /\ session \in Sessions
  /\ pc \in {"idle", "driver", "sub", "check", "rendering"}
  /\ aborted \in BOOLEAN /\ error \in {"continue", "abort"}
TimesType ==
  /\ frame \in Nat /\ subframe \in Int /\ current \in Nat
  /\ exportedFrames \subseteq Nat /\ keys \subseteq Nat
  /\ done \subseteq Nat /\ times \subseteq Nat /\ sessions \in Nat

LEMMA TypeSplit == TypeOK <=> FilesType /\ FlowType /\ TimesType
BY DEF TypeOK, FilesType, FlowType, TimesType

LEMMA TypeInit == Init => TypeOK
<1> SUFFICES ASSUME Init PROVE TypeOK
  OBVIOUS
<1>1. FilesType BY DEF Init, FilesType
<1>2. FlowType BY DEF Init, FlowType
<1>3. TimesType BY DEF Init, TimesType
<1> QED BY <1>1, <1>2, <1>3, TypeSplit

LEMMA ClearIsSubset ==
  ASSUME NEW t PROVE ClearKeyFrames(t) \subseteq keys
BY DEF ClearKeyFrames

LEMMA TypeStep == TypeOK /\ [Next]_vars => TypeOK'
<1> SUFFICES ASSUME TypeOK, [Next]_vars PROVE TypeOK'
  OBVIOUS
<1> USE DEF TypeOK
<1>a. session.mb \in MbSettings
  BY SettingsType
<1>b. /\ MbStart(session.mb, frame) \in Int /\ MbEnd(session.mb, frame) \in Int
      /\ Inc(session.mb) \in Nat
  BY <1>a, IntervalFacts DEF MbStart, MbEnd
<1>1. ASSUME NEW s \in Sessions, NEW f \in FirstFrames, InitExporter(s, f)
      PROVE  TypeOK'
  <2>a. FilesType'
    BY <1>1 DEF InitExporter, FilesType
  <2>b. FlowType'
    BY <1>1 DEF InitExporter, FlowType
  <2>c. TimesType'
    BY <1>1, SettingsAssumption DEF InitExporter, TimesType
  <2> QED BY <2>a, <2>b, <2>c, TypeSplit DEF FilesType, FlowType, TimesType
<1>2. CASE FrameAborted
  BY <1>2 DEF FrameAborted, history
<1>3. CASE StartStill
  <2>a. FilesType'
    BY <1>3 DEF StartStill, ExportScene, FilesType
  <2>b. FlowType'
    BY <1>3 DEF StartStill, ExportScene, FlowType
  <2>c. TimesType'
    <3>1. keys' \subseteq Nat
      BY <1>3, ClearIsSubset DEF StartStill
    <3>2. times' \subseteq Nat
      BY <1>3 DEF StartStill, ExportScene
    <3>3. /\ UNCHANGED <<frame, subframe, exportedFrames, done, sessions>>
          /\ current' \in Nat
      BY <1>3 DEF StartStill
    <3> QED BY <3>1, <3>2, <3>3 DEF TimesType
  <2> QED BY <2>a, <2>b, <2>c, TypeSplit DEF FilesType, FlowType, TimesType
<1>4. CASE StartBlur
  BY <1>4, <1>b, ClearIsSubset DEF StartBlur, history
<1>5. CASE Subframe
  <2>1. Clamp(subframe) \in Nat
    BY ClampType
  <2>2. subframe' \in Int
    BY <1>5, <1>b DEF Subframe
  <2>3. CASE Clamp(subframe) \in exportedFrames
    BY <1>5, <2>2, <2>3 DEF Subframe
  <2>4. CASE Clamp(subframe) \notin exportedFrames
    <3>a. FilesType'
      BY <1>5, <2>4 DEF Subframe, ExportScene, FilesType
    <3>b. FlowType'
      BY <1>5, <2>4 DEF Subframe, ExportScene, FlowType
    <3>c. TimesType'
      <4>1. exportedFrames' \subseteq Nat /\ keys' \subseteq Nat /\ current' \in Nat
        BY <1>5, <2>4, <2>1 DEF Subframe
      <4>2. times' \subseteq Nat
        <5>1. ExportScene(Clamp(subframe))
          BY <1>5, <2>4 DEF Subframe
        <5>2. times' = times \cup {Clamp(subframe)}
          BY <5>1 DEF ExportScene
        <5>3. times' \subseteq Nat
          BY <5>2, <2>1
        <5> QED BY <5>3
      <4>3. UNCHANGED <<frame, done, sessions>>
        BY <1>5 DEF Subframe
      <4> QED BY <4>1, <4>2, <4>3, <2>2 DEF TimesType
    <3> QED BY <3>a, <3>b, <3>c, TypeSplit DEF FilesType, FlowType, TimesType
  <2> QED BY <2>3, <2>4
<1>6. CASE SubframesEnd
  BY <1>6 DEF SubframesEnd, history
<1>7. CASE CheckAborted
  BY <1>7 DEF CheckAborted, history
<1>8. CASE RenderFrame
  <2>1. files' \subseteq SceneFiles
    <3>1. SceneFile("frame", {frame}) \in SceneFiles
      BY DEF SceneFile, SceneFiles
    <3> QED BY <1>8, <3>1 DEF RenderFrame
  <2>2. pc' \in {"rendering", "driver"} /\ frame' \in Nat
    BY <1>8, SettingsAssumption DEF RenderFrame
  <2> QED BY <1>8, <2>1, <2>2 DEF RenderFrame
<1>9. CASE RenderEnds
  BY <1>9, SettingsAssumption DEF RenderEnds, history
<1>10. CASE Abort
  BY <1>10 DEF Abort, history
<1>11. CASE ExportEnd
  <2>1. files' \subseteq SceneFiles
    <3>1. SceneFile("all", done) \in SceneFiles
      BY DEF SceneFile, SceneFiles
    <3> QED BY <1>11, <3>1 DEF ExportEnd
  <2> QED BY <1>11, <2>1 DEF ExportEnd, history
<1>12. CASE UNCHANGED vars
  BY <1>12 DEF vars
<1> QED
  BY <1>1, <1>2, <1>3, <1>4, <1>5, <1>6, <1>7, <1>8, <1>9, <1>10, <1>11, <1>12
  DEF Next, ExportFrame

\* Every variable of a session keeps its type, the time points 0 and later.
THEOREM TypeCorrect == Spec => []TypeOK
<1>1. Init => TypeOK BY TypeInit
<1>2. TypeOK /\ [Next]_vars => TypeOK' BY TypeStep
<1> QED BY <1>1, <1>2, PTL DEF Spec

-----------------------------------------------------------------------------
(* The invariant behind RenderedWithKeys and FilesComplete. *)

\* Every time point that would be stepped over has its key frames.
ExportedAreKeyed ==
  pc # "idle" /\ session.motionBlur => exportedFrames \subseteq keys

\* The loop is at its k-th time point and the earlier ones were exported.
AtSubframe(k) ==
  /\ subframe = MbStart(session.mb, frame) + k * Inc(session.mb)
  /\ \A j \in 0 .. k - 1 :
       Clamp(MbStart(session.mb, frame) + j * Inc(session.mb)) \in exportedFrames

LoopExported ==
  pc = "sub" => session.motionBlur /\ \E k \in Nat : AtSubframe(k)

FrameReady == current = frame /\ Needed(session, frame) \subseteq keys
CheckReady == pc = "check" /\ ~aborted => FrameReady

\* What goes to one file at the end is never cleared before.
AllKept ==
  pc # "idle" /\ ~ExportFilePerFrame =>
    \A f \in done : Needed(session, f) \subseteq keys

KeyInv ==
  /\ ExportedAreKeyed /\ LoopExported /\ CheckReady /\ AllKept
  /\ RenderedWithKeys /\ FilesComplete

LEMMA TimesMonotone ==
  ASSUME NEW i \in Nat, NEW k \in Nat, NEW n \in Nat, k <= n
  PROVE  k * i <= n * i
OBVIOUS

LEMMA TimesNext ==
  ASSUME NEW i \in Nat, NEW k \in Nat
  PROVE  (k + 1) * i = k * i + i /\ k * i \in Nat
OBVIOUS

\* A loop that ran to its end went through all intervals.
LEMMA LoopLength ==
  ASSUME NEW mb \in MbSettings, NEW f \in Nat, NEW k \in Nat,
         MbStart(mb, f) + k * Inc(mb) > MbEnd(mb, f)
  PROVE  k > Intervals(mb)
<1>1. /\ Intervals(mb) \in Nat /\ Inc(mb) \in Nat
      /\ mb.before \in Int /\ mb.duration = Intervals(mb) * Inc(mb)
  BY IntervalFacts
<1>2. k * Inc(mb) \in Nat /\ Intervals(mb) * Inc(mb) \in Nat
  BY <1>1, TimesNext
<1>3. k * Inc(mb) > Intervals(mb) * Inc(mb)
  BY <1>1, <1>2 DEF MbStart, MbEnd
<1>4. ~ (k <= Intervals(mb))
  BY <1>1, <1>2, <1>3, TimesMonotone
<1> QED BY <1>1, <1>4

LEMMA KeyInit == Init => KeyInv
<1> SUFFICES ASSUME Init PROVE KeyInv
  OBVIOUS
<1>1. pc = "idle"
  BY DEF Init
<1>2. FilesComplete
  BY DEF Init, FilesComplete
<1> QED
  BY <1>1, <1>2
  DEF KeyInv, ExportedAreKeyed, LoopExported, CheckReady, AllKept, RenderedWithKeys

\* A step that changes neither times nor files keeps what they say of each other.
LEMMA KeyKept ==
  ASSUME KeyInv, UNCHANGED <<session, frame, subframe, current, exportedFrames, keys, done, files>>,
         pc' = pc, aborted => aborted'
  PROVE  KeyInv'
<1> USE DEF KeyInv
<1>1. ExportedAreKeyed' BY DEF ExportedAreKeyed
<1>2. LoopExported' BY DEF LoopExported, AtSubframe
<1>3. CheckReady' BY DEF CheckReady, FrameReady
<1>4. AllKept'
  BY DEF AllKept, ExportFilePerFrame, IsExportMode, IsAnimation
<1>5. RenderedWithKeys' BY DEF RenderedWithKeys
<1>6. FilesComplete' BY DEF FilesComplete
<1> QED BY <1>1, <1>2, <1>3, <1>4, <1>5, <1>6

LEMMA StillStep == TypeOK /\ KeyInv /\ StartStill => KeyInv'
<1> SUFFICES ASSUME TypeOK, KeyInv, StartStill PROVE KeyInv'
  OBVIOUS
<1> USE DEF KeyInv
<1>1. /\ pc = "driver" /\ pc' = "check" /\ ~session.motionBlur /\ current' = frame
      /\ keys' = ClearKeyFrames(frame) \cup {frame}
      /\ UNCHANGED <<session, frame, exportedFrames, files, done>>
  BY DEF StartStill
<1>2. Needed(session, frame) = {frame}
  BY <1>1 DEF Needed
<1>3. ExportedAreKeyed' /\ LoopExported' /\ RenderedWithKeys' /\ FilesComplete'
  BY <1>1 DEF ExportedAreKeyed, LoopExported, RenderedWithKeys, FilesComplete
<1>4. CheckReady'
  BY <1>1, <1>2 DEF CheckReady, FrameReady
<1>5. AllKept'
  BY <1>1 DEF AllKept, ExportFilePerFrame, IsExportMode, IsAnimation, ClearKeyFrames
<1> QED BY <1>3, <1>4, <1>5

LEMMA BlurStep == TypeOK /\ KeyInv /\ StartBlur => KeyInv'
<1> SUFFICES ASSUME TypeOK, KeyInv, StartBlur PROVE KeyInv'
  OBVIOUS
<1> USE DEF KeyInv
<1> DEFINE start == MbStart(session.mb, frame)
<1>1. /\ pc = "driver" /\ pc' = "sub" /\ session.motionBlur
      /\ keys' = ClearKeyFrames(start) /\ subframe' = start
      /\ exportedFrames' = {t \in exportedFrames : t >= start}
      /\ UNCHANGED <<session, frame, files, done>>
  BY DEF StartBlur, history
<1>2. start \in Int /\ Inc(session.mb) \in Nat
  <2>1. session.mb \in MbSettings
    BY SettingsType DEF TypeOK
  <2> QED BY <2>1, IntervalFacts DEF MbStart, TypeOK
<1>3. ExportedAreKeyed'
  BY <1>1 DEF ExportedAreKeyed, ClearKeyFrames
<1>4. LoopExported'
  <2>1. 0 * Inc(session.mb) = 0
    BY <1>2
  <2>2. AtSubframe(0)'
    BY <1>1, <1>2, <2>1 DEF AtSubframe
  <2> QED BY <1>1, <2>2 DEF LoopExported
<1>5. CheckReady' /\ RenderedWithKeys' /\ FilesComplete'
  BY <1>1 DEF CheckReady, RenderedWithKeys, FilesComplete
<1>6. AllKept'
  BY <1>1 DEF AllKept, ExportFilePerFrame, IsExportMode, IsAnimation, ClearKeyFrames
<1> QED BY <1>3, <1>4, <1>5, <1>6

LEMMA SubframeStep == TypeOK /\ KeyInv /\ Subframe => KeyInv'
<1> SUFFICES ASSUME TypeOK, KeyInv, Subframe PROVE KeyInv'
  OBVIOUS
<1> USE DEF KeyInv
<1> DEFINE mb == session.mb
           t == Clamp(subframe)
<1>1. /\ pc = "sub" /\ pc' = "sub" /\ session.motionBlur
      /\ subframe' = subframe + Inc(mb)
      /\ UNCHANGED <<session, frame, files, done, aborted>>
  BY DEF Subframe, LoopExported
<1>2. /\ exportedFrames' = exportedFrames \cup {t}
      /\ keys' = keys \/ keys' = keys \cup {t}
      /\ t \in keys'
  BY <1>1 DEF Subframe, ExportedAreKeyed
<1>3. Inc(mb) \in Nat /\ MbStart(mb, frame) \in Int
  <2>1. mb \in MbSettings
    BY SettingsType DEF TypeOK
  <2> QED BY <2>1, IntervalFacts DEF MbStart, TypeOK
<1>4. ExportedAreKeyed'
  BY <1>1, <1>2 DEF ExportedAreKeyed
<1>5. LoopExported'
  <2>1. PICK k \in Nat : AtSubframe(k)
    BY <1>1 DEF LoopExported
  <2>2. k * Inc(mb) \in Nat /\ (k + 1) * Inc(mb) = k * Inc(mb) + Inc(mb)
    BY <1>3, TimesNext
  <2>3. subframe' = MbStart(mb, frame) + (k + 1) * Inc(mb)
    BY <1>1, <1>3, <2>1, <2>2 DEF AtSubframe
  <2>4. ASSUME NEW j \in 0 .. k
        PROVE  Clamp(MbStart(mb, frame) + j * Inc(mb)) \in exportedFrames'
    <3>1. CASE j = k
      BY <1>2, <2>1, <3>1 DEF AtSubframe
    <3>2. CASE j # k
      BY <1>2, <2>1, <3>2 DEF AtSubframe
    <3> QED BY <3>1, <3>2
  <2>5. AtSubframe(k + 1)'
    BY <1>1, <2>3, <2>4 DEF AtSubframe
  <2> QED BY <1>1, <2>5 DEF LoopExported
<1>6. CheckReady' /\ RenderedWithKeys' /\ FilesComplete'
  BY <1>1 DEF CheckReady, RenderedWithKeys, FilesComplete
<1>7. AllKept'
  BY <1>1, <1>2 DEF AllKept, ExportFilePerFrame, IsExportMode, IsAnimation
<1> QED BY <1>4, <1>5, <1>6, <1>7

LEMMA LoopEndStep == TypeOK /\ KeyInv /\ SubframesEnd => KeyInv'
<1> SUFFICES ASSUME TypeOK, KeyInv, SubframesEnd PROVE KeyInv'
  OBVIOUS
<1> USE DEF KeyInv
<1> DEFINE mb == session.mb
<1>1. /\ pc = "sub" /\ pc' = "check" /\ session.motionBlur /\ current' = frame
      /\ UNCHANGED <<session, frame, exportedFrames, keys, files, done, aborted>>
      /\ aborted \/ subframe > MbEnd(mb, frame)
  BY DEF SubframesEnd, LoopExported, history
<1>2. mb \in MbSettings /\ frame \in Nat
  BY SettingsType DEF TypeOK
<1>3. ASSUME ~aborted
      PROVE  Needed(session, frame) \subseteq keys
  <2>1. PICK k \in Nat : AtSubframe(k)
    BY <1>1 DEF LoopExported
  <2>2. k > Intervals(mb) /\ Intervals(mb) \in Nat
    BY <1>1, <1>2, <1>3, <2>1, LoopLength, IntervalFacts DEF AtSubframe
  <2>3. ASSUME NEW j \in 0 .. Intervals(mb)
        PROVE  Clamp(MbStart(mb, frame) + j * Inc(mb)) \in keys
    <3>1. j \in 0 .. k - 1
      BY <2>2
    <3> QED BY <1>1, <2>1, <3>1 DEF AtSubframe, ExportedAreKeyed
  <2> QED BY <1>1, <2>3 DEF Needed
<1>4. CheckReady'
  BY <1>1, <1>3 DEF CheckReady, FrameReady
<1>5. ExportedAreKeyed' /\ LoopExported' /\ RenderedWithKeys' /\ FilesComplete'
  BY <1>1 DEF ExportedAreKeyed, LoopExported, RenderedWithKeys, FilesComplete
<1>6. AllKept'
  BY <1>1 DEF AllKept, ExportFilePerFrame, IsExportMode, IsAnimation
<1> QED BY <1>4, <1>5, <1>6

LEMMA RenderStep == TypeOK /\ KeyInv /\ RenderFrame => KeyInv'
<1> SUFFICES ASSUME TypeOK, KeyInv, RenderFrame PROVE KeyInv'
  OBVIOUS
<1> USE DEF KeyInv
<1>1. /\ pc = "check" /\ ~aborted /\ done' = done \cup {frame}
      /\ UNCHANGED <<session, current, exportedFrames, keys, aborted>>
  BY DEF RenderFrame
<1>2. \/ files' = files \cup {SceneFile("frame", {frame})}
      \/ files' = files
  BY DEF RenderFrame
<1>3. \/ pc' = "rendering" /\ frame' = frame
      \/ pc' = "driver"
  BY DEF RenderFrame
<1>4. FrameReady
  BY <1>1 DEF CheckReady
<1>5. ExportedAreKeyed' /\ LoopExported' /\ CheckReady'
  BY <1>1, <1>3 DEF ExportedAreKeyed, LoopExported, CheckReady
<1>6. RenderedWithKeys'
  BY <1>1, <1>3, <1>4 DEF RenderedWithKeys, FrameReady
<1>7. AllKept'
  BY <1>1, <1>4 DEF AllKept, FrameReady, ExportFilePerFrame, IsExportMode, IsAnimation
<1>8. FilesComplete'
  <2>1. \A f \in SceneFile("frame", {frame}).frames :
          Needed(session, f) \subseteq SceneFile("frame", {frame}).keys
    BY <1>4 DEF SceneFile, FrameReady
  <2> QED BY <1>1, <1>2, <2>1 DEF FilesComplete
<1> QED BY <1>5, <1>6, <1>7, <1>8

LEMMA EndStep == TypeOK /\ KeyInv /\ ExportEnd => KeyInv'
<1> SUFFICES ASSUME TypeOK, KeyInv, ExportEnd PROVE KeyInv'
  OBVIOUS
<1> USE DEF KeyInv
<1>1. pc = "driver" /\ pc' = "idle" /\ UNCHANGED session
  BY DEF ExportEnd
<1>2. \/ WritesAll /\ files' = files \cup {SceneFile("all", done)}
      \/ files' = files
  BY DEF ExportEnd
<1>3. ExportedAreKeyed' /\ LoopExported' /\ CheckReady' /\ AllKept' /\ RenderedWithKeys'
  BY <1>1 DEF ExportedAreKeyed, LoopExported, CheckReady, AllKept, RenderedWithKeys
<1>4. FilesComplete'
  <2>1. CASE WritesAll /\ files' = files \cup {SceneFile("all", done)}
    <3>1. ~ExportFilePerFrame
      BY <2>1 DEF WritesAll, ExportFilePerFrame
    <3>2. \A f \in SceneFile("all", done).frames :
            Needed(session, f) \subseteq SceneFile("all", done).keys
      BY <1>1, <3>1 DEF SceneFile, AllKept
    <3> QED BY <1>1, <2>1, <3>2 DEF FilesComplete
  <2>2. CASE files' = files
    BY <1>1, <2>2 DEF FilesComplete
  <2> QED BY <1>2, <2>1, <2>2
<1> QED BY <1>3, <1>4

LEMMA KeyStep == TypeOK /\ KeyInv /\ [Next]_vars => KeyInv'
<1> SUFFICES ASSUME TypeOK, KeyInv, [Next]_vars PROVE KeyInv'
  OBVIOUS
<1>1. ASSUME NEW s \in Sessions, NEW f \in FirstFrames, InitExporter(s, f)
      PROVE  KeyInv'
  <2>1. /\ pc' = "driver" /\ exportedFrames' = {} /\ files' = {} /\ done' = {}
    BY <1>1 DEF InitExporter
  <2>2. ExportedAreKeyed' /\ LoopExported' /\ CheckReady' /\ RenderedWithKeys'
    BY <2>1 DEF ExportedAreKeyed, LoopExported, CheckReady, RenderedWithKeys
  <2>3. FilesComplete'
    BY <2>1 DEF FilesComplete
  <2>4. AllKept'
    BY <2>1 DEF AllKept
  <2> QED BY <2>2, <2>3, <2>4 DEF KeyInv
<1>2. CASE FrameAborted
  BY <1>2, KeyKept DEF FrameAborted, history
<1>3. CASE CheckAborted
  BY <1>3 DEF CheckAborted, history, KeyInv, ExportedAreKeyed, LoopExported, CheckReady,
     AllKept, ExportFilePerFrame, IsExportMode, IsAnimation, RenderedWithKeys, FilesComplete
<1>4. CASE RenderEnds
  BY <1>4 DEF RenderEnds, history, KeyInv, ExportedAreKeyed, LoopExported, CheckReady,
     AllKept, ExportFilePerFrame, IsExportMode, IsAnimation, RenderedWithKeys, FilesComplete
<1>5. CASE Abort
  BY <1>5, KeyKept DEF Abort, history
<1>6. CASE UNCHANGED vars
  BY <1>6, KeyKept DEF vars
<1> QED
  BY <1>1, <1>2, <1>3, <1>4, <1>5, <1>6, StillStep, BlurStep, SubframeStep,
     LoopEndStep, RenderStep, EndStep DEF Next, ExportFrame

\* The inductive invariant holds: exportedFrames never names a time point whose
\* key frames clearKeyFrames() took away.
THEOREM KeysHold == Spec => []KeyInv
<1>1. Init => TypeOK /\ KeyInv
  BY TypeInit, KeyInit
<1>2. TypeOK /\ KeyInv /\ [Next]_vars => TypeOK' /\ KeyInv'
  BY TypeStep, KeyStep
<1> QED BY <1>1, <1>2, PTL DEF Spec

\* Whatever the frames, intervals and samples, a frame is rendered with a key
\* frame at each of its time points.
THEOREM FramesAreKeyed == Spec => []RenderedWithKeys
<1>1. KeyInv => RenderedWithKeys BY DEF KeyInv
<1> QED BY <1>1, KeysHold, PTL

\* No file lacks a key frame of a frame it is for, whether it was written per
\* frame, at the end, or at an end that an abort brought about.
THEOREM FilesHoldKeys == Spec => []FilesComplete
<1>1. KeyInv => FilesComplete BY DEF KeyInv
<1> QED BY <1>1, KeysHold, PTL

-----------------------------------------------------------------------------
(* The invariant behind FrameFilesLean. *)

LeanFrom(t) == \A key \in keys : key >= t

\* No key frame is left from an earlier session or, in files of their own, from
\* an earlier frame's interval; a session of one frame has none before it.
LeanInv ==
  /\ IsFiniteSet(done)
  /\ pc = "idle" => keys = {}
  /\ pc = "driver" /\ done = {} /\ error = "continue" => keys = {}
  /\ pc \in {"sub", "check"} /\ (ExportFilePerFrame \/ ~IsAnimation) =>
       LeanFrom(EarliestNeeded(frame))
  /\ pc = "rendering" => done # {}
  /\ pc = "sub" => session.motionBlur /\ subframe >= EarliestNeeded(frame)
  /\ FrameFilesLean

\* A session of one frame starts its frame only when none was done.
LEMMA FirstOfOne ==
  ASSUME TypeOK, LeanInv, MoreFrames, ~IsAnimation
  PROVE  done = {}
<1>1. session.nframes \in Nat /\ session.nframes <= 1
  BY SettingsAssumption DEF TypeOK, Sessions, IsAnimation
<1>2. Cardinality(done) \in Nat /\ Cardinality(done) < 1
  BY <1>1, FS_CardinalityType DEF LeanInv, MoreFrames
<1>3. Cardinality(done) = 0
  BY <1>2
<1> QED BY <1>3, FS_EmptySet DEF LeanInv

LEMMA LeanStart ==
  ASSUME TypeOK, LeanInv, pc = "driver", MoreFrames, error = "continue",
         NEW t \in Int, ExportFilePerFrame \/ ~IsAnimation
  PROVE  \A key \in ClearKeyFrames(t) : key >= t
<1>1. CASE ExportFilePerFrame
  BY <1>1 DEF ClearKeyFrames
<1>2. CASE ~ExportFilePerFrame
  <2>1. keys = {}
    BY <1>2, FirstOfOne DEF LeanInv
  <2> QED BY <1>2, <2>1 DEF ClearKeyFrames
<1> QED BY <1>1, <1>2

LEMMA LeanInit == Init => LeanInv
BY FS_EmptySet DEF Init, LeanInv, FrameFilesLean

LEMMA LeanKept ==
  ASSUME LeanInv, UNCHANGED <<session, frame, subframe, keys, done, files, pc>>,
         error' = error \/ error' = "abort"
  PROVE  LeanInv'
BY DEF LeanInv, LeanFrom, FrameFilesLean, EarliestNeeded, MbStart, ExportFilePerFrame,
       IsExportMode, IsAnimation

LEMMA LeanStep == TypeOK /\ LeanInv /\ [Next]_vars => LeanInv'
<1> SUFFICES ASSUME TypeOK, LeanInv, [Next]_vars PROVE LeanInv'
  OBVIOUS
<1> USE DEF LeanInv
<1>a. /\ session.mb \in MbSettings /\ frame \in Int /\ keys \subseteq Int
      /\ subframe \in Int
  BY SettingsType DEF TypeOK
<1>b. MbStart(session.mb, frame) \in Int /\ Inc(session.mb) \in Nat
  BY <1>a, IntervalFacts DEF MbStart
<1>1. ASSUME NEW s \in Sessions, NEW f \in FirstFrames, InitExporter(s, f)
      PROVE  LeanInv'
  <2>1. /\ pc' = "driver" /\ done' = {} /\ files' = {} /\ keys' = {}
    BY <1>1 DEF InitExporter
  <2>2. IsFiniteSet(done')
    BY <2>1, FS_EmptySet
  <2> QED BY <2>1, <2>2 DEF FrameFilesLean
<1>2. CASE FrameAborted
  BY <1>2, LeanKept DEF FrameAborted, history
<1>3. CASE StartStill
  <2>1. /\ pc = "driver" /\ pc' = "check" /\ ~session.motionBlur /\ MoreFrames
        /\ error = "continue" /\ keys' = ClearKeyFrames(frame) \cup {frame}
        /\ UNCHANGED <<session, frame, files, done>>
    BY <1>3 DEF StartStill
  <2>2. EarliestNeeded(frame)' = frame
    BY <2>1 DEF EarliestNeeded
  <2>3. ASSUME ExportFilePerFrame \/ ~IsAnimation
        PROVE  LeanFrom(frame)'
    <3>1. \A key \in ClearKeyFrames(frame) : key >= frame
      BY <1>a, <2>1, <2>3, LeanStart
    <3> QED BY <1>a, <2>1, <3>1 DEF LeanFrom
  <2>4. FrameFilesLean'
    BY <2>1 DEF FrameFilesLean, EarliestNeeded
  <2> QED
    BY <2>1, <2>2, <2>3, <2>4 DEF ExportFilePerFrame, IsExportMode, IsAnimation
<1>4. CASE StartBlur
  <2> DEFINE start == MbStart(session.mb, frame)
  <2>1. /\ pc = "driver" /\ pc' = "sub" /\ session.motionBlur /\ MoreFrames
        /\ error = "continue" /\ keys' = ClearKeyFrames(start) /\ subframe' = start
        /\ UNCHANGED <<session, frame, files, done>>
    BY <1>4 DEF StartBlur, history
  <2>2. EarliestNeeded(frame)' = start
    BY <2>1 DEF EarliestNeeded
  <2>3. ASSUME ExportFilePerFrame \/ ~IsAnimation
        PROVE  LeanFrom(start)'
    <3>1. \A key \in ClearKeyFrames(start) : key >= start
      BY <1>b, <2>1, <2>3, LeanStart
    <3> QED BY <2>1, <3>1 DEF LeanFrom
  <2>4. FrameFilesLean'
    BY <2>1 DEF FrameFilesLean, EarliestNeeded
  <2>5. subframe' >= start
    BY <1>b, <2>1
  <2> QED
    BY <2>1, <2>2, <2>3, <2>4, <2>5 DEF ExportFilePerFrame, IsExportMode, IsAnimation
<1>5. CASE Subframe
  <2> DEFINE t == Clamp(subframe)
             start == MbStart(session.mb, frame)
  <2>1. /\ pc = "sub" /\ pc' = "sub" /\ session.motionBlur
        /\ subframe' = subframe + Inc(session.mb) /\ keys' \subseteq keys \cup {t}
        /\ UNCHANGED <<session, frame, files, done>>
    BY <1>5 DEF Subframe
  <2>2. EarliestNeeded(frame) = start /\ EarliestNeeded(frame)' = start
    BY <2>1 DEF EarliestNeeded
  <2>3. t \in Int /\ t >= start /\ subframe' >= start
    BY <1>a, <1>b, <2>1, <2>2, ClampType
  <2>4. LeanFrom(start) => LeanFrom(start)'
    BY <2>1, <2>3 DEF LeanFrom
  <2>5. FrameFilesLean'
    BY <2>1 DEF FrameFilesLean, EarliestNeeded
  <2> QED
    BY <2>1, <2>2, <2>3, <2>4, <2>5 DEF ExportFilePerFrame, IsExportMode, IsAnimation
<1>6. CASE SubframesEnd
  BY <1>6 DEF SubframesEnd, history, LeanFrom, FrameFilesLean, EarliestNeeded, MbStart,
     ExportFilePerFrame, IsExportMode, IsAnimation
<1>7. CASE CheckAborted
  BY <1>7 DEF CheckAborted, history, FrameFilesLean, EarliestNeeded
<1>8. CASE RenderFrame
  <2>1. /\ pc = "check" /\ pc' \in {"rendering", "driver"} /\ done' = done \cup {frame}
        /\ UNCHANGED <<session, keys>>
    BY <1>8 DEF RenderFrame
  <2>2. IsFiniteSet(done') /\ done' # {}
    BY <2>1, FS_AddElement
  <2>3. \/ WritesFrame /\ files' = files \cup {SceneFile("frame", {frame})}
        \/ files' = files
    BY <1>8 DEF RenderFrame
  <2>4. WritesFrame => LeanFrom(EarliestNeeded(frame))
    BY <2>1 DEF WritesFrame
  <2>5. FrameFilesLean'
    BY <2>1, <2>3, <2>4 DEF FrameFilesLean, SceneFile, LeanFrom, EarliestNeeded
  <2> QED BY <2>1, <2>2, <2>5
<1>9. CASE RenderEnds
  <2>1. /\ pc = "rendering" /\ pc' = "driver" /\ done' = done /\ files' = files
        /\ UNCHANGED <<session, keys, error>>
    BY <1>9 DEF RenderEnds, history
  <2> QED BY <2>1 DEF FrameFilesLean, EarliestNeeded
<1>10. CASE Abort
  BY <1>10, LeanKept DEF Abort, history
<1>11. CASE ExportEnd
  <2>1. /\ pc' = "idle" /\ keys' = {} /\ UNCHANGED <<session, done>>
        /\ files' = files \/ files' = files \cup {SceneFile("all", done)}
    BY <1>11 DEF ExportEnd, history
  <2>2. FrameFilesLean'
    BY <2>1 DEF FrameFilesLean, SceneFile, EarliestNeeded
  <2> QED BY <2>1, <2>2
<1>12. CASE UNCHANGED vars
  BY <1>12, LeanKept DEF vars
<1> QED
  BY <1>1, <1>2, <1>3, <1>4, <1>5, <1>6, <1>7, <1>8, <1>9, <1>10, <1>11, <1>12
  DEF Next, ExportFrame

\* The files of single frames do not grow with the animation: clearKeyFrames()
\* takes from the renderer whatever is older than the frame's interval.
THEOREM FrameFilesStayLean == Spec => []FrameFilesLean
<1>1. Init => TypeOK /\ LeanInv
  BY TypeInit, LeanInit
<1>2. TypeOK /\ LeanInv /\ [Next]_vars => TypeOK' /\ LeanInv'
  BY TypeStep, LeanStep
<1>3. LeanInv => FrameFilesLean BY DEF LeanInv
<1> QED BY <1>1, <1>2, <1>3, PTL DEF Spec

-----------------------------------------------------------------------------
(* Natural numbers. *)

LEMMA LeastNumber ==
  ASSUME NEW S, S \subseteq Nat, S # {}
  PROVE  \E x \in S : \A y \in S : x <= y
<1> DEFINE R == {pair \in Nat \X Nat : pair[1] < pair[2]}
<1>1. IsWellFoundedOn(R, Nat)
  BY NatLessThanWellFounded DEF OpToRel
<1>2. PICK x \in S : \A y \in S : <<y, x>> \notin R
  BY <1>1, WFMin
<1>3. \A y \in S : ~(y < x)
  BY <1>2
<1> QED BY <1>3

\* Induction, on the set of numbers that a statement is true of.
LEMMA Induction ==
  ASSUME NEW S, 0 \in S, \A n \in Nat : n \in S => n + 1 \in S
  PROVE  Nat \subseteq S
<1> SUFFICES ASSUME Nat \ S # {} PROVE FALSE
  OBVIOUS
<1>1. PICK x \in Nat \ S : \A y \in Nat \ S : x <= y
  <2>1. Nat \ S \subseteq Nat
    OBVIOUS
  <2> QED BY <2>1, LeastNumber
<1>2. x # 0 /\ x - 1 \in Nat
  BY <1>1
<1>3. x - 1 \in S
  BY <1>1, <1>2
<1> QED BY <1>1, <1>2, <1>3

-----------------------------------------------------------------------------
(* Each system of Tools takes its own steps alone. *)

LEMMA OslAlone ==
  [AllNext]_allVars /\ which = "Osl" => which' = which /\ [Osl!Next]_(Osl!oslVars)
BY DEF AllNext, allVars, OslVars, Osl!oslVars
LEMMA SetsAlone ==
  [AllNext]_allVars /\ which = "Sets" => which' = which /\ [Sets!Next]_(Sets!meshSetsVars)
BY DEF AllNext, allVars, SetsVars, Sets!meshSetsVars
LEMMA LayerAlone ==
  [AllNext]_allVars /\ which = "Layer" => which' = which /\ [Layer!Next]_(Layer!layerVars)
BY DEF AllNext, allVars, LayerVars, Layer!layerVars

-----------------------------------------------------------------------------
(* The material of a proxy and its shader sets (MeshSets). *)

\* A saved node whose proxy had been opened and had shader sets.
HasSets(s) == s.sopPath # Sets!None /\ s.filePath # Sets!None /\ s.shaderSets # <<>>

\* What was exported of the node at the time it was saved.
SavedInv ==
  saved # <<>> => saved[1].exported = Sets!ExportedOf(saved[1].shaderSets, saved[1].links)

\* A loaded node waits for no rebuild: neither an event for the path that it has nor
\* whoever asks for its sockets makes it read the file.
LoadedInv ==
  (loaded /\ HasSets(saved[1])) =>
     /\ saved # <<>> /\ ~needRebuildShadersSets
     /\ shaderSets = saved[1].shaderSets /\ setLinks = saved[1].links

SetsInv == SavedInv /\ LoadedInv

LEMMA SetsInit == Sets!Init => SetsInv
BY DEF Sets!Init, SetsInv, SavedInv, LoadedInv

\* A step that leaves the saved scene, and the sets of a loaded node, as they are.
LEMMA SetsKeep ==
  ASSUME SetsInv, saved' = saved, loaded' => loaded,
         (loaded' /\ ~needRebuildShadersSets) =>
            ~needRebuildShadersSets' /\ UNCHANGED <<shaderSets, setLinks>>
  PROVE  SetsInv'
<1>1. SavedInv'
  BY DEF SetsInv, SavedInv
<1>2. LoadedInv'
  BY DEF SetsInv, LoadedInv, HasSets
<1> QED BY <1>1, <1>2 DEF SetsInv

LEMMA SetsSave == SetsInv /\ Sets!Save => SetsInv'
<1> SUFFICES ASSUME SetsInv, Sets!Save PROVE SetsInv'
  OBVIOUS
<1>1. /\ saved'[1].exported = Sets!Exported /\ saved'[1].shaderSets = shaderSets
      /\ saved'[1].links = setLinks /\ loaded' = FALSE
  BY DEF Sets!Save
<1>2. SavedInv'
  BY <1>1 DEF SavedInv, Sets!Exported
<1>3. LoadedInv'
  BY <1>1 DEF LoadedInv
<1> QED BY <1>2, <1>3 DEF SetsInv

LEMMA SetsLoad == SetsInv /\ Sets!Load => SetsInv'
<1> SUFFICES ASSUME SetsInv, Sets!Load PROVE SetsInv'
  OBVIOUS
<1>1. /\ saved # <<>> /\ saved' = saved /\ shaderSets' = saved[1].shaderSets
      /\ setLinks' = saved[1].links /\ needRebuildShadersSets' = Sets!NeedsRead(saved[1])
  BY DEF Sets!Load
<1>2. SavedInv'
  BY <1>1 DEF SetsInv, SavedInv
<1>3. HasSets(saved[1]) => ~Sets!NeedsRead(saved[1])
  BY DEF HasSets, Sets!NeedsRead
<1>4. LoadedInv'
  BY <1>1, <1>3 DEF LoadedInv, HasSets
<1> QED BY <1>2, <1>4 DEF SetsInv

LEMMA SetsStep == SetsInv /\ [Sets!Next]_(Sets!meshSetsVars) => SetsInv'
<1> SUFFICES ASSUME SetsInv, [Sets!Next]_(Sets!meshSetsVars) PROVE SetsInv'
  OBVIOUS
<1>1. CASE Sets!OrderedInputs
  BY <1>1, SetsKeep DEF Sets!OrderedInputs, Sets!node
<1>2. CASE Sets!Reload
  BY <1>2, SetsKeep DEF Sets!Reload
<1>3. ASSUME NEW path \in SetSops \cup {Sets!None}, Sets!ParmChanged(path)
      PROVE  SetsInv'
  BY <1>3, SetsKeep DEF Sets!ParmChanged
<1>4. ASSUME NEW i \in 1 .. MaxSockets, NEW n \in SetMaterials \cup {Sets!None},
                    Sets!Connect(i, n)
      PROVE  SetsInv'
  BY <1>4, SetsKeep DEF Sets!Connect
<1>5. CASE Sets!ProxyChanges
  BY <1>5, SetsKeep DEF Sets!ProxyChanges, Sets!node
<1>6. CASE UNCHANGED Sets!meshSetsVars
  BY <1>6, SetsKeep DEF Sets!meshSetsVars
<1> QED BY <1>1, <1>2, <1>3, <1>4, <1>5, <1>6, SetsSave, SetsLoad DEF Sets!Next

LEMMA SetsAlways == AllSpec => [](which = "Sets" => SetsInv)
<1> DEFINE I == which = "Sets" => SetsInv
<1>1. AllInit => I
  BY SetsInit DEF AllInit
<1>2. I /\ [AllNext]_allVars => I'
  BY SetsAlone, SetsStep DEF AllNext, allVars
<1> QED BY <1>1, <1>2, PTL DEF AllSpec

\* A scene that is loaded is exported with the materials it was saved with, for the
\* shader sets it was saved with, whatever became of the proxy and its file.
THEOREM LoadedAsSaved == AllSpec => []SavedIsKept
<1>1. (which = "Sets" => SetsInv) => SavedIsKept
  BY DEF SetsInv, SavedInv, LoadedInv, HasSets, Sets!SavedIsKept, Sets!Exported, SavedIsKept
<1> QED BY <1>1, SetsAlways, PTL

-----------------------------------------------------------------------------
(* Layered nodes (LayerNodes). *)

\* The numbers of the layers up to n that have a plugin, in their order.
Lists(s, prefix, n) ==
  /\ s \in Seq(1 .. n)
  /\ \A j, k \in 1 .. Len(s) : j < k => s[j] < s[k]
  /\ {s[k] : k \in 1 .. Len(s)} = {i \in 1 .. n : Layer!Plugin(<<prefix, i>>) # Layer!NoNode}

\* The loop over them, as far as n.
IsLoop(f, prefix, n) ==
  f = [i \in 0 .. n |->
         IF i = 0 THEN <<>>
         ELSE IF Layer!Plugin(<<prefix, i>>) # Layer!NoNode THEN Append(f[i - 1], i)
         ELSE f[i - 1]]

LEMMA LoopExists ==
  ASSUME NEW prefix, NEW n \in Nat
  PROVE  \E f : IsLoop(f, prefix, n)
<1> DEFINE Grown(f, i) == IF Layer!Plugin(<<prefix, i>>) # Layer!NoNode THEN Append(f[i - 1], i)
                         ELSE f[i - 1]
<1> DEFINE S == {m \in Nat : \E f : IsLoop(f, prefix, m)}
<1>1. 0 \in S
  <2> DEFINE f == [i \in 0 .. 0 |-> <<>>]
  <2>1. IsLoop(f, prefix, 0)
    BY DEF IsLoop
  <2> QED BY <2>1
<1>2. ASSUME NEW m \in Nat, m \in S PROVE m + 1 \in S
  <2>1. PICK f : IsLoop(f, prefix, m)
    BY <1>2
  <2> DEFINE g == [i \in 0 .. m + 1 |-> IF i = m + 1 THEN Grown(f, m + 1) ELSE f[i]]
  <2>2. \A i \in 0 .. m : f[i] = IF i = 0 THEN <<>> ELSE Grown(f, i)
    BY <2>1 DEF IsLoop
  <2>3. \A i \in 0 .. m : g[i] = f[i]
    OBVIOUS
  <2>4. g[m + 1] = Grown(g, m + 1)
    BY <2>3
  <2>5. g = [i \in 0 .. m + 1 |-> g[i]]
    OBVIOUS
  <2> HIDE DEF g
  <2>6. ASSUME NEW i \in 0 .. m + 1 PROVE g[i] = IF i = 0 THEN <<>> ELSE Grown(g, i)
    <3>1. CASE i = m + 1
      <4>1. m + 1 # 0
        OBVIOUS
      <4> QED BY <3>1, <2>4, <4>1
    <3>2. CASE i = 0
      <4>1. 0 \in 0 .. m
        OBVIOUS
      <4>2. g[0] = f[0] /\ f[0] = <<>>
        BY <4>1, <2>2, <2>3
      <4> QED BY <3>2, <4>2
    <3>3. CASE i \in 1 .. m
      <4>1. i \in 0 .. m /\ i - 1 \in 0 .. m /\ i # 0
        BY <3>3
      <4>2. g[i] = f[i] /\ g[i - 1] = f[i - 1]
        BY <4>1, <2>3
      <4> QED BY <4>1, <4>2, <2>2
    <3> QED BY <3>1, <3>2, <3>3
  <2>7. g = [i \in 0 .. m + 1 |-> IF i = 0 THEN <<>> ELSE Grown(g, i)]
    <3> DEFINE h == [i \in 0 .. m + 1 |-> IF i = 0 THEN <<>> ELSE Grown(g, i)]
    <3>1. \A i \in 0 .. m + 1 : g[i] = h[i]
      BY <2>6
    <3>2. h = [i \in 0 .. m + 1 |-> h[i]]
      OBVIOUS
    <3> HIDE DEF h
    <3>3. g = h
      BY <2>5, <3>1, <3>2
    <3> QED BY <3>3 DEF h
  <2>8. IsLoop(g, prefix, m + 1)
    BY <2>7 DEF IsLoop
  <2> QED BY <2>8
<1> HIDE DEF S
<1>3. Nat \subseteq S
  BY <1>1, <1>2, Induction
<1> QED BY <1>3 DEF S

LEMMA ListsStep ==
  ASSUME NEW prefix, NEW n \in Nat, NEW s, Lists(s, prefix, n)
  PROVE  Lists(IF Layer!Plugin(<<prefix, n + 1>>) # Layer!NoNode THEN Append(s, n + 1) ELSE s,
               prefix, n + 1)
<1>1. s \in Seq(1 .. n) /\ s \in Seq(1 .. n + 1)
  BY DEF Lists
<1>2. Len(s) \in Nat /\ \A k \in 1 .. Len(s) : s[k] \in 1 .. n
  BY <1>1
<1>3. CASE Layer!Plugin(<<prefix, n + 1>>) # Layer!NoNode
  <2> DEFINE t == Append(s, n + 1)
  <2>1. t \in Seq(1 .. n + 1) /\ Len(t) = Len(s) + 1 /\ t[Len(s) + 1] = n + 1
        /\ \A k \in 1 .. Len(s) : t[k] = s[k]
    BY <1>1
  <2> HIDE DEF t
  <2>2. ASSUME NEW j \in 1 .. Len(t), NEW k \in 1 .. Len(t), j < k PROVE t[j] < t[k]
    <3>1. CASE k = Len(s) + 1
      <4>1. j \in 1 .. Len(s)
        BY <2>1, <1>2, <2>2, <3>1
      <4> QED BY <4>1, <3>1, <2>1, <1>2
    <3>2. CASE k # Len(s) + 1
      <4>1. j \in 1 .. Len(s) /\ k \in 1 .. Len(s)
        <5>1. j \in 1 .. Len(s) + 1 /\ k \in 1 .. Len(s) + 1
          BY <2>1
        <5> QED BY <5>1, <1>2, <2>2, <3>2
      <4>2. s[j] < s[k]
        BY <4>1, <2>2 DEF Lists
      <4> QED BY <4>1, <4>2, <2>1
    <3> QED BY <3>1, <3>2
  <2>3. {t[k] : k \in 1 .. Len(t)} = {s[k] : k \in 1 .. Len(s)} \cup {n + 1}
    <3>1. ASSUME NEW k \in 1 .. Len(t) PROVE t[k] \in {s[i] : i \in 1 .. Len(s)} \cup {n + 1}
      <4>1. k \in 1 .. Len(s) \/ k = Len(s) + 1
        BY <2>1, <1>2
      <4> QED BY <2>1, <4>1
    <3>2. ASSUME NEW k \in 1 .. Len(s) PROVE s[k] \in {t[i] : i \in 1 .. Len(t)}
      <4>1. k \in 1 .. Len(t)
        BY <2>1, <1>2
      <4> QED BY <2>1, <4>1
    <3>3. n + 1 \in {t[i] : i \in 1 .. Len(t)}
      <4>1. Len(s) + 1 \in 1 .. Len(t)
        BY <2>1, <1>2
      <4> QED BY <2>1, <4>1
    <3> QED BY <3>1, <3>2, <3>3
  <2>4. {i \in 1 .. n + 1 : Layer!Plugin(<<prefix, i>>) # Layer!NoNode}
          = {i \in 1 .. n : Layer!Plugin(<<prefix, i>>) # Layer!NoNode} \cup {n + 1}
    BY <1>3
  <2>5. Lists(t, prefix, n + 1)
    BY <2>1, <2>2, <2>3, <2>4 DEF Lists
  <2> QED BY <1>3, <2>5 DEF t
<1>4. CASE ~(Layer!Plugin(<<prefix, n + 1>>) # Layer!NoNode)
  <2>1. {i \in 1 .. n + 1 : Layer!Plugin(<<prefix, i>>) # Layer!NoNode}
          = {i \in 1 .. n : Layer!Plugin(<<prefix, i>>) # Layer!NoNode}
    BY <1>4
  <2>2. Lists(s, prefix, n + 1)
    BY <1>1, <2>1 DEF Lists
  <2> QED BY <1>4, <2>2
<1> QED BY <1>3, <1>4

LEMMA ThereLists ==
  ASSUME count \in Nat, NEW prefix
  PROVE  Lists(Layer!There(prefix), prefix, count)
<1>1. PICK f : f = CHOOSE g : IsLoop(g, prefix, count)
  OBVIOUS
<1>2. IsLoop(f, prefix, count)
  BY <1>1, LoopExists
<1>3. Layer!There(prefix) = f[count]
  BY <1>1 DEF Layer!There, IsLoop
<1> DEFINE Q == {n \in Nat : n <= count => Lists(f[n], prefix, n)}
<1>4. 0 \in Q
  <2>1. f[0] = <<>>
    BY <1>2 DEF IsLoop
  <2>2. Lists(<<>>, prefix, 0)
    BY DEF Lists
  <2> QED BY <2>1, <2>2
<1>5. ASSUME NEW n \in Nat, n \in Q PROVE n + 1 \in Q
  <2> SUFFICES ASSUME n + 1 <= count PROVE Lists(f[n + 1], prefix, n + 1)
    OBVIOUS
  <2>1. f[n + 1] = IF Layer!Plugin(<<prefix, n + 1>>) # Layer!NoNode THEN Append(f[n], n + 1) ELSE f[n]
    <3>1. n + 1 \in 0 .. count /\ n + 1 # 0 /\ (n + 1) - 1 = n
      OBVIOUS
    <3> QED BY <3>1, <1>2 DEF IsLoop
  <2>2. Lists(f[n], prefix, n)
    BY <1>5
  <2> QED BY <2>1, <2>2, ListsStep
<1> HIDE DEF Q
<1>6. Nat \subseteq Q
  BY <1>4, <1>5, Induction
<1>7. count \in Q
  BY <1>6
<1> QED BY <1>3, <1>7 DEF Q

LayerTypes ==
  /\ layerKind \in Layer!Kinds /\ count \in 0 .. MaxLayers
  /\ DOMAIN layerLinks = 0 .. Layer!MaxInputs - 1
\* What LayersAreOwn says of the lists.
ListsOwn(lists) ==
  \E layer \in [1 .. Len(lists) -> 1 .. count] :
    /\ \A k \in 1 .. Len(lists) :
         lists[k] = <<layerLinks[Layer!Socket(layer[k])], Layer!Own(layer[k])>>
    /\ \A j, k \in 1 .. Len(lists) :
         j < k => IF layerKind = "TexLayeredMax" THEN layer[j] > layer[k] ELSE layer[j] < layer[k]
    /\ {layer[k] : k \in 1 .. Len(lists)} = {i \in 1 .. count : Layer!Works(Layer!Socket(i))}
LayersExported == layerExported # Layer!NotExported => ListsOwn(layerExported)
LayerInv == LayerTypes /\ LayersExported

LEMMA BaseIsSeq ==
  ASSUME LayerTypes
  PROVE  /\ Layer!NumBase \in Nat /\ DOMAIN LayerBase[layerKind] = 1 .. Layer!NumBase
         /\ \A i, j \in 1 .. Layer!NumBase :
              LayerBase[layerKind][i] = LayerBase[layerKind][j] => i = j
<1>1. LayerBase[layerKind] \in Seq(STRING) /\ Layer!IsInjective(LayerBase[layerKind])
  BY Assumptions DEF Assumptions, Layer!LayerAssumption, LayerTypes
<1>2. DOMAIN LayerBase[layerKind] = 1 .. Len(LayerBase[layerKind]) /\ Len(LayerBase[layerKind]) \in Nat
  BY <1>1
<1> QED
  BY <1>1, <1>2 DEF Layer!NumBase, Layer!IsInjective

LEMMA BaseFound ==
  ASSUME LayerTypes, NEW idx \in 0 .. Layer!NumBase - 1
  PROVE  Layer!BaseSocket(LayerBase[layerKind][idx + 1]) = idx
<1> DEFINE named == {i \in 0 .. Layer!NumBase - 1 :
                       LayerBase[layerKind][i + 1] = LayerBase[layerKind][idx + 1]}
<1>1. named = {idx}
  <2>1. \A i \in 0 .. Layer!NumBase - 1 : i + 1 \in 1 .. Layer!NumBase
    BY BaseIsSeq
  <2> QED BY <2>1, BaseIsSeq
<1>2. idx \in Int
  BY BaseIsSeq
<1>3. Layer!Min({idx}) = idx
  BY <1>2 DEF Layer!Min
<1>4. Layer!BaseSocket(LayerBase[layerKind][idx + 1]) = IF named = {} THEN -1 ELSE Layer!Min(named)
  BY DEF Layer!BaseSocket
<1> QED BY <1>1, <1>3, <1>4

\* Each socket is found by its own name.
LEMMA NamesFind ==
  ASSUME LayerTypes, NEW idx \in 0 .. Layer!OrderedInputs - 1
  PROVE  Layer!InputFromName(Layer!InputName(idx)) = idx
<1> DEFINE base == Layer!NumBase
           socket == idx - base
<1>1. base \in Nat /\ count \in Nat /\ idx \in Nat
  BY BaseIsSeq, Assumptions DEF Assumptions, Layer!LayerAssumption, LayerTypes, Layer!OrderedInputs,
     Layer!PerLayer
<1>2. CASE idx < base
  <2>1. Layer!InputName(idx) = <<"base", LayerBase[layerKind][idx + 1]>>
    BY <1>1, <1>2 DEF Layer!InputName, base
  <2>2. Layer!InputFromName(<<"base", LayerBase[layerKind][idx + 1]>>)
          = Layer!BaseSocket(LayerBase[layerKind][idx + 1])
    BY DEF Layer!InputFromName
  <2>3. idx \in 0 .. base - 1
    BY <1>1, <1>2
  <2> QED BY <2>1, <2>2, <2>3, BaseFound
<1>3. CASE ~(idx < base)
  <2>1. socket \in Nat /\ idx = base + socket
    BY <1>1, <1>3
  <2> HIDE DEF base, socket
  <2>2. CASE layerKind = "MtlMulti"
    <3>1. Layer!InputName(idx) = <<"mtl", socket + 1>>
      BY <1>1, <1>3, <2>2 DEF Layer!InputName, Layer!MtlMultiName, base, socket
    <3>2. Layer!InputFromName(<<"mtl", socket + 1>>) = base + ((socket + 1) - 1)
      BY DEF Layer!InputFromName, Layer!MtlMultiSocket, base
    <3> QED BY <2>1, <3>1, <3>2, <1>1
  <2>3. CASE layerKind = "TexMulti"
    <3>1. Layer!InputName(idx) = <<"tex", socket + 1>>
      BY <1>1, <1>3, <2>3 DEF Layer!InputName, Layer!TexMultiName, base, socket
    <3>2. Layer!InputFromName(<<"tex", socket + 1>>) = base + ((socket + 1) - 1)
      BY <2>3 DEF Layer!InputFromName, Layer!TexMultiSocket, base
    <3> QED BY <2>1, <3>1, <3>2, <1>1
  <2>4. CASE layerKind = "TexLayeredMax"
    <3>1. Layer!InputName(idx) = <<"tex", socket + 1>>
      BY <1>1, <1>3, <2>4 DEF Layer!InputName, Layer!TexLayeredMaxName, base, socket
    <3>2. Layer!InputFromName(<<"tex", socket + 1>>) = base + ((socket + 1) - 1)
      BY <2>4 DEF Layer!InputFromName, Layer!TexLayeredMaxSocket, base
    <3> QED BY <2>1, <3>1, <3>2, <1>1
  <2>5. CASE layerKind = "BRDFLayered"
    <3> DEFINE half == socket \div 2
    <3>1. half \in Nat /\ (socket = 2 * half \/ socket = 2 * half + 1)
          /\ (socket % 2 = 1 <=> socket = 2 * half + 1)
      BY <2>1
    <3>2. Layer!InputName(idx) = <<IF socket % 2 = 1 THEN "weight" ELSE "brdf", half + 1>>
      BY <1>1, <1>3, <2>5 DEF Layer!InputName, Layer!BRDFLayeredName, base, socket
    <3> HIDE DEF half
    <3>3. CASE socket = 2 * half + 1
      <4>1. Layer!InputName(idx) = <<"weight", half + 1>>
        BY <3>1, <3>2, <3>3
      <4>2. Layer!InputFromName(<<"weight", half + 1>>) = base + ((half + 1) * 2 - 1)
        BY DEF Layer!InputFromName, Layer!BRDFLayeredSocket, base
      <4> QED BY <4>1, <4>2, <3>1, <3>3, <2>1, <1>1
    <3>4. CASE socket = 2 * half
      <4>1. Layer!InputName(idx) = <<"brdf", half + 1>>
        BY <3>1, <3>2, <3>4
      <4>2. Layer!InputFromName(<<"brdf", half + 1>>) = base + ((half + 1) - 1) * 2
        BY DEF Layer!InputFromName, Layer!BRDFLayeredSocket, base
      <4> QED BY <4>1, <4>2, <3>1, <3>4, <2>1, <1>1
    <3> QED BY <3>1, <3>3, <3>4
  <2> QED BY <2>2, <2>3, <2>4, <2>5 DEF LayerTypes, Layer!Kinds
<1> QED BY <1>2, <1>3

LEMMA PluginOfSocket ==
  ASSUME NEW name, Layer!InputFromName(name) \in DOMAIN layerLinks
  PROVE  LET idx == Layer!InputFromName(name)
         IN /\ Layer!Plugin(name) # Layer!NoNode <=> Layer!Works(idx)
            /\ Layer!Works(idx) => Layer!Plugin(name) = layerLinks[idx]
<1> DEFINE idx == Layer!InputFromName(name)
<1>1. Layer!Plugin(name) = IF layerLinks[idx] \notin BrokenInputs THEN layerLinks[idx] ELSE Layer!NoNode
  BY DEF Layer!Plugin
<1> HIDE DEF idx
<1> QED BY <1>1 DEF Layer!Works, idx

Entry(i) == <<layerLinks[Layer!Socket(i)], Layer!Own(i)>>
Prefix == CASE layerKind = "MtlMulti" -> "mtl"
            [] layerKind = "BRDFLayered" -> "brdf"
            [] OTHER -> "tex"

LEMMA SocketOfLayer ==
  ASSUME LayerTypes, NEW i \in 1 .. count
  PROVE  /\ Layer!InputFromName(<<Prefix, i>>) = Layer!Socket(i)
         /\ Layer!Socket(i) \in DOMAIN layerLinks
         /\ layerKind = "BRDFLayered" =>
              /\ Layer!InputFromName(<<"weight", i>>) = Layer!Socket(i) + 1
              /\ Layer!Socket(i) + 1 \in DOMAIN layerLinks
<1> DEFINE base == Layer!NumBase
<1>1. base \in Nat /\ i \in 1 .. MaxLayers /\ MaxLayers \in Nat
  BY BaseIsSeq, Assumptions DEF Assumptions, Layer!LayerAssumption, LayerTypes
<1>2. layerKind \in {"MtlMulti", "TexMulti", "TexLayeredMax", "BRDFLayered"}
  BY DEF LayerTypes, Layer!Kinds
<1>3. CASE layerKind = "BRDFLayered"
  <2>1. DOMAIN layerLinks = 0 .. base + MaxLayers * 2 - 1
    <3>1. Layer!MaxInputs = base + MaxLayers * 2
      BY <1>3 DEF Layer!MaxInputs, Layer!PerLayer
    <3> HIDE DEF base
    <3> QED BY <3>1, <1>1 DEF LayerTypes
  <2>2. Layer!Socket(i) = base + 2 * (i - 1)
    BY <1>3 DEF Layer!Socket
  <2>3. Prefix = "brdf"
    BY <1>3 DEF Prefix
  <2>4. Layer!InputFromName(<<"brdf", i>>) = base + (i - 1) * 2
    BY DEF Layer!InputFromName, Layer!BRDFLayeredSocket
  <2>5. Layer!InputFromName(<<"weight", i>>) = base + (i * 2 - 1)
    BY DEF Layer!InputFromName, Layer!BRDFLayeredSocket
  <2> HIDE DEF base
  <2> QED BY <1>1, <2>1, <2>2, <2>3, <2>4, <2>5
<1>4. CASE layerKind # "BRDFLayered"
  <2>1. DOMAIN layerLinks = 0 .. base + MaxLayers - 1
    BY <1>1, <1>4 DEF LayerTypes, Layer!MaxInputs, Layer!PerLayer
  <2>2. Layer!Socket(i) = base + (i - 1)
    BY <1>4 DEF Layer!Socket
  <2>3. Layer!InputFromName(<<Prefix, i>>) = base + (i - 1)
    <3>1. CASE layerKind = "MtlMulti"
      BY <3>1 DEF Prefix, Layer!InputFromName, Layer!MtlMultiSocket
    <3>2. CASE layerKind = "TexMulti"
      BY <3>2 DEF Prefix, Layer!InputFromName, Layer!TexMultiSocket
    <3>3. CASE layerKind = "TexLayeredMax"
      BY <3>3 DEF Prefix, Layer!InputFromName, Layer!TexLayeredMaxSocket
    <3> QED BY <1>2, <1>4, <3>1, <3>2, <3>3
  <2> HIDE DEF base
  <2> QED BY <1>1, <1>4, <2>1, <2>2, <2>3
<1> QED BY <1>3, <1>4

LEMMA ThereWorks ==
  ASSUME LayerTypes
  PROVE  LET s == Layer!There(Prefix)
         IN /\ s \in Seq(1 .. count)
            /\ \A j, k \in 1 .. Len(s) : j < k => s[j] < s[k]
            /\ {s[k] : k \in 1 .. Len(s)} = {i \in 1 .. count : Layer!Works(Layer!Socket(i))}
<1>1. count \in Nat
  BY Assumptions DEF Assumptions, Layer!LayerAssumption, LayerTypes
<1>2. Lists(Layer!There(Prefix), Prefix, count)
  BY <1>1, ThereLists
<1>3. \A i \in 1 .. count :
        Layer!Plugin(<<Prefix, i>>) # Layer!NoNode <=> Layer!Works(Layer!Socket(i))
  BY SocketOfLayer, PluginOfSocket
<1> QED BY <1>2, <1>3 DEF Lists

\* The lists of a node are the entries of the layers that work.
LEMMA LayersAreEntries ==
  ASSUME LayerTypes
  PROVE  LET s == Layer!There(Prefix)
             entries == [k \in 1 .. Len(s) |-> Entry(s[k])]
         IN Layer!Layers = IF layerKind = "TexLayeredMax" THEN Layer!Reverse(entries) ELSE entries
<1> DEFINE s == Layer!There(Prefix)
           entries == [k \in 1 .. Len(s) |-> Entry(s[k])]
<1>1. /\ DOMAIN s = 1 .. Len(s)
      /\ \A k \in 1 .. Len(s) : s[k] \in 1 .. count /\ Layer!Works(Layer!Socket(s[k]))
  <2>1. s \in Seq(1 .. count)
    BY ThereWorks
  <2>2. {s[k] : k \in 1 .. Len(s)} = {i \in 1 .. count : Layer!Works(Layer!Socket(i))}
    BY ThereWorks
  <2> HIDE DEF s
  <2> QED BY <2>1, <2>2
<1>2. \A k \in 1 .. Len(s) : Layer!Plugin(<<Prefix, s[k]>>) = layerLinks[Layer!Socket(s[k])]
  <2> HIDE DEF s
  <2> QED BY <1>1, SocketOfLayer, PluginOfSocket
<1>3. CASE layerKind = "MtlMulti"
  <2>1. Prefix = "mtl"
    BY <1>3 DEF Prefix
  <2>2. Layer!Layers = [k \in DOMAIN s |-> <<Layer!Plugin(<<Prefix, s[k]>>), <<"id", s[k] - 1>>>>]
    BY <1>3, <2>1 DEF Layer!Layers, Layer!MtlMultiLayers
  <2> HIDE DEF s
  <2>3. \A k \in 1 .. Len(s) : Entry(s[k]) = <<Layer!Plugin(<<Prefix, s[k]>>), <<"id", s[k] - 1>>>>
    BY <1>2, <1>3 DEF Entry, Layer!Own
  <2> QED BY <1>1, <1>3, <2>2, <2>3 DEF s
<1>4. CASE layerKind = "TexMulti"
  <2>1. Prefix = "tex"
    BY <1>4 DEF Prefix
  <2>2. Layer!Layers = [k \in DOMAIN s |-> <<Layer!Plugin(<<Prefix, s[k]>>), <<"id", s[k] - 1>>>>]
    BY <1>4, <2>1 DEF Layer!Layers, Layer!TexMultiLayers
  <2> HIDE DEF s
  <2>3. \A k \in 1 .. Len(s) : Entry(s[k]) = <<Layer!Plugin(<<Prefix, s[k]>>), <<"id", s[k] - 1>>>>
    BY <1>2, <1>4 DEF Entry, Layer!Own
  <2> QED BY <1>1, <1>4, <2>2, <2>3 DEF s
<1>5. CASE layerKind = "TexLayeredMax"
  <2>1. Prefix = "tex"
    BY <1>5 DEF Prefix
  <2>2. Layer!Layers = Layer!Reverse([k \in DOMAIN s |->
          <<Layer!Plugin(<<Prefix, s[k]>>), <<"blending", weights[s[k]]>>>>])
    BY <1>5, <2>1 DEF Layer!Layers, Layer!TexLayeredMaxLayers
  <2> HIDE DEF s
  <2>3. \A k \in 1 .. Len(s) :
          Entry(s[k]) = <<Layer!Plugin(<<Prefix, s[k]>>), <<"blending", weights[s[k]]>>>>
    BY <1>2, <1>5 DEF Entry, Layer!Own
  <2>4. entries = [k \in DOMAIN s |-> <<Layer!Plugin(<<Prefix, s[k]>>), <<"blending", weights[s[k]]>>>>]
    BY <1>1, <2>3
  <2> HIDE DEF entries
  <2>5. Layer!Layers = Layer!Reverse(entries)
    BY <2>2, <2>4
  <2> QED BY <1>5, <2>5 DEF entries, s
<1>6. CASE layerKind = "BRDFLayered"
  <2>1. Prefix = "brdf"
    BY <1>6 DEF Prefix
  <2>2. Layer!Layers = [k \in DOMAIN s |-> <<Layer!Plugin(<<Prefix, s[k]>>), Layer!Weight(s[k])>>]
    BY <1>6, <2>1 DEF Layer!Layers, Layer!BRDFLayeredLayers
  <2> HIDE DEF s
  <2>3. \A i \in 1 .. count : Layer!Weight(i) = Layer!Own(i)
    <3> SUFFICES ASSUME NEW i \in 1 .. count PROVE Layer!Weight(i) = Layer!Own(i)
      OBVIOUS
    <3>1. /\ Layer!InputFromName(<<"weight", i>>) = Layer!Socket(i) + 1
          /\ Layer!Socket(i) + 1 \in DOMAIN layerLinks
      BY <1>6, SocketOfLayer
    <3>2. /\ Layer!Plugin(<<"weight", i>>) # Layer!NoNode <=> Layer!Works(Layer!Socket(i) + 1)
          /\ Layer!Works(Layer!Socket(i) + 1) =>
               Layer!Plugin(<<"weight", i>>) = layerLinks[Layer!Socket(i) + 1]
      BY <3>1, PluginOfSocket
    <3> QED BY <1>6, <3>2 DEF Layer!Weight, Layer!Own
  <2>4. \A k \in 1 .. Len(s) : Entry(s[k]) = <<Layer!Plugin(<<Prefix, s[k]>>), Layer!Weight(s[k])>>
    BY <1>1, <1>2, <2>3 DEF Entry
  <2> QED BY <1>1, <1>6, <2>2, <2>4 DEF s
<1> QED BY <1>3, <1>4, <1>5, <1>6 DEF LayerTypes, Layer!Kinds

LEMMA LayersOwn ==
  ASSUME LayerTypes
  PROVE  ListsOwn(Layer!Layers)
<1> DEFINE s == Layer!There(Prefix)
           entries == [k \in 1 .. Len(s) |-> Entry(s[k])]
<1>1. /\ s \in Seq(1 .. count)
      /\ \A j, k \in 1 .. Len(s) : j < k => s[j] < s[k]
      /\ {s[k] : k \in 1 .. Len(s)} = {i \in 1 .. count : Layer!Works(Layer!Socket(i))}
  BY ThereWorks
<1>2. Layer!Layers = IF layerKind = "TexLayeredMax" THEN Layer!Reverse(entries) ELSE entries
  BY LayersAreEntries
<1> HIDE DEF s
<1>3. PICK n : n = Len(s) /\ n \in Nat /\ s \in [1 .. n -> 1 .. count]
  BY <1>1
<1>4. PICK e : e = entries
  OBVIOUS
<1>5. e = [k \in 1 .. n |-> Entry(s[k])]
  BY <1>3, <1>4
<1>6. Len(e) = n
  BY <1>3, <1>5
<1>7. CASE layerKind # "TexLayeredMax"
  <2>1. Layer!Layers = e
    BY <1>2, <1>4, <1>7
  <2>2. \A k \in 1 .. n : e[k] = <<layerLinks[Layer!Socket(s[k])], Layer!Own(s[k])>>
    BY <1>5 DEF Entry
  <2> QED BY <1>1, <1>3, <1>6, <1>7, <2>1, <2>2 DEF ListsOwn
<1>8. CASE layerKind = "TexLayeredMax"
  <2>1. Layer!Layers = Layer!Reverse(e)
    BY <1>2, <1>4, <1>8
  <2>2. Layer!Reverse(e) = [k \in 1 .. n |-> e[n - k + 1]]
    BY <1>6 DEF Layer!Reverse
  <2>3. PICK r : r = [k \in 1 .. n |-> e[n - k + 1]]
    OBVIOUS
  <2>4. Layer!Layers = r /\ Len(r) = n
    BY <1>3, <2>1, <2>2, <2>3
  <2>5. PICK layer : layer = [k \in 1 .. n |-> s[n - k + 1]]
    OBVIOUS
  <2>6. \A k \in 1 .. n : n - k + 1 \in 1 .. n
    BY <1>3
  <2>7. layer \in [1 .. n -> 1 .. count]
    BY <1>3, <2>5, <2>6
  <2>8. \A k \in 1 .. n : r[k] = <<layerLinks[Layer!Socket(layer[k])], Layer!Own(layer[k])>>
    BY <1>5, <2>3, <2>5, <2>6 DEF Entry
  <2>9. \A j, k \in 1 .. n : j < k => layer[j] > layer[k]
    <3> SUFFICES ASSUME NEW j \in 1 .. n, NEW k \in 1 .. n, j < k PROVE layer[j] > layer[k]
      OBVIOUS
    <3>1. n - k + 1 < n - j + 1 /\ n - k + 1 \in 1 .. n /\ n - j + 1 \in 1 .. n
      BY <1>3
    <3>2. s[n - k + 1] < s[n - j + 1]
      BY <3>1, <1>1, <1>3
    <3>3. s[n - k + 1] \in Int /\ s[n - j + 1] \in Int
      BY <3>1, <1>3
    <3> QED BY <3>2, <3>3, <2>5
  <2>10. {layer[k] : k \in 1 .. n} = {s[k] : k \in 1 .. n}
    <3>1. \A k \in 1 .. n : layer[n - k + 1] = s[k]
      <4>1. \A k \in 1 .. n : n - (n - k + 1) + 1 = k
        BY <1>3
      <4> QED BY <2>5, <2>6, <4>1
    <3>2. \A k \in 1 .. n : layer[k] = s[n - k + 1]
      BY <2>5
    <3> QED BY <3>1, <3>2, <2>6
  <2> QED BY <1>1, <1>3, <1>8, <2>4, <2>7, <2>8, <2>9, <2>10 DEF ListsOwn
<1> QED BY <1>7, <1>8

LEMMA LayerInit == Layer!Init => LayerInv
BY DEF Layer!Init, LayerInv, LayerTypes, LayersExported

LEMMA LayerStep ==
  ASSUME LayerInv, Layer!Next \/ UNCHANGED LayerVars
  PROVE  LayerInv'
<1>1. layerKind' = layerKind
  BY DEF Layer!Next, Layer!SetCount, Layer!SetWeight, Layer!Connect, Layer!AsPluginDesc, Layer!Edit,
     LayerVars
<1>2. Layer!MaxInputs' = Layer!MaxInputs
  BY <1>1 DEF Layer!MaxInputs, Layer!NumBase, Layer!PerLayer
<1>3. LayerTypes'
  <2>1. count' \in 0 .. MaxLayers
    BY DEF LayerInv, LayerTypes, Layer!Next, Layer!SetCount, Layer!SetWeight, Layer!Connect,
       Layer!AsPluginDesc, LayerVars
  <2>2. DOMAIN layerLinks' = DOMAIN layerLinks
    BY DEF Layer!Next, Layer!SetCount, Layer!SetWeight, Layer!Connect, Layer!AsPluginDesc, LayerVars
  <2> QED BY <1>1, <1>2, <2>1, <2>2 DEF LayerInv, LayerTypes
<1>4. ASSUME layerExported' = Layer!NotExported
      PROVE  LayersExported'
  BY <1>4 DEF LayersExported
<1>5. ASSUME UNCHANGED <<layerKind, count, weights, layerLinks>>, NEW lists, ListsOwn(lists)
      PROVE  ListsOwn(lists)'
  <2>1. \A i : Layer!Socket(i)' = Layer!Socket(i)
    BY <1>5 DEF Layer!Socket, Layer!NumBase
  <2>2. \A idx : Layer!Works(idx)' = Layer!Works(idx)
    BY <1>5 DEF Layer!Works
  <2>3. \A i : Layer!Own(i)' = Layer!Own(i)
    BY <1>5, <2>1, <2>2 DEF Layer!Own
  <2>4. \A i : Layer!Works(Layer!Socket(i))' = Layer!Works(Layer!Socket(i))
    BY <1>5 DEF Layer!Works, Layer!Socket, Layer!NumBase
  <2>5. PICK own : own = [i \in 1 .. count |-> <<layerLinks[Layer!Socket(i)], Layer!Own(i)>>]
    OBVIOUS
  <2>6. PICK works : works = {i \in 1 .. count : Layer!Works(Layer!Socket(i))}
    OBVIOUS
  <2>7. works = {i \in 1 .. count' : Layer!Works(Layer!Socket(i))'}
    BY <1>5, <2>4, <2>6
  <2>8. \A i \in 1 .. count : own[i] = <<layerLinks'[Layer!Socket(i)'], Layer!Own(i)'>>
    BY <1>5, <2>1, <2>3, <2>5
  <2>9. \E layer \in [1 .. Len(lists) -> 1 .. count] :
          /\ \A k \in 1 .. Len(lists) : lists[k] = own[layer[k]]
          /\ \A j, k \in 1 .. Len(lists) :
               j < k => IF layerKind = "TexLayeredMax" THEN layer[j] > layer[k]
                        ELSE layer[j] < layer[k]
          /\ {layer[k] : k \in 1 .. Len(lists)} = works
    BY <1>5, <2>5, <2>6 DEF ListsOwn
  <2> QED BY <1>5, <2>7, <2>8, <2>9 DEF ListsOwn
<1>6. CASE Layer!AsPluginDesc
  <2>1. PICK lists : lists = Layer!Layers
    OBVIOUS
  <2>2. ListsOwn(lists)
    BY <2>1, LayersOwn DEF LayerInv
  <2>3. layerExported' = lists /\ UNCHANGED <<layerKind, count, weights, layerLinks>>
    BY <1>6, <2>1 DEF Layer!AsPluginDesc
  <2>4. ListsOwn(lists)'
    BY <1>5, <2>2, <2>3
  <2> QED BY <1>3, <2>3, <2>4 DEF LayerInv, LayersExported, ListsOwn
<1>7. CASE UNCHANGED LayerVars
  BY <1>3, <1>7 DEF LayerVars, LayerInv, LayersExported, ListsOwn, Layer!Socket, Layer!NumBase, Layer!Own,
     Layer!Works
<1>8. CASE layerExported' = Layer!NotExported
  BY <1>3, <1>4, <1>8 DEF LayerInv
<1> QED
  BY <1>6, <1>7, <1>8 DEF Layer!Next, Layer!SetCount, Layer!SetWeight, Layer!Connect, Layer!Edit

LEMMA LayerOwn == LayerInv => Layer!LayersAreOwn
<1> SUFFICES ASSUME LayerInv PROVE Layer!LayersAreOwn
  OBVIOUS
<1>1. \A idx \in 0 .. Layer!OrderedInputs - 1 : Layer!InputFromName(Layer!InputName(idx)) = idx
  BY NamesFind DEF LayerInv
<1>2. LayersExported
  BY DEF LayerInv
<1> QED BY <1>1, <1>2 DEF Layer!LayersAreOwn, LayersExported, ListsOwn

LEMMA LayerAlways == AllSpec => [](which = "Layer" => LayerInv)
<1> DEFINE I == which = "Layer" => LayerInv
<1>1. AllInit => I
  BY LayerInit DEF AllInit
<1>2. I /\ [AllNext]_allVars => I'
  <2> SUFFICES ASSUME I, [AllNext]_allVars, which' = "Layer" PROVE LayerInv'
    OBVIOUS
  <2>1. which = "Layer"
    BY DEF AllNext, allVars
  <2>2. Layer!Next \/ UNCHANGED LayerVars
    BY <2>1, LayerAlone DEF LayerVars, Layer!layerVars
  <2> QED BY <2>1, <2>2, LayerStep
<1> QED BY <1>1, <1>2, PTL DEF AllSpec

\* The lists of a layered node have each connected layer once, in its order and with
\* its own id, weight or mode, whatever the user hid, broke or connected before.
THEOREM LayersAreTheirOwn == AllSpec => []LayersAreOwn
<1>1. (which = "Layer" => LayerInv) => LayersAreOwn
  BY LayerOwn DEF LayersAreOwn
<1> QED BY <1>1, LayerAlways, PTL

-----------------------------------------------------------------------------
(* OSL nodes (OslNode). *)

OslDecls(c) == OslCodes[c].decls

LEMMA DeclsAreSeq ==
  ASSUME NEW c \in DOMAIN OslCodes
  PROVE  /\ Len(OslDecls(c)) \in Nat /\ DOMAIN OslDecls(c) = 1 .. Len(OslDecls(c))
         /\ \A i \in 1 .. Len(OslDecls(c)) : OslDecls(c)[i].name # Osl!Blank
         /\ \A i, j \in 1 .. Len(OslDecls(c)) : OslDecls(c)[i].name = OslDecls(c)[j].name => i = j
<1>1. /\ OslDecls(c) \in Seq(Osl!Range(OslDecls(c)))
      /\ \A i \in DOMAIN OslDecls(c) : OslDecls(c)[i].name # Osl!Blank
      /\ \A i, j \in DOMAIN OslDecls(c) : OslDecls(c)[i].name = OslDecls(c)[j].name => i = j
  BY Assumptions DEF Assumptions, Osl!CodesAssumption, OslDecls
<1>2. DOMAIN OslDecls(c) = 1 .. Len(OslDecls(c)) /\ Len(OslDecls(c)) \in Nat
  BY <1>1
<1> QED BY <1>1, <1>2

\* The parameters of code with n declarations: they have names of their own, and the
\* sockets are those of the textures, in their order.
ParamsOf(c, n, params) ==
  /\ Len(params) \in Nat /\ DOMAIN params = 1 .. Len(params)
  /\ \A i \in 1 .. Len(params) : \E k \in 1 .. n : params[i] = OslDecls(c)[k]
  /\ \A i, j \in 1 .. Len(params) : params[i].name = params[j].name => i = j
InputsOf(params, inputs, place) ==
  /\ Len(inputs) \in Nat /\ DOMAIN inputs = 1 .. Len(inputs)
  /\ place \in [1 .. Len(inputs) -> 1 .. Len(params)]
  /\ \A j, k \in 1 .. Len(inputs) : j < k => place[j] < place[k]
  /\ \A j \in 1 .. Len(inputs) : /\ Osl!IsTexture(params[place[j]])
                                 /\ inputs[j] = params[place[j]].name
  /\ \A i \in 1 .. Len(params) :
       Osl!IsTexture(params[i]) => \E j \in 1 .. Len(inputs) : place[j] = i
ParsedOf(c, n, lists) ==
  /\ DOMAIN lists = {"params", "inputs"}
  /\ lists.params \in Seq(Osl!Range(OslDecls(c)))
  /\ lists.inputs \in Seq({d.name : d \in Osl!Range(OslDecls(c))})
  /\ ParamsOf(c, n, lists.params)
  /\ \E place : InputsOf(lists.params, lists.inputs, place)

LEMMA ParsedNone ==
  ASSUME NEW c
  PROVE  ParsedOf(c, 0, [params |-> <<>>, inputs |-> <<>>])
<1> DEFINE place == [j \in 1 .. 0 |-> 0]
<1>1. InputsOf(<<>>, <<>>, place)
  BY DEF InputsOf
<1>2. ParamsOf(c, 0, <<>>)
  BY DEF ParamsOf
<1> QED BY <1>1, <1>2 DEF ParsedOf

LEMMA ParsedStep ==
  ASSUME NEW c \in DOMAIN OslCodes, NEW n \in Nat, n + 1 <= Len(OslDecls(c)), NEW lists,
         ParsedOf(c, n, lists)
  PROVE  ParsedOf(c, n + 1, Osl!Declare(lists, OslDecls(c)[n + 1]))
<1> DEFINE d == OslDecls(c)[n + 1]
           more == Osl!Declare(lists, d)
<1>1. /\ \A k \in 1 .. n : OslDecls(c)[k].name # d.name
      /\ d \in Osl!Range(OslDecls(c))
  <2>1. n + 1 \in 1 .. Len(OslDecls(c)) /\ \A k \in 1 .. n : k \in 1 .. Len(OslDecls(c)) /\ k # n + 1
    BY DeclsAreSeq
  <2> QED BY <2>1, DeclsAreSeq DEF Osl!Range
<1>2. PICK params, inputs : params = lists.params /\ inputs = lists.inputs
  OBVIOUS
<1>3. PICK place : InputsOf(params, inputs, place)
  BY <1>2 DEF ParsedOf
<1>4. /\ params \in Seq(Osl!Range(OslDecls(c)))
      /\ inputs \in Seq({e.name : e \in Osl!Range(OslDecls(c))})
      /\ ParamsOf(c, n, params)
  BY <1>2 DEF ParsedOf
<1>5. /\ DOMAIN more = {"params", "inputs"}
      /\ more.params = IF Osl!IsParam(d) THEN Append(params, d) ELSE params
      /\ more.inputs = IF Osl!IsTexture(d) THEN Append(inputs, d.name) ELSE inputs
  BY <1>2 DEF Osl!Declare
<1> HIDE DEF d, more
<1>6. CASE ~Osl!IsParam(d)
  <2>1. ~Osl!IsTexture(d)
    BY <1>6 DEF Osl!IsParam, Osl!IsTexture
  <2>2. more.params = params /\ more.inputs = inputs
    BY <1>5, <1>6, <2>1
  <2>3. ParamsOf(c, n + 1, params)
    BY <1>4 DEF ParamsOf
  <2> QED BY <1>3, <1>4, <1>5, <2>2, <2>3 DEF ParsedOf, more, d
<1>7. CASE Osl!IsParam(d)
  <2> DEFINE p == Append(params, d)
  <2>1. PICK m \in Nat : m = Len(params)
    BY <1>4
  <2>2. /\ p \in Seq(Osl!Range(OslDecls(c))) /\ Len(p) = m + 1 /\ DOMAIN p = 1 .. m + 1
        /\ p[m + 1] = d /\ \A i \in 1 .. m : p[i] = params[i]
    BY <1>1, <1>4, <2>1
  <2> HIDE DEF p
  <2>3. ParamsOf(c, n + 1, p)
    <3>1. ASSUME NEW i \in 1 .. m + 1 PROVE \E k \in 1 .. n + 1 : p[i] = OslDecls(c)[k]
      <4>1. CASE i = m + 1
        BY <4>1, <2>2 DEF d
      <4>2. CASE i # m + 1
        <5>1. i \in 1 .. m
          BY <4>2
        <5>2. PICK k \in 1 .. n : params[i] = OslDecls(c)[k]
          BY <5>1, <1>4, <2>1 DEF ParamsOf
        <5> QED BY <5>1, <5>2, <2>2
      <4> QED BY <4>1, <4>2
    <3>2. \A i \in 1 .. m : params[i].name # d.name
      <4>1. \A i \in 1 .. m : \E k \in 1 .. n : params[i] = OslDecls(c)[k]
        BY <1>4, <2>1 DEF ParamsOf
      <4> QED BY <4>1, <1>1
    <3>3. \A i, j \in 1 .. m : params[i].name = params[j].name => i = j
      BY <1>4, <2>1 DEF ParamsOf
    <3>4. ASSUME NEW i \in 1 .. m + 1, NEW j \in 1 .. m + 1, p[i].name = p[j].name PROVE i = j
      <4>1. i \in 1 .. m \/ i = m + 1
        OBVIOUS
      <4>2. j \in 1 .. m \/ j = m + 1
        OBVIOUS
      <4> QED BY <3>2, <3>3, <3>4, <4>1, <4>2, <2>2
    <3> QED BY <2>2, <3>1, <3>4 DEF ParamsOf
  <2>4. CASE ~Osl!IsTexture(d)
    <3>1. InputsOf(p, inputs, place)
      <4>1. place \in [1 .. Len(inputs) -> 1 .. m] /\ Len(inputs) \in Nat
        BY <1>3, <2>1 DEF InputsOf
      <4>2. place \in [1 .. Len(inputs) -> 1 .. Len(p)]
        BY <4>1, <2>2
      <4>3. ASSUME NEW i \in 1 .. m + 1, Osl!IsTexture(p[i])
            PROVE  \E j \in 1 .. Len(inputs) : place[j] = i
        <5>1. i # m + 1
          BY <4>3, <2>2, <2>4
        <5>2. i \in 1 .. m
          BY <5>1
        <5> QED BY <5>2, <4>3, <1>3, <2>1, <2>2 DEF InputsOf
      <4>4. \A j \in 1 .. Len(inputs) : p[place[j]] = params[place[j]]
        BY <4>1, <2>2
      <4> QED BY <1>3, <4>2, <4>3, <4>4, <2>2 DEF InputsOf
    <3>2. more.params = p /\ more.inputs = inputs
      BY <1>5, <1>7, <2>4 DEF p
    <3> QED BY <1>4, <1>5, <2>2, <2>3, <3>1, <3>2 DEF ParsedOf, more, d
  <2>5. CASE Osl!IsTexture(d)
    <3> DEFINE q == Append(inputs, d.name)
               at == [j \in 1 .. Len(inputs) + 1 |-> IF j = Len(inputs) + 1 THEN m + 1 ELSE place[j]]
    <3>1. PICK l \in Nat : l = Len(inputs)
      BY <1>4
    <3>2. d.name \in {e.name : e \in Osl!Range(OslDecls(c))}
      BY <1>1 DEF d
    <3>3. /\ q \in Seq({e.name : e \in Osl!Range(OslDecls(c))}) /\ Len(q) = l + 1
          /\ DOMAIN q = 1 .. l + 1 /\ q[l + 1] = d.name /\ \A j \in 1 .. l : q[j] = inputs[j]
      BY <1>4, <3>1, <3>2
    <3>4. /\ DOMAIN at = 1 .. l + 1 /\ at = [j \in 1 .. l + 1 |-> at[j]]
          /\ at[l + 1] = m + 1 /\ \A j \in 1 .. l : at[j] = place[j]
      BY <3>1
    <3> HIDE DEF q, at
    <3>5. \A j \in 1 .. l : place[j] \in 1 .. m
      BY <1>3, <2>1, <3>1 DEF InputsOf
    <3>6. InputsOf(p, q, at)
      <4>1. at \in [1 .. l + 1 -> 1 .. m + 1]
        <5>1. ASSUME NEW j \in 1 .. l + 1 PROVE at[j] \in 1 .. m + 1
          <6>1. CASE j = l + 1
            BY <6>1, <3>4
          <6>2. CASE j # l + 1
            <7>1. j \in 1 .. l
              BY <6>2
            <7>2. at[j] = place[j] /\ place[j] \in 1 .. m
              BY <7>1, <3>4, <3>5
            <7> QED BY <7>2
          <6> QED BY <6>1, <6>2
        <5> QED BY <3>4, <5>1
      <4>2. ASSUME NEW j \in 1 .. l + 1, NEW k \in 1 .. l + 1, j < k PROVE at[j] < at[k]
        <5>4. j \in 1 .. l
          BY <4>2
        <5>1. at[j] = place[j] /\ place[j] \in 1 .. m
          BY <5>4, <3>4, <3>5
        <5>2. CASE k = l + 1
          BY <5>1, <5>2, <3>4
        <5>3. CASE k # l + 1
          <6>1. k \in 1 .. l
            BY <5>3
          <6>2. place[j] < place[k]
            BY <4>2, <5>4, <6>1, <3>1, <1>3 DEF InputsOf
          <6>3. at[k] = place[k]
            BY <6>1, <3>4
          <6> QED BY <5>1, <6>2, <6>3
        <5> QED BY <5>2, <5>3
      <4>3. ASSUME NEW j \in 1 .. l + 1
            PROVE  Osl!IsTexture(p[at[j]]) /\ q[j] = p[at[j]].name
        <5>1. CASE j = l + 1
          BY <5>1, <2>2, <2>5, <3>3, <3>4
        <5>2. CASE j # l + 1
          <6>1. j \in 1 .. l
            BY <5>2
          <6>2. p[at[j]] = params[place[j]]
            BY <6>1, <3>4, <3>5, <2>2
          <6> QED BY <6>1, <6>2, <3>1, <3>3, <1>3 DEF InputsOf
        <5> QED BY <5>1, <5>2
      <4>4. ASSUME NEW i \in 1 .. m + 1, Osl!IsTexture(p[i])
            PROVE  \E j \in 1 .. l + 1 : at[j] = i
        <5>1. CASE i = m + 1
          BY <5>1, <3>4
        <5>2. CASE i # m + 1
          <6>1. i \in 1 .. m
            BY <5>2
          <6>2. Osl!IsTexture(params[i])
            BY <6>1, <4>4, <2>2
          <6>3. PICK j \in 1 .. l : place[j] = i
            BY <6>1, <6>2, <1>3, <2>1, <3>1 DEF InputsOf
          <6>4. at[j] = place[j]
            BY <3>4
          <6>5. j \in 1 .. l + 1
            OBVIOUS
          <6> QED BY <6>3, <6>4, <6>5
        <5> QED BY <5>1, <5>2
      <4> QED BY <2>2, <3>3, <4>1, <4>2, <4>3, <4>4 DEF InputsOf
    <3>7. more.params = p /\ more.inputs = q
      BY <1>5, <1>7, <2>5 DEF p, q
    <3> QED BY <1>5, <2>2, <2>3, <3>3, <3>6, <3>7 DEF ParsedOf, more, d
  <2> QED BY <2>4, <2>5
<1> QED BY <1>6, <1>7

NothingParsed == [params |-> <<>>, inputs |-> <<>>]
\* The loop over the declarations, as far as n.
IsParse(f, c, n) ==
  f = [i \in 0 .. n |-> IF i = 0 THEN NothingParsed ELSE Osl!Declare(f[i - 1], OslDecls(c)[i])]

LEMMA ParseExists ==
  ASSUME NEW c, NEW n \in Nat
  PROVE  \E f : IsParse(f, c, n)
<1> DEFINE Grown(f, i) == Osl!Declare(f[i - 1], OslDecls(c)[i])
<1> DEFINE S == {m \in Nat : \E f : IsParse(f, c, m)}
<1>1. 0 \in S
  <2> DEFINE f == [i \in 0 .. 0 |-> NothingParsed]
  <2>1. IsParse(f, c, 0)
    BY DEF IsParse
  <2> QED BY <2>1
<1>2. ASSUME NEW m \in Nat, m \in S PROVE m + 1 \in S
  <2>1. PICK f : IsParse(f, c, m)
    BY <1>2
  <2> DEFINE g == [i \in 0 .. m + 1 |-> IF i = m + 1 THEN Grown(f, m + 1) ELSE f[i]]
  <2>2. \A i \in 0 .. m : f[i] = IF i = 0 THEN NothingParsed ELSE Grown(f, i)
    BY <2>1 DEF IsParse
  <2>3. \A i \in 0 .. m : g[i] = f[i]
    OBVIOUS
  <2>4. g[m + 1] = Grown(g, m + 1)
    BY <2>3
  <2>5. g = [i \in 0 .. m + 1 |-> g[i]]
    OBVIOUS
  <2> HIDE DEF g
  <2>6. ASSUME NEW i \in 0 .. m + 1 PROVE g[i] = IF i = 0 THEN NothingParsed ELSE Grown(g, i)
    <3>1. CASE i = m + 1
      <4>1. m + 1 # 0
        OBVIOUS
      <4> QED BY <3>1, <2>4, <4>1
    <3>2. CASE i = 0
      <4>1. 0 \in 0 .. m
        OBVIOUS
      <4>2. g[0] = f[0] /\ f[0] = NothingParsed
        BY <4>1, <2>2, <2>3
      <4> QED BY <3>2, <4>2
    <3>3. CASE i \in 1 .. m
      <4>1. i \in 0 .. m /\ i - 1 \in 0 .. m /\ i # 0
        BY <3>3
      <4>2. g[i] = f[i] /\ g[i - 1] = f[i - 1]
        BY <4>1, <2>3
      <4> QED BY <4>1, <4>2, <2>2
    <3> QED BY <3>1, <3>2, <3>3
  <2>7. g = [i \in 0 .. m + 1 |-> IF i = 0 THEN NothingParsed ELSE Grown(g, i)]
    <3> DEFINE h == [i \in 0 .. m + 1 |-> IF i = 0 THEN NothingParsed ELSE Grown(g, i)]
    <3>1. \A i \in 0 .. m + 1 : g[i] = h[i]
      BY <2>6
    <3>2. h = [i \in 0 .. m + 1 |-> h[i]]
      OBVIOUS
    <3> HIDE DEF h
    <3>3. g = h
      BY <2>5, <3>1, <3>2
    <3> QED BY <3>3 DEF h
  <2>8. IsParse(g, c, m + 1)
    BY <2>7 DEF IsParse
  <2> QED BY <2>8
<1> HIDE DEF S
<1>3. Nat \subseteq S
  BY <1>1, <1>2, Induction
<1> QED BY <1>3 DEF S

\* What the parser finds in code.
LEMMA ParsedIs ==
  ASSUME NEW c \in DOMAIN OslCodes
  PROVE  /\ ParamsOf(c, Len(OslDecls(c)), Osl!Params(c))
         /\ \E place : InputsOf(Osl!Params(c), Osl!Inputs(c), place)
<1>1. PICK n \in Nat : n = Len(OslDecls(c))
  BY DeclsAreSeq
<1>2. PICK f : f = CHOOSE g : IsParse(g, c, n)
  OBVIOUS
<1>3. IsParse(f, c, n)
  BY <1>2, ParseExists
<1>4. Osl!Parsed(c) = f[n]
  BY <1>1, <1>2 DEF Osl!Parsed, IsParse, OslDecls, NothingParsed
<1> DEFINE Q == {m \in Nat : m <= n => ParsedOf(c, m, f[m])}
<1>5. 0 \in Q
  <2>1. f[0] = NothingParsed
    BY <1>3 DEF IsParse
  <2> QED BY <2>1, ParsedNone DEF NothingParsed
<1>6. ASSUME NEW m \in Nat, m \in Q PROVE m + 1 \in Q
  <2> SUFFICES ASSUME m + 1 <= n PROVE ParsedOf(c, m + 1, f[m + 1])
    OBVIOUS
  <2>1. f[m + 1] = Osl!Declare(f[m], OslDecls(c)[m + 1])
    <3>1. m + 1 \in 0 .. n /\ m + 1 # 0 /\ (m + 1) - 1 = m
      OBVIOUS
    <3> QED BY <3>1, <1>3 DEF IsParse
  <2>2. ParsedOf(c, m, f[m])
    BY <1>6
  <2> QED BY <2>1, <2>2, <1>1, ParsedStep
<1> HIDE DEF Q
<1>7. Nat \subseteq Q
  BY <1>5, <1>6, Induction
<1>8. ParsedOf(c, n, f[n])
  BY <1>7 DEF Q
<1> QED BY <1>1, <1>4, <1>8 DEF ParsedOf, Osl!Params, Osl!Inputs

\* Where the user finds what is set for a parameter.
LEMMA MinIs ==
  ASSUME NEW S, S \subseteq Int, NEW i \in S, \A k \in S : i <= k
  PROVE  Osl!Min(S) = i
<1>1. \A x \in S : (\A y \in S : x <= y) => x = i
  OBVIOUS
<1>2. PICK m : m = CHOOSE x \in S : \A y \in S : x <= y
  OBVIOUS
<1>3. m \in S /\ \A y \in S : m <= y
  BY <1>2
<1>4. m = i
  BY <1>1, <1>3
<1> QED BY <1>2, <1>4 DEF Osl!Min

LEMMA AppendOf ==
  ASSUME NEW n \in Nat, NEW f, NEW x
  PROVE  Append([i \in 1 .. n |-> f[i]], x) = [i \in 1 .. n + 1 |-> IF i = n + 1 THEN x ELSE f[i]]
<1> DEFINE S == {f[i] : i \in 1 .. n} \cup {x}
<1>1. PICK s : s = [i \in 1 .. n |-> f[i]]
  OBVIOUS
<1>2. s \in Seq(S) /\ Len(s) = n /\ x \in S
  BY <1>1
<1> HIDE DEF S
<1>3. PICK t : t = Append(s, x)
  OBVIOUS
<1>4. t \in Seq(S) /\ Len(t) = n + 1 /\ t[n + 1] = x /\ \A i \in 1 .. n : t[i] = s[i]
  BY <1>2, <1>3
<1>5. t = [i \in 1 .. n + 1 |-> t[i]]
  BY <1>4
<1>6. \A i \in 1 .. n + 1 : t[i] = IF i = n + 1 THEN x ELSE f[i]
  <2> SUFFICES ASSUME NEW i \in 1 .. n + 1, i # n + 1 PROVE t[i] = f[i]
    BY <1>4
  <2>1. i \in 1 .. n
    OBVIOUS
  <2> QED BY <2>1, <1>1, <1>4
<1> QED BY <1>1, <1>3, <1>5, <1>6

OslRecord(o) ==
  /\ DOMAIN o = {"hash", "params", "inputs", "output", "items"}
  /\ o.items \in Seq(Osl!Range(o.items))
  /\ \A k \in DOMAIN o.items : DOMAIN o.items[k] = {"label", "value"}

\* The node has what the code it was compiled from says, and an item for each
\* parameter ahead of those left over.
HashHolds(o) ==
  o.hash # Osl!NoCode =>
    /\ o.hash \in DOMAIN OslCodes
    /\ o.params = Osl!Params(o.hash) /\ o.inputs = Osl!Inputs(o.hash)
    /\ o.output = Osl!OutputName(o.hash)
    /\ Len(o.params) <= Len(o.items)
    /\ \A i \in 1 .. Len(o.params) :
         o.items[i].label = IF Osl!IsTexture(o.params[i]) THEN Osl!Blank ELSE o.params[i].name

LEMMA ItemsJoined ==
  ASSUME NEW params, Len(params) \in Nat, DOMAIN params = 1 .. Len(params),
         NEW old, old \in Seq(Osl!Range(old)),
         \A k \in DOMAIN old : DOMAIN old[k] = {"label", "value"}
  PROVE  LET all == Osl!NewItems(params) \o Osl!LeftOver(old)
         IN /\ all \in Seq(Osl!Range(all)) /\ Len(params) <= Len(all)
            /\ \A k \in DOMAIN all : DOMAIN all[k] = {"label", "value"}
            /\ \A i \in 1 .. Len(params) :
                 all[i].label = IF Osl!IsTexture(params[i]) THEN Osl!Blank ELSE params[i].name
<1>1. PICK n \in Nat : n = Len(params)
  OBVIOUS
<1>2. PICK m \in Nat : m = Len(old) \div 2 /\ 2 * m <= Len(old) /\ DOMAIN old = 1 .. Len(old)
  <2>1. Len(old) \in Nat /\ DOMAIN old = 1 .. Len(old)
    OBVIOUS
  <2>2. Len(old) \div 2 \in Nat /\ 2 * (Len(old) \div 2) <= Len(old)
    BY <2>1
  <2> QED BY <2>1, <2>2
<1>3. PICK a : a = [i \in 1 .. n |-> Osl!NewItem(params[i])]
  OBVIOUS
<1>4. PICK b : b = [i \in 1 .. m |-> old[2 * i]]
  OBVIOUS
<1>5. Osl!NewItems(params) = a /\ Osl!LeftOver(old) = b
  BY <1>1, <1>2, <1>3, <1>4 DEF Osl!NewItems, Osl!LeftOver
<1>6. /\ \A i \in 1 .. n : /\ DOMAIN a[i] = {"label", "value"}
                           /\ a[i].label = IF Osl!IsTexture(params[i]) THEN Osl!Blank ELSE params[i].name
      /\ \A i \in 1 .. m : DOMAIN b[i] = {"label", "value"}
  <2>1. \A i \in 1 .. m : 2 * i \in DOMAIN old
    BY <1>2
  <2> QED BY <1>3, <1>4, <2>1 DEF Osl!NewItem
<1>7. PICK S : S = {a[i] : i \in 1 .. n} \cup {b[i] : i \in 1 .. m}
  OBVIOUS
<1>8. a \in Seq(S) /\ b \in Seq(S) /\ Len(a) = n /\ Len(b) = m
  BY <1>3, <1>4, <1>7
<1>9. PICK all : all = a \o b
  OBVIOUS
<1>10. all \in Seq(S) /\ Len(all) = n + m /\ DOMAIN all = 1 .. n + m
  <2>1. all \in Seq(S)
    BY <1>8, <1>9
  <2>2. Len(all) = n + m
    <3>1. a \in Seq(S) /\ b \in Seq(S)
      BY <1>8
    <3>2. Len(a \o b) = Len(a) + Len(b)
      BY <3>1
    <3> QED BY <3>2, <1>8, <1>9
  <2> QED BY <2>1, <2>2
<1>11. /\ \A i \in 1 .. n : all[i] = a[i]
       /\ \A i \in 1 .. n + m : i > n => all[i] = b[i - n]
  BY <1>8, <1>9
<1>12. all \in Seq(Osl!Range(all))
  BY <1>10 DEF Osl!Range
<1>13. ASSUME NEW k \in DOMAIN all PROVE DOMAIN all[k] = {"label", "value"}
  <2>1. CASE k \in 1 .. n
    BY <2>1, <1>6, <1>11
  <2>2. CASE k \notin 1 .. n
    <3>1. k \in 1 .. n + m /\ k > n /\ k - n \in 1 .. m
      BY <1>10, <2>2
    <3> QED BY <3>1, <1>6, <1>11
  <2> QED BY <2>1, <2>2
<1>14. n <= Len(all)
  BY <1>10
<1> QED BY <1>1, <1>5, <1>6, <1>9, <1>11, <1>12, <1>13, <1>14

LEMMA UpdatedHolds ==
  ASSUME NEW o, OslRecord(o), HashHolds(o), NEW c \in DOMAIN OslCodes \cup {Osl!NoCode}
  PROVE  /\ OslRecord(Osl!Updated(o, c)) /\ HashHolds(Osl!Updated(o, c))
         /\ (c # Osl!NoCode /\ c = o.hash) => Osl!Updated(o, c) = o
<1>1. CASE c = Osl!NoCode
  <2>1. Osl!Updated(o, c) = [o EXCEPT !.hash = Osl!NoCode]
    BY <1>1 DEF Osl!Updated
  <2> QED BY <1>1, <2>1 DEF OslRecord, HashHolds
<1>2. CASE c # Osl!NoCode /\ c = o.hash
  <2>1. Osl!Updated(o, c) = o
    BY <1>2 DEF Osl!Updated
  <2> QED BY <2>1
<1>3. CASE c # Osl!NoCode /\ c # o.hash /\ ~OslCodes[c].compiles
  <2>1. Osl!Updated(o, c) =
          [o EXCEPT !.hash = Osl!NoCode, !.params = <<>>, !.inputs = <<>>, !.output = ""]
    BY <1>3 DEF Osl!Updated
  <2> QED BY <1>3, <2>1 DEF OslRecord, HashHolds
<1>4. CASE c # Osl!NoCode /\ c # o.hash /\ OslCodes[c].compiles
  <2>1. PICK all : all = Osl!NewItems(Osl!Params(c)) \o Osl!LeftOver(o.items)
    OBVIOUS
  <2>2. PICK u : u = [hash |-> c, params |-> Osl!Params(c), inputs |-> Osl!Inputs(c),
                      output |-> Osl!OutputName(c), items |-> all]
    OBVIOUS
  <2>3. Osl!Updated(o, c) = u
    BY <1>4, <2>1, <2>2 DEF Osl!Updated
  <2>4. c \in DOMAIN OslCodes
    BY <1>4
  <2>5. Len(Osl!Params(c)) \in Nat /\ DOMAIN Osl!Params(c) = 1 .. Len(Osl!Params(c))
    BY <2>4, ParsedIs DEF ParamsOf
  <2>6. /\ o.items \in Seq(Osl!Range(o.items))
        /\ \A k \in DOMAIN o.items : DOMAIN o.items[k] = {"label", "value"}
    BY DEF OslRecord
  <2>7. /\ all \in Seq(Osl!Range(all)) /\ Len(Osl!Params(c)) <= Len(all)
        /\ \A k \in DOMAIN all : DOMAIN all[k] = {"label", "value"}
        /\ \A i \in 1 .. Len(Osl!Params(c)) :
             all[i].label = IF Osl!IsTexture(Osl!Params(c)[i]) THEN Osl!Blank ELSE Osl!Params(c)[i].name
    <3>1. PICK params : params = Osl!Params(c)
      OBVIOUS
    <3>2. PICK old : old = o.items
      OBVIOUS
    <3>3. all = Osl!NewItems(params) \o Osl!LeftOver(old)
      BY <2>1, <3>1, <3>2
    <3>4. Len(params) \in Nat /\ DOMAIN params = 1 .. Len(params)
      BY <2>5, <3>1
    <3>5. old \in Seq(Osl!Range(old)) /\ \A k \in DOMAIN old : DOMAIN old[k] = {"label", "value"}
      BY <2>6, <3>2
    <3>6. LET now == Osl!NewItems(params) \o Osl!LeftOver(old)
          IN /\ now \in Seq(Osl!Range(now)) /\ Len(params) <= Len(now)
             /\ \A k \in DOMAIN now : DOMAIN now[k] = {"label", "value"}
             /\ \A i \in 1 .. Len(params) :
                  now[i].label = IF Osl!IsTexture(params[i]) THEN Osl!Blank ELSE params[i].name
      BY <3>4, <3>5, ItemsJoined
    <3> QED BY <3>1, <3>3, <3>6
  <2>8. OslRecord(u) /\ HashHolds(u)
    BY <2>2, <2>4, <2>7 DEF OslRecord, HashHolds
  <2> QED BY <1>4, <2>3, <2>8
<1> QED BY <1>1, <1>2, <1>3, <1>4

\* The user sees the value of the item in the place of the parameter, and what is
\* connected to the socket in the place of the texture.
LEMMA SeenIs ==
  ASSUME OslRecord(osl), HashHolds(osl), osl.hash # Osl!NoCode, NEW i \in 1 .. Len(osl.params)
  PROVE  /\ ~Osl!IsTexture(osl.params[i]) => Osl!Seen(osl.params[i]) = osl.items[i].value
         /\ \A place : InputsOf(osl.params, osl.inputs, place) =>
              \A j \in 1 .. Len(osl.inputs) :
                place[j] = i => Osl!Seen(osl.params[i]) = oslLinks[j]
<1>1. PICK c \in DOMAIN OslCodes : c = osl.hash
  BY DEF HashHolds
<1>2. PICK params, inputs : params = osl.params /\ inputs = osl.inputs
  OBVIOUS
<1>3. ParamsOf(c, Len(OslDecls(c)), params)
  BY <1>1, <1>2, ParsedIs DEF HashHolds
<1>4. PICK all : all = osl.items
  OBVIOUS
<1>5. /\ DOMAIN all = 1 .. Len(all) /\ Len(all) \in Nat /\ Len(params) <= Len(all) /\ Len(params) \in Nat
      /\ \A k \in 1 .. Len(params) :
           all[k].label = IF Osl!IsTexture(params[k]) THEN Osl!Blank ELSE params[k].name
  <2>1. all \in Seq(Osl!Range(all))
    BY <1>4 DEF OslRecord
  <2>2. DOMAIN all = 1 .. Len(all) /\ Len(all) \in Nat
    BY <2>1
  <2> QED BY <2>2, <1>2, <1>3, <1>4 DEF HashHolds, ParamsOf
<1>6. \A k \in 1 .. Len(params) : params[k].name # Osl!Blank
  BY <1>1, <1>3, DeclsAreSeq DEF ParamsOf
<1>7. \A k \in 1 .. Len(params) : params[k].name = params[i].name => k = i
  BY <1>2, <1>3 DEF ParamsOf
<1>8. ASSUME ~Osl!IsTexture(params[i]) PROVE Osl!Seen(params[i]) = all[i].value
  <2>1. PICK S : S = {k \in DOMAIN all : all[k].label = params[i].name}
    OBVIOUS
  <2>2. i \in S /\ S \subseteq Int
    BY <1>2, <1>5, <1>8, <2>1
  <2>3. ASSUME NEW k \in S, ~(i <= k) PROVE FALSE
    <3>1. k \in 1 .. Len(params)
      BY <1>2, <1>5, <2>1, <2>3
    <3>2. all[k].label = params[i].name
      BY <2>1
    <3>3. params[k].name = params[i].name
      BY <3>1, <3>2, <1>2, <1>5, <1>6
    <3> QED BY <3>1, <3>3, <1>7, <2>2, <2>3
  <2>4. Osl!Min(S) = i
    BY <2>2, <2>3, MinIs
  <2> QED BY <1>4, <1>8, <2>1, <2>4 DEF Osl!Seen
<1>9. ASSUME NEW place, InputsOf(params, inputs, place), NEW j \in 1 .. Len(inputs), place[j] = i
      PROVE  Osl!Seen(params[i]) = oslLinks[j]
  <2>1. PICK S : S = {k \in DOMAIN inputs : inputs[k] = params[i].name}
    OBVIOUS
  <2>2. DOMAIN inputs = 1 .. Len(inputs) /\ Len(inputs) \in Nat /\ inputs[j] = params[i].name
        /\ Osl!IsTexture(params[i])
    BY <1>9 DEF InputsOf
  <2>3. j \in S /\ S \subseteq Int
    BY <2>1, <2>2
  <2>4. ASSUME NEW k \in S, ~(j <= k) PROVE FALSE
    <3>1. k \in 1 .. Len(inputs) /\ inputs[k] = params[i].name
      BY <2>1, <2>2
    <3>2. k < j
      BY <2>2, <2>4, <3>1
    <3>3. place[k] < place[j] /\ place[k] \in 1 .. Len(params) /\ inputs[k] = params[place[k]].name
      BY <1>9, <3>1, <3>2 DEF InputsOf
    <3>4. place[k] = i
      BY <3>1, <3>3, <1>7
    <3> QED BY <3>3, <3>4, <1>9, <1>2
  <2>5. Osl!Min(S) = j
    BY <2>3, <2>4, MinIs
  <2> QED BY <1>2, <2>1, <2>2, <2>5 DEF Osl!Seen
<1> QED BY <1>2, <1>4, <1>8, <1>9

\* What is exported of the first n parameters of code.
SeenOf(c, n) ==
  [i \in 1 .. n |-> [name |-> Osl!Params(c)[i].name, value |-> Osl!Seen(Osl!Params(c)[i])]]
\* An export of a node that was asked: it has written the parameters before next, and
\* the sockets before input are those of the textures among them.
ExportHolds ==
  oslExported.asked =>
    /\ code # Osl!NoCode /\ osl.hash = code
    /\ oslExported.file = code /\ oslExported.output = Osl!OutputName(code)
    /\ oslExported.next \in 0 .. Len(Osl!Params(code)) + 1
    /\ oslExported.next = 0 => oslExported.list = SeenOf(code, Len(Osl!Params(code)))
    /\ oslExported.next # 0 =>
         /\ oslExported.list = SeenOf(code, oslExported.next - 1)
         /\ oslExported.input \in Nat \ {0}
         /\ \A place : InputsOf(Osl!Params(code), Osl!Inputs(code), place) =>
              \A j \in 1 .. Len(Osl!Inputs(code)) :
                j < oslExported.input <=> place[j] < oslExported.next
OslInv ==
  /\ code \in DOMAIN OslCodes \cup {Osl!NoCode}
  /\ OslRecord(osl) /\ HashHolds(osl)
  /\ DOMAIN oslExported = {"file", "asked", "output", "list", "next", "input"}
  /\ ExportHolds

LEMMA OslInit == Osl!Init => OslInv
<1> SUFFICES ASSUME Osl!Init PROVE OslInv
  OBVIOUS
<1>1. <<>> \in Seq(Osl!Range(<<>>))
  OBVIOUS
<1>2. code = Osl!NoCode /\ oslExported = Osl!NotExported
      /\ osl = [hash |-> Osl!NoCode, params |-> <<>>, inputs |-> <<>>, output |-> "", items |-> <<>>]
  BY DEF Osl!Init
<1>3. OslRecord(osl)
  <2>1. osl.items = <<>> /\ DOMAIN osl = {"hash", "params", "inputs", "output", "items"}
    BY <1>2
  <2>2. DOMAIN osl.items = {}
    BY <2>1
  <2> QED BY <1>1, <2>1, <2>2 DEF OslRecord
<1>4. HashHolds(osl)
  BY <1>2 DEF HashHolds
<1>5. ExportHolds /\ DOMAIN oslExported = {"file", "asked", "output", "list", "next", "input"}
  BY <1>2 DEF ExportHolds, Osl!NotExported
<1> QED BY <1>2, <1>3, <1>4, <1>5 DEF OslInv

LEMMA OslOwn == OslInv => Osl!SeenIsExported
<1> SUFFICES ASSUME OslInv, oslExported.asked, oslExported.next = 0
             PROVE  /\ oslExported.file = code /\ oslExported.output = Osl!OutputName(code)
                    /\ oslExported.list = [i \in DOMAIN Osl!Params(code) |->
                         [name |-> Osl!Params(code)[i].name, value |-> Osl!Seen(Osl!Params(code)[i])]]
  BY DEF Osl!SeenIsExported, Osl!Idle
<1>1. code \in DOMAIN OslCodes
  BY DEF OslInv, ExportHolds
<1>2. DOMAIN Osl!Params(code) = 1 .. Len(Osl!Params(code))
  BY <1>1, ParsedIs DEF ParamsOf
<1>3. oslExported.list = SeenOf(code, Len(Osl!Params(code)))
  BY DEF OslInv, ExportHolds
<1> QED BY <1>2, <1>3 DEF OslInv, ExportHolds, SeenOf

\* Steps that leave what an export is about.
LEMMA SeenKept ==
  ASSUME UNCHANGED <<osl, oslLinks>>, NEW c, NEW n
  PROVE  SeenOf(c, n)' = SeenOf(c, n)
BY DEF SeenOf, Osl!Seen

LEMMA HoldsKept ==
  ASSUME ExportHolds, UNCHANGED <<mtl, code, osl, oslLinks, oslExported>>
  PROVE  ExportHolds'
<1>1. \A c, n : SeenOf(c, n)' = SeenOf(c, n)
  BY SeenKept
<1>2. \A c : Osl!OutputName(c)' = Osl!OutputName(c)
  BY DEF Osl!OutputName
<1> SUFFICES ASSUME oslExported'.asked PROVE ExportHolds'
  BY DEF ExportHolds
<1>3. PICK c : c = code
  OBVIOUS
<1>4. PICK e : e = oslExported
  OBVIOUS
<1>5. /\ c # Osl!NoCode /\ osl.hash = c /\ e.file = c /\ e.output = Osl!OutputName(c)
      /\ e.next \in 0 .. Len(Osl!Params(c)) + 1
      /\ e.next = 0 => e.list = SeenOf(c, Len(Osl!Params(c)))
      /\ e.next # 0 =>
           /\ e.list = SeenOf(c, e.next - 1) /\ e.input \in Nat \ {0}
           /\ \A place : InputsOf(Osl!Params(c), Osl!Inputs(c), place) =>
                \A j \in 1 .. Len(Osl!Inputs(c)) : j < e.input <=> place[j] < e.next
  BY <1>3, <1>4 DEF ExportHolds
<1>6. code' = c /\ oslExported' = e /\ osl'.hash = c
  BY <1>3, <1>4, <1>5
<1>7. /\ e.output = Osl!OutputName(c)'
      /\ e.next = 0 => e.list = SeenOf(c, Len(Osl!Params(c)))'
      /\ e.next # 0 => e.list = SeenOf(c, e.next - 1)'
  BY <1>1, <1>2, <1>5
<1> QED BY <1>5, <1>6, <1>7 DEF ExportHolds

LEMMA HashKept ==
  ASSUME HashHolds(osl), UNCHANGED <<mtl, osl>>
  PROVE  HashHolds(osl)'
<1>1. \A c : Osl!OutputName(c)' = Osl!OutputName(c)
  BY DEF Osl!OutputName
<1> QED BY <1>1 DEF HashHolds

LEMMA UpdatedKept ==
  ASSUME OslInv, osl' = Osl!Updated(osl, code), mtl' = mtl
  PROVE  OslRecord(osl') /\ HashHolds(osl)'
<1>1. PICK u : u = Osl!Updated(osl, code)
  OBVIOUS
<1>2. OslRecord(u) /\ HashHolds(u)
  BY <1>1, UpdatedHolds DEF OslInv
<1>3. osl' = u
  BY <1>1
<1>4. \A c : Osl!OutputName(c)' = Osl!OutputName(c)
  BY DEF Osl!OutputName
<1>5. OslRecord(osl')
  BY <1>2, <1>3
<1>6. HashHolds(osl)'
  BY <1>2, <1>3, <1>4 DEF HashHolds
<1> QED BY <1>5, <1>6

LEMMA AnsweredAsked ==
  ASSUME OslInv, oslExported.asked
  PROVE  Osl!Updated(osl, code) = osl
BY UpdatedHolds DEF OslInv, ExportHolds

LEMMA OslSetItem ==
  ASSUME OslInv, NEW i \in DOMAIN osl.items, NEW v, Osl!SetItem(i, v)
  PROVE  OslInv'
<1>1. osl' = [osl EXCEPT !.items[i].value = v] /\ UNCHANGED <<code, mtl>>
      /\ oslExported' = Osl!NotExported
  BY DEF Osl!SetItem, Osl!Edit
<1>2. PICK old : old = osl.items
  OBVIOUS
<1>3. PICK all : all = [old EXCEPT ![i] = [old[i] EXCEPT !.value = v]]
  OBVIOUS
<1>4. /\ DOMAIN osl' = DOMAIN osl /\ osl'.items = all /\ osl'.hash = osl.hash
      /\ osl'.params = osl.params /\ osl'.inputs = osl.inputs /\ osl'.output = osl.output
  BY <1>1, <1>2, <1>3 DEF OslInv, OslRecord
<1>5. /\ old \in Seq(Osl!Range(old)) /\ \A k \in DOMAIN old : DOMAIN old[k] = {"label", "value"}
      /\ i \in DOMAIN old
  BY <1>2 DEF OslInv, OslRecord
<1>6. /\ DOMAIN all = DOMAIN old
      /\ \A k \in DOMAIN old : DOMAIN all[k] = {"label", "value"} /\ all[k].label = old[k].label
  BY <1>3, <1>5
<1>7. PICK n \in Nat : n = Len(old) /\ DOMAIN old = 1 .. n
  BY <1>5
<1>8. Len(all) = n /\ all \in Seq(Osl!Range(all))
  <2>1. all = [k \in 1 .. n |-> all[k]]
    BY <1>3, <1>7
  <2>2. \A k \in 1 .. n : all[k] \in Osl!Range(all)
    BY <1>6, <1>7 DEF Osl!Range
  <2> QED BY <2>1, <2>2
<1>9. OslRecord(osl')
  BY <1>4, <1>6, <1>8 DEF OslInv, OslRecord
<1>10. HashHolds(osl)'
  <2>1. PICK o : o = osl'
    OBVIOUS
  <2>2. \A c : Osl!OutputName(c)' = Osl!OutputName(c)
    BY <1>1 DEF Osl!OutputName
  <2>3. ASSUME o.hash # Osl!NoCode, NEW k \in 1 .. Len(o.params)
        PROVE  o.items[k].label = IF Osl!IsTexture(o.params[k]) THEN Osl!Blank ELSE o.params[k].name
    <3>1. k \in 1 .. Len(osl.params) /\ Len(osl.params) <= n /\ Len(osl.params) \in Nat
      BY <1>2, <1>4, <1>7, <2>1, <2>3, ParsedIs DEF OslInv, HashHolds, ParamsOf
    <3>2. k \in DOMAIN old
      BY <3>1, <1>7
    <3>3. old[k].label = IF Osl!IsTexture(osl.params[k]) THEN Osl!Blank ELSE osl.params[k].name
      BY <1>2, <1>4, <2>1, <2>3, <3>1 DEF OslInv, HashHolds
    <3> QED BY <1>4, <1>6, <2>1, <3>2, <3>3
  <2>4. o.hash # Osl!NoCode =>
          /\ o.hash \in DOMAIN OslCodes
          /\ o.params = Osl!Params(o.hash) /\ o.inputs = Osl!Inputs(o.hash)
          /\ o.output = Osl!OutputName(o.hash) /\ Len(o.params) <= Len(o.items)
    BY <1>2, <1>4, <1>7, <1>8, <2>1 DEF OslInv, HashHolds
  <2> QED BY <2>1, <2>2, <2>3, <2>4 DEF HashHolds
<1>11. ExportHolds' /\ DOMAIN oslExported' = {"file", "asked", "output", "list", "next", "input"}
  BY <1>1 DEF ExportHolds, Osl!NotExported
<1> QED BY <1>1, <1>9, <1>10, <1>11 DEF OslInv

LEMMA OslStart ==
  ASSUME OslInv, Osl!StartExport
  PROVE  OslInv'
<1>1. UNCHANGED <<mtl, code, osl, oslLinks>>
  BY DEF Osl!StartExport
<1>2. \/ oslExported' = Osl!NotExported
      \/ /\ osl.hash # Osl!NoCode
         /\ oslExported' = [file |-> code, asked |-> (osl.hash = code), output |-> osl.output,
                            list |-> <<>>, next |-> 1, input |-> 1]
  BY DEF Osl!StartExport, Osl!NotExported
<1>3. DOMAIN oslExported' = {"file", "asked", "output", "list", "next", "input"}
  BY <1>2 DEF Osl!NotExported
<1>4. ExportHolds'
  <2> SUFFICES ASSUME oslExported'.asked PROVE ExportHolds'
    BY DEF ExportHolds
  <2>1. PICK c : c = code
    OBVIOUS
  <2>2. PICK e : e = oslExported'
    OBVIOUS
  <2>3. /\ c # Osl!NoCode /\ osl.hash = c /\ e.file = c /\ e.output = osl.output /\ e.list = <<>>
        /\ e.next = 1 /\ e.input = 1
    <3>1. oslExported' # Osl!NotExported
      <4>1. ~Osl!NotExported.asked
        BY DEF Osl!NotExported
      <4> QED BY <4>1
    <3>2. PICK same : same = (osl.hash = code)
      OBVIOUS
    <3>3. /\ osl.hash # Osl!NoCode
          /\ e = [file |-> code, asked |-> same, output |-> osl.output,
                  list |-> <<>>, next |-> 1, input |-> 1]
      BY <1>2, <2>2, <3>1, <3>2
    <3>4. e.asked = same
      BY <3>3
    <3>5. e.asked
      BY <2>2
    <3>6. osl.hash = code
      BY <3>2, <3>4, <3>5, Zenon
    <3> QED BY <2>1, <3>3, <3>6
  <2>4. e.output = Osl!OutputName(c)'
    <3>1. osl.output = Osl!OutputName(c)
      BY <2>3 DEF OslInv, HashHolds
    <3>2. Osl!OutputName(c)' = Osl!OutputName(c)
      BY <1>1 DEF Osl!OutputName
    <3> QED BY <2>3, <3>1, <3>2
  <2>5. c \in DOMAIN OslCodes /\ Len(Osl!Params(c)) \in Nat
    BY <2>3, ParsedIs DEF OslInv, HashHolds, ParamsOf
  <2>6. e.list = SeenOf(c, e.next - 1)'
    BY <2>3 DEF SeenOf
  <2>7. \A place : InputsOf(Osl!Params(c), Osl!Inputs(c), place) =>
          \A j \in 1 .. Len(Osl!Inputs(c)) : j < e.input <=> place[j] < e.next
    BY <2>3 DEF InputsOf
  <2>8. code' = c /\ oslExported' = e /\ osl'.hash = c
    BY <1>1, <2>1, <2>2, <2>3
  <2> QED BY <2>3, <2>4, <2>5, <2>6, <2>7, <2>8 DEF ExportHolds
<1> QED BY <1>1, <1>3, <1>4, HashKept DEF OslInv

LEMMA OslEnd ==
  ASSUME OslInv, Osl!EndExport
  PROVE  OslInv'
<1>1. UNCHANGED <<mtl, code, osl, oslLinks>> /\ oslExported' = [oslExported EXCEPT !.next = 0]
      /\ oslExported.next > Len(osl.params)
  BY DEF Osl!EndExport
<1>2. DOMAIN oslExported' = {"file", "asked", "output", "list", "next", "input"}
  BY <1>1 DEF OslInv
<1>3. ExportHolds'
  <2> SUFFICES ASSUME oslExported'.asked PROVE ExportHolds'
    BY DEF ExportHolds
  <2>1. PICK c : c = code
    OBVIOUS
  <2>2. PICK e : e = oslExported'
    OBVIOUS
  <2>3. /\ oslExported.asked /\ e.file = oslExported.file /\ e.output = oslExported.output
        /\ e.list = oslExported.list /\ e.next = 0
    BY <1>1, <2>2 DEF OslInv
  <2>4. /\ c # Osl!NoCode /\ osl.hash = c /\ e.file = c /\ e.output = Osl!OutputName(c)
        /\ c \in DOMAIN OslCodes /\ osl.params = Osl!Params(c)
    BY <2>1, <2>3 DEF OslInv, ExportHolds, HashHolds
  <2>5. PICK n \in Nat : n = Len(Osl!Params(c))
    BY <2>4, ParsedIs DEF ParamsOf
  <2>6. oslExported.next = n + 1 /\ e.list = SeenOf(c, oslExported.next - 1)
    BY <1>1, <2>1, <2>3, <2>4, <2>5 DEF OslInv, ExportHolds
  <2>7. e.list = SeenOf(c, n)
    BY <2>6
  <2>8. e.list = SeenOf(c, n)'
    BY <1>1, <2>7, SeenKept
  <2>9. e.output = Osl!OutputName(c)'
    BY <1>1, <2>4 DEF Osl!OutputName
  <2>10. code' = c /\ oslExported' = e /\ osl'.hash = c
    BY <1>1, <2>1, <2>2, <2>4
  <2> QED BY <2>3, <2>4, <2>5, <2>8, <2>9, <2>10 DEF ExportHolds
<1> QED BY <1>1, <1>2, <1>3, HashKept DEF OslInv

\* One more parameter of an export of a node that was asked.
LEMMA HoldsStep ==
  ASSUME OslInv, oslExported.asked, oslExported.next \in DOMAIN osl.params,
         UNCHANGED <<mtl, code, osl, oslLinks>>, NEW value,
         value = Osl!Seen(osl.params[oslExported.next]),
         Osl!IsTexture(osl.params[oslExported.next]) =>
           oslExported' = [oslExported EXCEPT
             !.list = Append(@, [name |-> osl.params[oslExported.next].name, value |-> value]),
             !.next = @ + 1, !.input = @ + 1],
         ~Osl!IsTexture(osl.params[oslExported.next]) =>
           oslExported' = [oslExported EXCEPT
             !.list = Append(@, [name |-> osl.params[oslExported.next].name, value |-> value]),
             !.next = @ + 1, !.input = @ + 0]
  PROVE  ExportHolds'
<1>1. PICK c : c = code
  OBVIOUS
<1>2. PICK e : e = oslExported
  OBVIOUS
<1>3. /\ c # Osl!NoCode /\ osl.hash = c /\ e.file = c /\ e.output = Osl!OutputName(c)
      /\ c \in DOMAIN OslCodes /\ osl.params = Osl!Params(c) /\ osl.inputs = Osl!Inputs(c)
      /\ e.next \in 0 .. Len(Osl!Params(c)) + 1
      /\ DOMAIN e = {"file", "asked", "output", "list", "next", "input"}
  BY <1>1, <1>2 DEF OslInv, ExportHolds, HashHolds
<1>4. PICK n \in Nat : /\ n = Len(Osl!Params(c)) /\ DOMAIN Osl!Params(c) = 1 .. n
                       /\ e.next \in 1 .. n
  BY <1>2, <1>3, ParsedIs DEF ParamsOf
<1>5. /\ e.list = SeenOf(c, e.next - 1) /\ e.input \in Nat \ {0}
      /\ \A place : InputsOf(Osl!Params(c), Osl!Inputs(c), place) =>
           \A j \in 1 .. Len(Osl!Inputs(c)) : j < e.input <=> place[j] < e.next
  BY <1>1, <1>2, <1>4 DEF OslInv, ExportHolds
<1>6. PICK p : p = Osl!Params(c)[e.next]
  OBVIOUS
<1>7. PICK x : x = [name |-> p.name, value |-> Osl!Seen(p)]
  OBVIOUS
<1>8. Append(e.list, x) = SeenOf(c, e.next)
  <2>1. PICK m \in Nat : m = e.next - 1 /\ e.next = m + 1
    BY <1>4
  <2>2. PICK f : f = [i \in 1 .. e.next |->
                        [name |-> Osl!Params(c)[i].name, value |-> Osl!Seen(Osl!Params(c)[i])]]
    OBVIOUS
  <2>3. e.list = [i \in 1 .. m |-> f[i]]
    <3>1. \A i \in 1 .. m : f[i] = [name |-> Osl!Params(c)[i].name, value |-> Osl!Seen(Osl!Params(c)[i])]
      BY <2>1, <2>2
    <3> QED BY <1>5, <2>1, <3>1 DEF SeenOf
  <2>4. Append(e.list, x) = [i \in 1 .. m + 1 |-> IF i = m + 1 THEN x ELSE f[i]]
    BY <2>3, AppendOf
  <2>5. f[m + 1] = x
    BY <1>6, <1>7, <2>1, <2>2
  <2>6. \A i \in 1 .. m + 1 : (IF i = m + 1 THEN x ELSE f[i]) = f[i]
    BY <2>5
  <2>7. Append(e.list, x) = f
    BY <2>1, <2>2, <2>4, <2>6
  <2> QED BY <2>2, <2>7 DEF SeenOf
<1>9. PICK d : d = oslExported'
  OBVIOUS
<1>10. /\ d.file = c /\ d.output = e.output /\ d.list = SeenOf(c, e.next) /\ d.next = e.next + 1
       /\ Osl!IsTexture(p) => d.input = e.input + 1
       /\ ~Osl!IsTexture(p) => d.input = e.input
  <2>1. osl.params[oslExported.next] = p /\ value = Osl!Seen(p)
    BY <1>2, <1>3, <1>6
  <2>2. \/ Osl!IsTexture(p) /\ d = [e EXCEPT !.list = Append(@, x), !.next = @ + 1, !.input = @ + 1]
        \/ ~Osl!IsTexture(p) /\ d = [e EXCEPT !.list = Append(@, x), !.next = @ + 1, !.input = @ + 0]
    BY <1>2, <1>7, <1>9, <2>1
  <2>3. PICK more : more = Append(e.list, x)
    OBVIOUS
  <2>4. \/ Osl!IsTexture(p) /\ d = [e EXCEPT !.list = more, !.next = e.next + 1, !.input = e.input + 1]
        \/ ~Osl!IsTexture(p) /\ d = [e EXCEPT !.list = more, !.next = e.next + 1, !.input = e.input + 0]
    BY <2>2, <2>3
  <2>5. more = SeenOf(c, e.next) /\ e.input + 0 = e.input
    BY <1>5, <1>8, <2>3
  <2>7. CASE Osl!IsTexture(p)
    <3>1. d = [e EXCEPT !.list = more, !.next = e.next + 1, !.input = e.input + 1]
      BY <2>4, <2>7
    <3>2. d.file = e.file /\ d.output = e.output /\ d.list = more /\ d.next = e.next + 1
          /\ d.input = e.input + 1
      BY <1>3, <3>1
    <3> QED BY <1>3, <2>5, <2>7, <3>2
  <2>8. CASE ~Osl!IsTexture(p)
    <3>1. d = [e EXCEPT !.list = more, !.next = e.next + 1, !.input = e.input + 0]
      BY <2>4, <2>8
    <3>2. d.file = e.file /\ d.output = e.output /\ d.list = more /\ d.next = e.next + 1
          /\ d.input = e.input + 0
      BY <1>3, <3>1
    <3> QED BY <1>3, <2>5, <2>8, <3>2
  <2> QED BY <2>7, <2>8
<1>11. ASSUME NEW place, InputsOf(Osl!Params(c), Osl!Inputs(c), place),
              NEW j \in 1 .. Len(Osl!Inputs(c))
       PROVE  j < d.input <=> place[j] < d.next
  <2>1. PICK l \in Nat : l = Len(Osl!Inputs(c))
    BY <1>11 DEF InputsOf
  <2>2. /\ place[j] \in 1 .. n /\ j \in 1 .. l
        /\ j < e.input <=> place[j] < e.next
        /\ Osl!IsTexture(Osl!Params(c)[place[j]])
    BY <1>4, <1>5, <1>11, <2>1 DEF InputsOf
  <2>3. CASE ~Osl!IsTexture(p)
    <3>1. place[j] # e.next
      BY <1>6, <2>2, <2>3
    <3> QED BY <1>4, <1>5, <1>10, <2>2, <2>3, <3>1
  <2>4. CASE Osl!IsTexture(p)
    <3>1. PICK k \in 1 .. l : place[k] = e.next
      BY <1>4, <1>6, <1>11, <2>1, <2>4 DEF InputsOf
    <3>2. \A i \in 1 .. l : i < e.input <=> place[i] < e.next
      BY <1>5, <1>11, <2>1
    <3>3. \A i \in 1 .. l : place[i] \in 1 .. n
      BY <1>4, <1>11, <2>1 DEF InputsOf
    <3>4. \A i, h \in 1 .. l : i < h => place[i] < place[h]
      BY <1>11, <2>1 DEF InputsOf
    <3>5. k = e.input
      <4>1. ~(k < e.input)
        BY <3>1, <3>2, <1>4
      <4>2. ASSUME e.input < k PROVE FALSE
        <5>1. e.input \in 1 .. l
          BY <4>2, <1>5, <2>1
        <5>2. ~(place[e.input] < e.next)
          BY <5>1, <3>2, <1>5
        <5>3. place[e.input] < place[k]
          BY <4>2, <5>1, <3>4
        <5> QED BY <5>2, <5>3, <3>1
      <4> QED BY <4>1, <4>2, <1>5
    <3>6. CASE j < k
      <4>1. place[j] < place[k]
        BY <3>4, <3>6, <2>2
      <4> QED BY <1>4, <1>5, <1>10, <2>2, <2>4, <3>1, <3>5, <3>6, <4>1
    <3>7. CASE j = k
      BY <1>4, <1>5, <1>10, <2>4, <3>1, <3>5, <3>7
    <3>8. CASE k < j
      <4>1. place[k] < place[j]
        BY <3>4, <3>8, <2>2
      <4>2. ~(j < d.input)
        BY <1>5, <1>10, <2>2, <2>4, <3>5, <3>8
      <4>3. ~(place[j] < d.next)
        BY <1>4, <1>10, <2>2, <3>1, <4>1
      <4> QED BY <4>2, <4>3
    <3> QED BY <2>2, <3>6, <3>7, <3>8
  <2> QED BY <2>3, <2>4
<1>12. /\ d.next \in 0 .. Len(Osl!Params(c)) + 1 /\ d.next # 0 /\ d.next - 1 = e.next
       /\ d.input \in Nat \ {0}
  BY <1>4, <1>5, <1>10
<1>13. d.list = SeenOf(c, d.next - 1)'
  BY <1>10, <1>12, SeenKept
<1>14. d.output = Osl!OutputName(c)'
  <2>1. Osl!OutputName(c)' = Osl!OutputName(c)
    BY DEF Osl!OutputName
  <2> QED BY <1>3, <1>10, <2>1
<1>15. code' = c /\ oslExported' = d /\ osl'.hash = c
  BY <1>1, <1>3, <1>9
<1> QED BY <1>3, <1>10, <1>11, <1>12, <1>13, <1>14, <1>15 DEF ExportHolds

LEMMA OslParam ==
  ASSUME OslInv, Osl!ExportParam
  PROVE  OslInv'
<1>1. /\ oslExported.next \in DOMAIN osl.params /\ UNCHANGED <<mtl, code, oslLinks>>
      /\ Osl!ExportTexture \/ Osl!ExportValue
  BY DEF Osl!ExportParam
<1>2. \E value :
        oslExported' = [oslExported EXCEPT
          !.list = Append(@, [name |-> osl.params[oslExported.next].name, value |-> value]),
          !.next = @ + 1,
          !.input = @ + IF Osl!IsTexture(osl.params[oslExported.next]) THEN 1 ELSE 0]
  BY <1>1 DEF Osl!ExportTexture, Osl!ExportValue, Osl!AddParam, Osl!Param
<1>3. /\ DOMAIN oslExported' = {"file", "asked", "output", "list", "next", "input"}
      /\ oslExported'.asked = oslExported.asked
  BY <1>2 DEF OslInv
<1>4. OslRecord(osl') /\ HashHolds(osl)'
  <2>1. CASE Osl!ExportTexture
    BY <1>1, <2>1, UpdatedKept DEF Osl!ExportTexture
  <2>2. CASE Osl!ExportValue
    BY <1>1, <2>2, HashKept DEF Osl!ExportValue, OslInv
  <2> QED BY <1>1, <2>1, <2>2
<1>5. ExportHolds'
  <2> SUFFICES ASSUME oslExported.asked PROVE ExportHolds'
    BY <1>3 DEF ExportHolds
  <2>1. osl.hash # Osl!NoCode /\ HashHolds(osl) /\ OslRecord(osl)
    BY DEF OslInv, ExportHolds
  <2>2. PICK c \in DOMAIN OslCodes : c = osl.hash /\ c = code
    BY <2>1 DEF HashHolds, OslInv, ExportHolds
  <2>3. PICK n \in Nat : n = Len(osl.params) /\ oslExported.next \in 1 .. n
    BY <1>1, <2>1, <2>2, ParsedIs DEF HashHolds, ParamsOf
  <2>4. CASE Osl!ExportTexture
    <3>1. osl' = osl /\ Osl!IsTexture(osl.params[oslExported.next])
      BY <2>4, AnsweredAsked DEF Osl!ExportTexture, Osl!Param
    <3>2. PICK place : InputsOf(osl.params, osl.inputs, place)
      BY <2>1, <2>2, ParsedIs DEF HashHolds
    <3>3. PICK l \in Nat : l = Len(osl.inputs)
      BY <3>2 DEF InputsOf
    <3>4. /\ oslExported.input \in Nat \ {0}
          /\ \A j \in 1 .. l : j < oslExported.input <=> place[j] < oslExported.next
      BY <2>1, <2>2, <2>3, <3>2, <3>3 DEF OslInv, ExportHolds, HashHolds
    <3>5. PICK k \in 1 .. l : place[k] = oslExported.next
      BY <2>3, <3>1, <3>2, <3>3 DEF InputsOf
    <3>6. oslExported.input <= k
      BY <3>4, <3>5, <2>3
    <3>7. oslExported.input \in 1 .. l
      BY <3>3, <3>4, <3>6
    <3>8. k = oslExported.input
      <4>1. ASSUME oslExported.input < k PROVE FALSE
        <5>1. place[oslExported.input] < place[k]
          BY <4>1, <3>2, <3>3, <3>7 DEF InputsOf
        <5>2. ~(place[oslExported.input] < oslExported.next)
          BY <3>4, <3>7
        <5> QED BY <5>1, <5>2, <3>5
      <4> QED BY <3>6, <3>7, <4>1
    <3>9. Osl!Socket(osl', oslExported.input) = {oslExported.input}
      BY <3>1, <3>3, <3>7 DEF Osl!Socket
    <3>10. PICK value :
             /\ value = Osl!Linked(oslExported.input)
             /\ oslExported' = [oslExported EXCEPT
                  !.list = Append(@, [name |-> osl.params[oslExported.next].name, value |-> value]),
                  !.next = @ + 1, !.input = @ + 1]
      BY <2>4, <3>1, <3>9 DEF Osl!ExportTexture, Osl!AddParam, Osl!Param
    <3>11. value = oslLinks[k]
      BY <3>4, <3>8, <3>10 DEF Osl!Linked
    <3>12. Osl!Seen(osl.params[oslExported.next]) = oslLinks[k]
      BY <2>1, <2>3, <3>2, <3>3, <3>5, SeenIs
    <3> QED BY <1>1, <3>1, <3>10, <3>11, <3>12, HoldsStep
  <2>5. CASE Osl!ExportValue
    <3>1. osl' = osl /\ ~Osl!IsTexture(osl.params[oslExported.next])
      BY <2>5 DEF Osl!ExportValue, Osl!Param
    <3>2. PICK value :
             /\ value = osl.items[oslExported.next].value
             /\ oslExported' = [oslExported EXCEPT
                  !.list = Append(@, [name |-> osl.params[oslExported.next].name, value |-> value]),
                  !.next = @ + 1, !.input = @ + 0]
      BY <2>5, <3>1 DEF Osl!ExportValue, Osl!AddParam, Osl!Param
    <3>3. Osl!Seen(osl.params[oslExported.next]) = value
      BY <2>1, <2>3, <3>1, <3>2, SeenIs
    <3> QED BY <1>1, <3>1, <3>2, <3>3, HoldsStep
  <2> QED BY <1>1, <2>4, <2>5
<1> QED BY <1>1, <1>3, <1>4, <1>5 DEF OslInv

LEMMA OslStep ==
  ASSUME OslInv, Osl!Next \/ UNCHANGED OslVars
  PROVE  OslInv'
<1>1. ASSUME NEW c \in DOMAIN OslCodes \cup {Osl!NoCode}, Osl!SetCode(c) PROVE OslInv'
  <2>1. UNCHANGED <<mtl, osl>> /\ code' = c /\ oslExported' = Osl!NotExported
    BY <1>1 DEF Osl!SetCode, Osl!Edit
  <2> QED BY <2>1, HashKept DEF OslInv, ExportHolds, Osl!NotExported
<1>2. ASSUME Osl!Ask PROVE OslInv'
  <2>1. osl' = Osl!Updated(osl, code) /\ UNCHANGED <<mtl, code, oslLinks, oslExported>>
    BY <1>2 DEF Osl!Ask
  <2>2. OslRecord(osl') /\ HashHolds(osl)'
    BY <2>1, UpdatedKept
  <2>3. ExportHolds'
    <3>1. CASE oslExported.asked
      BY <2>1, <3>1, AnsweredAsked, HoldsKept DEF OslInv
    <3>2. CASE ~oslExported.asked
      BY <2>1, <3>2 DEF ExportHolds
    <3> QED BY <3>1, <3>2
  <2> QED BY <2>1, <2>2, <2>3 DEF OslInv
<1>3. ASSUME NEW i \in 1 .. MaxOslInputs, NEW n, Osl!Connect(i, n) PROVE OslInv'
  <2>1. /\ osl' = Osl!Updated(osl, code) /\ UNCHANGED <<mtl, code>>
        /\ oslExported' = Osl!NotExported
    BY <1>3 DEF Osl!Connect, Osl!Edit
  <2>2. OslRecord(osl') /\ HashHolds(osl)'
    BY <2>1, UpdatedKept
  <2> QED BY <2>1, <2>2 DEF OslInv, ExportHolds, Osl!NotExported
<1>4. ASSUME UNCHANGED OslVars PROVE OslInv'
  <2>1. UNCHANGED <<mtl, code, osl, oslLinks, oslExported>>
    BY <1>4 DEF OslVars
  <2> QED BY <2>1, HashKept, HoldsKept DEF OslInv
<1> QED
  BY <1>1, <1>2, <1>3, <1>4, OslSetItem, OslStart, OslParam, OslEnd DEF Osl!Next

LEMMA OslAlways == AllSpec => [](which = "Osl" => OslInv)
<1> DEFINE I == which = "Osl" => OslInv
<1>1. AllInit => I
  BY OslInit DEF AllInit
<1>2. I /\ [AllNext]_allVars => I'
  <2> SUFFICES ASSUME I, [AllNext]_allVars, which' = "Osl" PROVE OslInv'
    OBVIOUS
  <2>1. which = "Osl"
    BY DEF AllNext, allVars
  <2>2. Osl!Next \/ UNCHANGED OslVars
    BY <2>1, OslAlone DEF OslVars, Osl!oslVars
  <2> QED BY <2>1, <2>2, OslStep
<1> QED BY <1>1, <1>2, PTL DEF AllSpec

\* An OSL node exports what the user sees, if it was asked for its sockets since its
\* code changed.
THEOREM OslShowsSeen == AllSpec => []SeenIsExported
<1>1. (which = "Osl" => OslInv) => SeenIsExported
  BY OslOwn DEF SeenIsExported
<1> QED BY <1>1, OslAlways, PTL
=============================================================================
