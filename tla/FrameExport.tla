---------------------------- MODULE FrameExport ----------------------------
(***************************************************************************)
(* A production or cloud session of VRayExporter, from initExporter() to   *)
(* exportEnd(): which time points of the scene are exported for a frame,   *)
(* which key frames the renderer holds when the frame is rendered or       *)
(* written, and what the files of the session contain.                     *)
(*                                                                         *)
(* Time is counted in ticks, a fraction of a frame fine enough for every   *)
(* motion blur subframe to be a whole number. The code adds up doubles,    *)
(* whose sum may round past mb_end and leave out the last subframe: that is*)
(* not modelled. Houdini's ROP driver, which calls startRender, renderFrame*)
(* and endRender in that order, is external.                               *)
(***************************************************************************)
EXTENDS Integers, FiniteSets

CONSTANTS
  FrameTicks,   \* ticks between two frames of the animation
  FirstFrames,  \* frames (in ticks) a session may start at
  MaxFrames,    \* bound: frames of a session
  MaxSessions,  \* bound: sessions, one after the other
  MbSettings    \* motion blur settings [duration, before, samples]; "before"
                \* is mb_duration * (0.5 - mb_interval_center)

VARIABLES
  session,      \* what initExporter() read from the ROP
  pc,           \* where the UI thread is
  frame,        \* the time exportFrame() was called with
  subframe,     \* the loop variable of exportFrame()
  current,      \* the renderer's current frame: setTime()
  exportedFrames,  \* m_exportedFrames
  keys,         \* times at which the renderer holds key frames
  aborted,      \* m_isAborted
  error,        \* m_error
  files,        \* scene files the session wrote
  done,         \* history: frames whose export was not aborted
  times,        \* history: times the scene was exported at
  sessions      \* bound counter

vars == <<session, pc, frame, subframe, current, exportedFrames, keys, aborted,
          error, files, done, times, sessions>>
history == <<done, times, sessions>>

-----------------------------------------------------------------------------
(* The settings of a session. *)

Larger(a, b) == IF a > b THEN a ELSE b

\* Frames before 0 are exported as frame 0.
Clamp(t) == Larger(t, 0)

Modes == {"ExpRender", "ExpExport", "ExpExportRender"}
Sessions ==
  [type : {"production", "cloud"}, workMode : Modes, nframes : 1 .. MaxFrames,
   separateFiles : BOOLEAN, motionBlur : BOOLEAN, mb : MbSettings]

Intervals(mb) == Larger(mb.samples - 1, 1)
Inc(mb) == mb.duration \div Intervals(mb)
MbStart(mb, f) == f - mb.before
MbEnd(mb, f) == MbStart(mb, f) + mb.duration

ASSUME SettingsAssumption ==
  /\ FrameTicks \in Nat \ {0} /\ MaxFrames \in Nat \ {0} /\ MaxSessions \in Nat
  /\ FirstFrames \subseteq Nat
  /\ MbSettings \subseteq [duration : Nat, before : Int, samples : Nat]
  /\ \A mb \in MbSettings : Inc(mb) \in Nat /\ mb.duration = Intervals(mb) * Inc(mb)

IsAnimation == session.nframes > 1
IsExportMode == session.workMode \in {"ExpExport", "ExpExportRender"}
ExportFilePerFrame ==
  session.type # "cloud" /\ IsExportMode /\ IsAnimation /\ session.separateFiles

\* The time points a frame's image depends on.
Needed(s, f) ==
  IF s.motionBlur
    THEN {Clamp(MbStart(s.mb, f) + k * Inc(s.mb)) : k \in 0 .. Intervals(s.mb)}
    ELSE {f}

EarliestNeeded(f) == IF session.motionBlur THEN MbStart(session.mb, f) ELSE f

-----------------------------------------------------------------------------
Init ==
  /\ session \in Sessions /\ pc = "idle"
  /\ frame = 0 /\ subframe = 0 /\ current = 0
  /\ exportedFrames = {} /\ keys = {}
  /\ aborted = FALSE /\ error = "continue" /\ files = {}
  /\ done = {} /\ times = {} /\ sessions = 0

\* Mutant: the time points of the last session stay in m_exportedFrames.
InitExporterKeepsTimes(s, f) ==
  /\ pc = "idle" /\ sessions < MaxSessions
  /\ s.type = "cloud" => s.workMode = "ExpExport"
  /\ session' = s /\ pc' = "driver" /\ frame' = f
  /\ subframe' = 0 /\ current' = 0 /\ aborted' = FALSE /\ error' = "continue"
  /\ files' = {} /\ done' = {} /\ times' = {}
  /\ sessions' = sessions + 1
  /\ UNCHANGED <<keys, exportedFrames>>

\* startRender() got a renderer and a camera. Without them it returns
\* ROP_ABORT_RENDER and the driver asks for no frame.
InitExporter(s, f) ==
  /\ pc = "idle" /\ sessions < MaxSessions
  /\ s.type = "cloud" => s.workMode = "ExpExport"
  /\ session' = s /\ pc' = "driver" /\ frame' = f
  /\ exportedFrames' = {}
  /\ subframe' = 0 /\ current' = 0 /\ aborted' = FALSE /\ error' = "continue"
  /\ files' = {} /\ done' = {} /\ times' = {}
  /\ sessions' = sessions + 1
  /\ UNCHANGED keys

-----------------------------------------------------------------------------
(* exportFrame() *)

MoreFrames == Cardinality(done) < session.nframes

\* Mutant: key frames are cleared whatever the session writes.
ClearAlways(toTime) == {t \in keys : t >= toTime}

\* clearKeyFrames(toTime): the renderer drops key frames before toTime, but
\* only when the frames go to separate files.
ClearKeyFrames(toTime) ==
  IF ExportFilePerFrame THEN {t \in keys : t >= toTime} ELSE keys

ExportScene(t) == times' = times \cup {t}

\* Called again after an abort, it only reports the abort.
FrameAborted ==
  /\ pc = "driver" /\ MoreFrames /\ error = "continue" /\ aborted
  /\ error' = "abort"
  /\ UNCHANGED <<session, pc, frame, subframe, current, exportedFrames, keys,
                 aborted, files, history>>

StartStill ==
  /\ pc = "driver" /\ MoreFrames /\ error = "continue" /\ ~aborted
  /\ ~session.motionBlur
  /\ keys' = ClearKeyFrames(frame) \cup {frame} /\ ExportScene(frame)
  /\ pc' = "check" /\ current' = frame
  /\ UNCHANGED <<session, frame, subframe, exportedFrames, aborted, error, files,
                 done, sessions>>

StartBlur ==
  LET start == MbStart(session.mb, frame) IN
  /\ pc = "driver" /\ MoreFrames /\ error = "continue" /\ ~aborted
  /\ session.motionBlur
  /\ keys' = ClearKeyFrames(start)
  /\ exportedFrames' = {t \in exportedFrames : t >= start}
  /\ subframe' = start /\ pc' = "sub" /\ current' = frame
  /\ UNCHANGED <<session, frame, aborted, error, files, history>>

\* Mutant: a time point that was exported already is not stepped over.
SubframeStays ==
  LET t == Clamp(subframe) IN
  /\ pc = "sub" /\ ~aborted /\ subframe <= MbEnd(session.mb, frame)
  /\ IF t \in exportedFrames
       THEN UNCHANGED <<exportedFrames, keys, current, times, subframe>>
       ELSE /\ exportedFrames' = exportedFrames \cup {t}
            /\ keys' = keys \cup {t} /\ current' = t /\ ExportScene(t)
            /\ subframe' = subframe + Inc(session.mb)
  /\ UNCHANGED <<session, pc, frame, aborted, error, files, done, sessions>>

\* One round of the loop.
Subframe ==
  LET t == Clamp(subframe) IN
  /\ pc = "sub" /\ ~aborted /\ subframe <= MbEnd(session.mb, frame)
  /\ subframe' = subframe + Inc(session.mb)
  /\ IF t \in exportedFrames
       THEN UNCHANGED <<exportedFrames, keys, current, times>>
       ELSE /\ exportedFrames' = exportedFrames \cup {t}
            /\ keys' = keys \cup {t} /\ current' = t /\ ExportScene(t)
  /\ UNCHANGED <<session, pc, frame, aborted, error, files, done, sessions>>

\* Set time back to the frame's own.
SubframesEnd ==
  /\ pc = "sub" /\ (aborted \/ subframe > MbEnd(session.mb, frame))
  /\ pc' = "check" /\ current' = frame
  /\ UNCHANGED <<session, frame, subframe, exportedFrames, keys, aborted, error,
                 files, history>>

\* The second look at m_isAborted.
CheckAborted ==
  /\ pc = "check" /\ aborted
  /\ error' = "abort" /\ pc' = "driver"
  /\ UNCHANGED <<session, frame, subframe, current, exportedFrames, keys, aborted,
                 files, history>>

\* exportToVrscene(): a scene file for a set of frames.
SceneFile(kind, frames) == [kind |-> kind, frames |-> frames, keys |-> keys]

\* renderFrame(): a file for this frame alone, then the render. The file is
\* missing when no path is given, its directory cannot be made, or Houdini is
\* an Indie edition.
WritesFrame ==
  session.type = "production" /\ IsExportMode /\ (ExportFilePerFrame \/ ~IsAnimation)

RenderFrame ==
  /\ pc = "check" /\ ~aborted
  /\ done' = done \cup {frame}
  /\ \/ WritesFrame /\ files' = files \cup {SceneFile("frame", {frame})}
     \/ UNCHANGED files
  /\ IF session.type # "cloud" /\ session.workMode \in {"ExpRender", "ExpExportRender"}
       THEN pc' = "rendering" /\ UNCHANGED frame
       ELSE pc' = "driver" /\ frame' = frame + FrameTicks
  /\ UNCHANGED <<session, subframe, current, exportedFrames, keys, aborted, error,
                 times, sessions>>

\* waitForRenderEnd() returns.
RenderEnds ==
  /\ pc = "rendering"
  /\ pc' = "driver" /\ frame' = frame + FrameTicks
  /\ UNCHANGED <<session, subframe, current, exportedFrames, keys, aborted, error,
                 files, history>>

\* onStateChanged() on the renderer's thread, from the first render on.
Abort ==
  /\ pc # "idle" /\ ~aborted
  /\ session.type # "cloud" /\ session.workMode \in {"ExpRender", "ExpExportRender"}
  /\ pc = "rendering" \/ done # {}
  /\ aborted' = TRUE
  /\ UNCHANGED <<session, pc, frame, subframe, current, exportedFrames, keys, error,
                 files, history>>

-----------------------------------------------------------------------------
(* exportEnd() *)

WritesAll ==
  \/ session.type = "cloud" /\ error # "abort"
  \/ session.type = "production" /\ ~ExportFilePerFrame /\ IsAnimation /\ IsExportMode

\* The driver ends the session after its last frame, after an abort, or when
\* the user interrupts it between two frames.
ExportEnd ==
  /\ pc = "driver"
  /\ pc' = "idle" /\ keys' = {} /\ error' = "continue"
  /\ \/ WritesAll /\ files' = files \cup {SceneFile("all", done)}
     \/ UNCHANGED files
  /\ UNCHANGED <<session, frame, subframe, current, exportedFrames, aborted, history>>

-----------------------------------------------------------------------------
ExportFrame ==
  \/ FrameAborted \/ StartStill \/ StartBlur \/ Subframe \/ SubframesEnd
  \/ CheckAborted \/ RenderFrame

Next ==
  \/ \E s \in Sessions, f \in FirstFrames : InitExporter(s, f)
  \/ ExportFrame \/ RenderEnds \/ Abort \/ ExportEnd

\* A call of exportFrame() runs on, and a render ends. Nothing makes the driver
\* ask for a frame or start a session.
Fairness ==
  /\ WF_vars(Subframe \/ SubframesEnd \/ CheckAborted \/ RenderFrame)
  /\ WF_vars(RenderEnds)

Spec == Init /\ [][Next]_vars /\ Fairness

-----------------------------------------------------------------------------
SceneFiles == [kind : {"frame", "all"}, frames : SUBSET Nat, keys : SUBSET Nat]

TypeOK ==
  /\ session \in Sessions
  /\ pc \in {"idle", "driver", "sub", "check", "rendering"}
  /\ frame \in Nat /\ subframe \in Int /\ current \in Nat
  /\ exportedFrames \subseteq Nat /\ keys \subseteq Nat
  /\ aborted \in BOOLEAN /\ error \in {"continue", "abort"}
  /\ files \subseteq SceneFiles
  /\ done \subseteq Nat /\ times \subseteq Nat /\ sessions \in Nat

\* When a frame is rendered, the renderer stands at that frame and holds a key
\* frame for each of its time points: clearKeyFrames(), the erased part of
\* m_exportedFrames and the subframes that are stepped over fit together.
RenderedWithKeys ==
  pc = "rendering" => current = frame /\ Needed(session, frame) \subseteq keys

\* A file of the session holds the key frames of every frame it is for: a whole
\* animation that is written at the end is complete, however it ended.
FilesComplete ==
  \A file \in files : \A f \in file.frames : Needed(session, f) \subseteq file.keys

\* A file for one frame holds no key frame from before that frame's interval.
FrameFilesLean ==
  \A file \in files : file.kind = "frame" =>
    \A f \in file.frames : \A t \in file.keys : t >= EarliestNeeded(f)

\* An interval of no duration: the loop of exportFrame() adds 0 to its subframe.
Endless == session.motionBlur /\ Inc(session.mb) = 0

\* exportFrame() returns: its loop ends and the render does. In an interval of
\* no duration the loop ends when an abort ends it, and in no other way; a
\* session whose first frame it is has nothing that could abort it.
FrameReturns ==
  /\ /\ pc \in {"sub", "check", "rendering"}
     /\ Endless /\ pc = "sub" => aborted
     ~> pc \in {"driver", "idle"}
  /\ [][Endless /\ pc = "sub" /\ pc' # "sub" => aborted /\ done # {}]_vars

=============================================================================
