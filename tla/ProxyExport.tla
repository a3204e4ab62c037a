---------------------------- MODULE ProxyExport -----------------------------
(***************************************************************************)
(* Export of geometry into .vrmesh files: the hscript command (cmd/        *)
(* vfh_cmd_vrayproxy), the ROP (rop_vrayproxyrop) and the exporter they    *)
(* share (vfh_export_vrayproxy), which writes an intermediate scene and    *)
(* has ply2vrmesh convert it.  A file holds frames, of each the nodes that *)
(* could be exported.                                                      *)
(***************************************************************************)
EXTENDS Integers, Sequences, FiniteSets, FiniteSetsExt, Functions

CONSTANTS
  Sops,     \* geometry there may be
  Commands, \* what may be asked for, see below
  MaxCalls  \* bound on commands and renders

\* by: "cmd" or "rop"; first, last: frames as they are given; animation: -a, or a
\* ROP's range; overwrite, mkpath, single: options; numbered: the file name has the
\* number of the frame in it; sops: a sequence of nodes.  Houdini renders a ROP
\* for one frame at least.
CommandsAssumption ==
  \A c \in Commands :
    /\ c.first \in Int /\ c.last \in Int /\ Range(c.sops) \subseteq Sops
    /\ c.by = "rop" => c.first <= c.last

VARIABLES
  dir,    \* the directory exists
  files,  \* [base, frame] of a file -> frame -> nodes in it
  scenes, \* intermediate scenes left behind
  rop,    \* the render the ROP is at: [options, time], or NoRender
  result, \* what the last export was asked and answered
  calls   \* bound counter

proxyVars == <<dir, files, scenes, rop, result, calls>>

NoRender == [time |-> 0]
NoResult == [error |-> "none"]

Larger(a, b) == IF a > b THEN a ELSE b
Smaller(a, b) == IF a < b THEN a ELSE b

-----------------------------------------------------------------------------
(* Options. *)

\* parseExportOptions(): the start is overwritten before the end is computed of it,
\* so that a range given backwards keeps only its lower end.
CmdOptions(c) ==
  LET start == Larger(Smaller(c.first, c.last), 1)
      end == Larger(Larger(start, c.last), 1)
  IN [sops |-> c.sops, animation |-> c.animation, overwrite |-> c.overwrite,
      mkpath |-> c.mkpath, single |-> c.single, numbered |-> FALSE,
      animStart |-> IF c.animation THEN start ELSE c.first,
      animFrames |-> IF c.animation THEN end - start + 1 ELSE 1]

\* startRender(): a numbered file name makes it no animation, but the exporter
\* loops over animFrames all the same.
RopOptions(c) ==
  [sops |-> c.sops, animation |-> c.last > c.first /\ ~c.numbered, overwrite |-> c.overwrite,
   mkpath |-> c.mkpath, single |-> c.single, numbered |-> c.numbered,
   animStart |-> c.first, animFrames |-> c.last - c.first + 1]

\* getFilepath(): the name of the node when each is asked for on its own.
FileOf(options, sops, time) ==
  [base |-> IF options.single THEN "all" ELSE Head(sops),
   frame |-> IF options.numbered THEN time ELSE 0]

IsAppendMode(options, time) ==
  options.animation /\ options.animFrames > 1 /\ time > options.animStart

-----------------------------------------------------------------------------
(* VRayProxyExporter::doExport(). *)

\* Mutant: the loop counts from zero but starts with the first frame.
FrameAfterOff(options, broken) == options.animStart + options.animFrames - 1

\* The frame after the last that is exported: the loop ends with the first frame
\* that has a node which cannot be exported.
FrameAfter(options, broken) ==
  LET frames == options.animStart..(options.animStart + options.animFrames - 1)
      stops == {f \in frames : \E s \in Range(options.sops) : <<s, f>> \in broken}
  IN IF stops = {} THEN Max(frames) + 1 ELSE Min(stops) + 1

Frames(options, broken) == options.animStart..(FrameAfter(options, broken) - 1)

Contents(options, sops, broken) ==
  [f \in Frames(options, broken) |-> {s \in Range(sops) : <<s, f>> \notin broken}]

\* What may go wrong in convertData(): none of it is told to the caller.
Faults == {"none", "scene", "appsdk"}

\* One call of it: broken are the nodes that cannot be exported, at their frames.
\* The options are shared, so that convertData() finds the time of the last frame.
DoExport(options, sops, time, broken, fault) ==
  LET here == [options EXCEPT !.sops = sops]
      file == FileOf(here, sops, time)
      last == FrameAfter(here, broken) - 1
      failed == \E f \in Frames(here, broken), s \in Range(sops) : <<s, f>> \in broken
      kept == file \in DOMAIN files /\ ~IsAppendMode(here, last) /\ ~here.overwrite
      written == (dir \/ here.mkpath) /\ ~kept /\ fault = "none"
  IN /\ dir' = (dir \/ here.mkpath)
     /\ files' = IF ~written THEN files
                 ELSE [g \in DOMAIN files \cup {file} |->
                         IF g = file THEN Contents(here, sops, broken) ELSE files[g]]
     \* Without the AppSDK the scene is written and stays.
     /\ scenes' = IF (dir \/ here.mkpath) /\ ~kept /\ fault = "appsdk" THEN scenes \cup {file} ELSE scenes
     /\ result' = [error |-> IF ~(dir \/ here.mkpath) THEN "directory"
                             ELSE IF failed THEN "node" ELSE "none",
                   options |-> here, file |-> file, written |-> written]

\* Nodes that cannot be exported: at most one, at one frame.
Broken(options) ==
  {{}} \cup {{<<s, f>>} : s \in Range(options.sops),
               f \in options.animStart..(options.animStart + options.animFrames - 1)}

-----------------------------------------------------------------------------
(* Callers. *)

Init ==
  /\ dir \in BOOLEAN
  /\ files = <<>> /\ scenes = {}
  /\ rop = NoRender
  /\ result = NoResult
  /\ calls = 0

\* CMD::vrayproxy(): all nodes in one export, whatever -m asks for.
Vrayproxy(c) ==
  /\ c.by = "cmd" /\ rop = NoRender /\ calls < MaxCalls
  /\ calls' = calls + 1
  /\ c.sops # <<>>
  /\ \E broken \in Broken(CmdOptions(c)), fault \in Faults :
       DoExport(CmdOptions(c), c.sops, CmdOptions(c).animStart, broken, fault)
  /\ UNCHANGED rop

StartRender(c) ==
  /\ c.by = "rop" /\ rop = NoRender /\ calls < MaxCalls
  /\ calls' = calls + 1
  /\ c.sops # <<>> /\ (dir \/ c.mkpath)
  /\ dir' = TRUE
  /\ rop' = [time |-> c.first, options |-> RopOptions(c), at |-> 1]
  /\ UNCHANGED <<files, scenes, result>>

\* renderFrame(): every frame exports the range, of all nodes or of one after the
\* other (at), and does not look at what that answers.
RenderFrame ==
  /\ rop # NoRender
  /\ LET options == rop.options
         sops == IF options.single THEN options.sops ELSE <<options.sops[rop.at]>>
         done == options.single \/ rop.at = Len(options.sops)
         end == rop.time = options.animStart + options.animFrames - 1
     IN /\ \E broken \in Broken([options EXCEPT !.sops = sops]), fault \in Faults :
             DoExport(options, sops, rop.time, broken, fault)
        /\ rop' = IF ~done THEN [rop EXCEPT !.at = @ + 1]
                  ELSE IF end THEN NoRender
                  ELSE [rop EXCEPT !.time = @ + 1, !.at = 1]
  /\ UNCHANGED calls

Next ==
  \/ \E c \in Commands : Vrayproxy(c) \/ StartRender(c)
  \/ RenderFrame

Spec == Init /\ [][Next]_proxyVars

-----------------------------------------------------------------------------
(* Properties. *)

\* A file holds every node at every frame of the range it was written for, or the
\* exporter has answered that a node could not be exported; then the file ends with
\* that frame, where just this node is missing.
ProxyIsWhole ==
  (result # NoResult /\ result.written) =>
    LET o == result.options
        content == files[result.file]
        last == Max(DOMAIN content)
    IN /\ o.animStart \in DOMAIN content
       /\ \A f \in DOMAIN content \ {last} : content[f] = Range(o.sops)
       /\ IF result.error = "none"
          THEN last = o.animStart + o.animFrames - 1 /\ content[last] = Range(o.sops)
          ELSE Cardinality(Range(o.sops) \ content[last]) = 1
=============================================================================
