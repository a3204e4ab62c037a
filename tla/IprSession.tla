----------------------------- MODULE IprSession ------------------------------
(***************************************************************************)
(* The IPR session of the Python module _vfh_ipr: the one exporter, the    *)
(* mutex that guards it (WithExporter), the SOHO calls that the UI thread  *)
(* makes, the renderer's callbacks, and the image writer thread, whose     *)
(* finished() signal frees the exporter from the worker's own thread.      *)
(*                                                                         *)
(* A WithExporter scope whose body touches nothing but what the mutex      *)
(* guards is one action.  The two scopes that also restart the writer,     *)
(* at the end of vfhInit() and in vfhExportView(), hold mtx across the     *)
(* steps of restart().                                                     *)
(***************************************************************************)
EXTENDS ImdisplayThread

CONSTANTS
  MaxMsgs,    \* bound: the renderer adds while nextId <= MaxMsgs
  MaxCalls    \* bound: SOHO invocations

ASSUME BoundsAssumption == MaxMsgs \in Nat /\ MaxCalls \in Nat

VARIABLES
  mpc,        \* where the UI thread is in a call; "crash": undefined behaviour
  mtx,        \* exporterMtx: "free" or "main"
  ex,         \* the exporter: gen 0 is the null pointer
  rendering,  \* the exporter's renderer is rendering
  conns,      \* connections of finished() to freeExporter()
  slots,      \* calls of freeExporter() the finishing worker still makes;
              \* -1: finished() is not being emitted
  emitGen,    \* the exporter's gen when finished() was emitted
  calls,      \* SOHO invocations so far
  gens        \* exporters allocated so far

svars == <<mpc, mtx, ex, rendering, conns, slots, emitGen, calls, gens>>
vars  == <<tvars, svars>>

NullExporter == [gen |-> 0, rop |-> FALSE, vray |-> FALSE, bound |-> FALSE]

\* The scopes that restart the writer, step by step.
InitHolds == {"i_set", "i_clear", "i_start", "i_connect", "i_header"}
ViewHolds == {"v_set", "v_clear", "v_start", "v_header"}
HoldPcs   == InitHolds \cup ViewHolds

InitPcs == {"i_alloc", "i_rop", "i_mode", "i_init", "i_bind", "i_scene"}
MainPcs == {"idle", "crash", "u_valid", "u_time", "u_view"} \cup InitPcs \cup HoldPcs

TypeOK ==
  /\ ThreadTypeOK
  /\ mpc \in MainPcs
  /\ mtx \in {"free", "main"}
  /\ ex \in [gen : Nat, rop : BOOLEAN, vray : BOOLEAN, bound : BOOLEAN]
  /\ rendering \in BOOLEAN
  /\ conns \in Nat
  /\ slots \in Nat \cup {-1}
  /\ emitGen \in Nat
  /\ calls \in 0 .. MaxCalls
  /\ gens \in Nat

Init ==
  /\ ThreadInit
  /\ mpc = "idle" /\ mtx = "free" /\ ex = NullExporter
  /\ rendering = FALSE /\ conns = 0 /\ slots = -1 /\ emitGen = 0
  /\ calls = 0 /\ gens = 0

\* The UI thread goes on to pc; only the session changes.
Goto(pc) ==
  /\ mpc' = pc
  /\ UNCHANGED <<tvars, conns, slots, emitGen>>

\* The body of a scope at pc that runs only when there is an exporter.
Scope(pc) == mpc = pc /\ mtx = "free"
Skip(pc, next) ==
  /\ Scope(pc) /\ ex.gen = 0
  /\ Goto(next)
  /\ UNCHANGED <<mtx, ex, rendering, calls, gens>>

-----------------------------------------------------------------------------
(* vfh_ipr.py: one invocation of the SOHO program. *)

Generate ==
  /\ mpc = "idle" /\ calls < MaxCalls
  /\ calls' = calls + 1
  /\ Goto("i_alloc")
  /\ UNCHANGED <<mtx, ex, rendering, gens>>

\* isRopValid() first reads the pointer without the mutex.
Update ==
  /\ mpc = "idle" /\ calls < MaxCalls
  /\ calls' = calls + 1
  /\ Goto(IF ex.gen = 0 THEN "i_alloc" ELSE "u_valid")
  /\ UNCHANGED <<mtx, ex, rendering, gens>>

\* isRopValid() under the mutex: an exporter that was freed since the
\* unguarded read counts as valid.
IsRopValid ==
  /\ Scope("u_valid")
  /\ Goto(IF ex.gen # 0 /\ ~ex.rop THEN "i_alloc" ELSE "u_time")
  /\ UNCHANGED <<mtx, ex, rendering, calls, gens>>

\* setTime(): a new time reaches the renderer through getVRay().
SetTime ==
  /\ Scope("u_time")
  /\ \/ Goto("u_view")
     \/ ex.gen # 0 /\ ~ex.vray /\ Goto("crash")
  /\ UNCHANGED <<mtx, ex, rendering, calls, gens>>

\* exportView(): nothing without an exporter; a changed resolution restarts
\* the writer, under the mutex.
ExportView ==
  /\ Scope("u_view") /\ ex.gen # 0
  /\ IF ~ex.vray
       THEN Goto("crash") /\ UNCHANGED mtx
       ELSE \/ Goto("idle") /\ UNCHANGED mtx
            \/ Goto("v_set") /\ mtx' = "main"
  /\ UNCHANGED <<ex, rendering, calls, gens>>

-----------------------------------------------------------------------------
(* vfhInit(), one scope after the other. *)

\* Mutant: a new exporter is allocated although there is one.
InitAllocAlways ==
  /\ Scope("i_alloc")
  /\ ex' = [NullExporter EXCEPT !.gen = gens + 1] /\ gens' = gens + 1
  /\ Goto("i_rop")
  /\ UNCHANGED <<mtx, rendering, calls>>

InitAlloc ==
  /\ Scope("i_alloc")
  /\ IF ex.gen = 0
       THEN ex' = [NullExporter EXCEPT !.gen = gens + 1] /\ gens' = gens + 1
       ELSE UNCHANGED <<ex, gens>>
  /\ Goto("i_rop")
  /\ UNCHANGED <<mtx, rendering, calls>>

\* setRopPtr() and initRenderer(): a renderer that exists is reset, which
\* unbinds callbacks and clears the scene; creating one may fail, which ends
\* the call and leaves the exporter.
InitRop ==
  /\ Scope("i_rop") /\ ex.gen # 0
  /\ IF ex.vray
       THEN /\ ex' = [ex EXCEPT !.rop = TRUE, !.bound = FALSE]
            /\ Goto("i_mode")
       ELSE \/ ex' = [ex EXCEPT !.rop = TRUE, !.vray = TRUE] /\ Goto("i_mode")
            \/ ex' = [ex EXCEPT !.rop = TRUE] /\ Goto("idle")
  /\ rendering' = FALSE
  /\ UNCHANGED <<mtx, calls, gens>>

\* setDRSettings(), setRenderMode(), setExportMode().
InitMode ==
  /\ Scope("i_mode") /\ ex.gen # 0
  /\ Goto(IF ex.vray THEN "i_init" ELSE "crash")
  /\ UNCHANGED <<mtx, ex, rendering, calls, gens>>

\* initExporter() and setExportTime().
InitExporter ==
  /\ Scope("i_init") /\ ex.gen # 0
  /\ Goto(IF ex.vray THEN "i_bind" ELSE "crash")
  /\ UNCHANGED <<mtx, ex, rendering, calls, gens>>

InitBind ==
  /\ Scope("i_bind") /\ ex.gen # 0
  /\ ex' = [ex EXCEPT !.bound = ex.vray]
  /\ Goto(IF ex.vray THEN "i_scene" ELSE "crash")
  /\ UNCHANGED <<mtx, rendering, calls, gens>>

\* exportSettings() may fail; otherwise view and scene are exported and the
\* frame is rendered, unless the work mode is export only.
InitScene ==
  /\ Scope("i_scene") /\ ex.gen # 0
  /\ \/ Goto("idle") /\ UNCHANGED <<mtx, rendering>>
     \/ Goto("i_set") /\ mtx' = "main" /\ rendering' \in BOOLEAN
  /\ UNCHANGED <<ex, calls, gens>>

SkipScope ==
  \/ Skip("i_rop", "i_mode") \/ Skip("i_mode", "i_init")
  \/ Skip("i_init", "i_bind") \/ Skip("i_bind", "i_scene")
  \/ Skip("i_scene", "idle") \/ Skip("u_view", "idle")

\* restart() and initImdisplay(), with the mutex held.
At(pcs, next) ==
  /\ mpc \in pcs
  /\ mpc' = next
  /\ UNCHANGED <<ex, rendering, conns, slots, emitGen, calls, gens>>

InHold(pc, action, next) == At({pc}, next) /\ action /\ UNCHANGED mtx

CallRestart ==
  \/ InHold("i_set", RestartSet, "i_clear")
  \/ InHold("i_clear", RestartClear, "i_start")
  \/ InHold("i_start", RestartStart, "i_connect")
  \/ InHold("v_set", RestartSet, "v_clear")
  \/ InHold("v_clear", RestartClear, "v_start")
  \/ InHold("v_start", RestartStart, "v_header")

\* Every vfhInit() connects finished() once more.
Connect ==
  /\ mpc = "i_connect"
  /\ mpc' = "i_header" /\ conns' = conns + 1
  /\ UNCHANGED <<tvars, mtx, ex, rendering, slots, emitGen, calls, gens>>

\* Mutant: the scope is left without unlocking exporterMtx.
InitImdisplayKeepsLock ==
  /\ At({"i_header", "v_header"}, "idle")
  /\ Add("Header")
  /\ UNCHANGED mtx

InitImdisplay ==
  /\ At({"i_header", "v_header"}, "idle")
  /\ Add("Header")
  /\ mtx' = "free"

-----------------------------------------------------------------------------
(* The worker's end: finished() is delivered by direct calls of the slots    *)
(* that were connected when it was emitted, before the thread counts as      *)
(* finished.                                                                 *)

EmitFinished ==
  /\ wpc = "finish" /\ slots = -1
  /\ slots' = conns /\ emitGen' = ex.gen
  /\ UNCHANGED <<tvars, mpc, mtx, ex, rendering, conns, calls, gens>>

\* Mutant: freeExporter() does not lock.
FreeUnlocked ==
  /\ slots > 0
  /\ slots' = slots - 1
  /\ ex' = NullExporter
  /\ rendering' = FALSE
  /\ UNCHANGED <<tvars, mpc, mtx, conns, emitGen, calls, gens>>

\* freeExporter(): reset() and delete, under the mutex.
FreeExporter ==
  /\ slots > 0 /\ mtx = "free"
  /\ slots' = slots - 1
  /\ ex' = NullExporter
  /\ rendering' = FALSE
  /\ UNCHANGED <<tvars, mpc, mtx, conns, emitGen, calls, gens>>

\* Mutant: the thread ends without waiting for the slots of finished().
SignalLost ==
  /\ slots >= 0
  /\ WorkerFinished
  /\ slots' = -1
  /\ UNCHANGED <<mpc, mtx, ex, rendering, conns, emitGen, calls, gens>>

SignalDone ==
  /\ slots = 0
  /\ WorkerFinished
  /\ slots' = -1
  /\ UNCHANGED <<mpc, mtx, ex, rendering, conns, emitGen, calls, gens>>

-----------------------------------------------------------------------------

RendererAdds ==
  /\ rendering /\ ex.bound
  /\ nextId <= MaxMsgs
  /\ \E type \in {"Tiles", "Progress"} : Add(type)
  /\ UNCHANGED svars

Worker == (WorkerRun /\ UNCHANGED svars) \/ EmitFinished \/ SignalDone
User   == ViewerCloses /\ UNCHANGED svars
Soho   == Generate \/ Update
InCall ==
  \/ IsRopValid \/ SetTime \/ ExportView
  \/ InitAlloc \/ InitRop \/ InitMode \/ InitExporter \/ InitBind \/ InitScene
  \/ SkipScope
  \/ CallRestart \/ Connect \/ InitImdisplay

\* A crash ends the process.
Next ==
  /\ mpc # "crash"
  /\ Soho \/ InCall \/ Worker \/ FreeExporter \/ RendererAdds \/ User

\* The scheduler runs the worker and a call that can go on; a thread that waits
\* for a mutex which is free again and again gets it.
Fairness ==
  /\ WF_vars(InCall /\ mpc # "crash")
  /\ WF_vars(Worker /\ mpc # "crash")
  /\ SF_vars(FreeExporter /\ mpc # "crash")

Spec == Init /\ [][Next]_vars /\ Fairness

-----------------------------------------------------------------------------
(* Properties *)

\* The UI thread waits in QThread::start() with exporterMtx held, for a worker
\* whose freeExporter() waits for exporterMtx.
WaitCycle ==
  /\ mpc \in {"i_start", "v_start"} /\ mtx = "main"
  /\ wpc = "finish" /\ slots > 0

\* A scope that restarts the writer goes on using the exporter and its renderer
\* afterwards (initImdisplay() at vfh_ipr.cpp:277 and :449): the worker, whose
\* end frees the exporter, can not take it away in between.
GuardedUse ==
  mpc \in HoldPcs => mtx = "main" /\ ex.gen # 0 /\ ex.rop /\ ex.vray

\* vfhInit() unlocks between its scopes, and the exporter may be freed there.
\* Each later scope finds either none or the one the earlier scopes prepared,
\* never another that is half initialised.
ScopesAgree ==
  ex.gen # 0 =>
    /\ mpc \in {"i_mode", "i_init", "i_bind", "i_scene"} => ex.rop /\ ex.vray
    /\ mpc = "i_scene" => ex.bound

\* The exporter is freed only when run() has returned, and the first slot of a
\* finished() frees the exporter that was current when it was emitted: an
\* exporter allocated later survives it.
FirstSlotFreesItsSession ==
  [][ex.gen # 0 /\ ex'.gen = 0 =>
       wpc = "finish" /\ (slots = conns => ex.gen = emitGen)]_vars

\* Every SOHO call returns, unless it is caught in the wait cycle.
CallsReturn == mpc # "idle" ~> (mpc = "idle" \/ WaitCycle \/ mpc = "crash")

\* Once the writer leaves its loop with finished() connected, the exporter of
\* the session is freed, unless the wait cycle prevents it.
SessionFreed ==
  \A g \in 1 .. MaxCalls :
    (wpc = "tail" /\ conns > 0 /\ ex.gen = g)
      ~> (ex.gen # g \/ WaitCycle \/ mpc = "crash")

\* restart() does what its comment says, "Restarts image writer thread."
\* (vfh_ipr_imdisplay_viewer.h:124): a call of it returns, although vfhInit() and
\* vfhExportView() make it with exporterMtx held.
RestartReturns == ~WaitCycle

=============================================================================
