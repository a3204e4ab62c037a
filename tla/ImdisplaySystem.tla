--------------------------- MODULE ImdisplaySystem ---------------------------
(***************************************************************************)
(* The image writer thread with the threads that use it: the UI thread,    *)
(* which restarts it and announces a new resolution (vfhInit() and         *)
(* vfhExportView() both do exactly this) and destroys it when the module   *)
(* is unloaded, and the renderer's threads, whose callbacks add images and *)
(* progress.  The render is started before the first restart().            *)
(***************************************************************************)
EXTENDS ImdisplayThread

CONSTANTS
  MaxMsgs,      \* bound: the renderer adds while nextId <= MaxMsgs
  MaxRestarts   \* bound: restarts by the UI thread

ASSUME BoundsAssumption == MaxMsgs \in Nat /\ MaxRestarts \in Nat

VARIABLES
  cpc,        \* where the UI thread is
  restarts    \* restarts begun

vars == <<tvars, cpc, restarts>>

TypeOK ==
  /\ ThreadTypeOK
  /\ cpc \in {"idle", "clear", "start", "header", "join", "gone"}
  /\ restarts \in 0 .. MaxRestarts

Init == ThreadInit /\ cpc = "idle" /\ restarts = 0

UiRestart ==
  /\ cpc = "idle" /\ restarts < MaxRestarts
  /\ RestartSet
  /\ cpc' = "clear" /\ restarts' = restarts + 1

UiClear  == cpc = "clear" /\ RestartClear /\ cpc' = "start" /\ UNCHANGED restarts
UiStart  == cpc = "start" /\ RestartStart /\ cpc' = "header" /\ UNCHANGED restarts
UiHeader == cpc = "header" /\ Add("Header") /\ cpc' = "idle" /\ UNCHANGED restarts

\* ~ImdisplayThread(): isRunning is cleared and the thread is waited for.
UiDestroy == cpc = "idle" /\ Stop /\ cpc' = "join" /\ UNCHANGED restarts
UiJoin ==
  /\ cpc = "join" /\ wpc = "none"
  /\ cpc' = "gone"
  /\ UNCHANGED <<tvars, restarts>>

\* onBucketReady(), onProgressiveImageUpdated(), onStateChanged(): images;
\* onProgress(): progress.
RendererAdds ==
  /\ restarts > 0 /\ cpc # "gone"
  /\ nextId <= MaxMsgs
  /\ \E type \in {"Tiles", "Progress"} : Add(type)
  /\ UNCHANGED <<cpc, restarts>>

Worker == (WorkerRun \/ WorkerFinished) /\ UNCHANGED <<cpc, restarts>>
User   == ViewerCloses /\ UNCHANGED <<cpc, restarts>>

Next ==
  \/ UiRestart \/ UiClear \/ UiStart \/ UiHeader \/ UiDestroy \/ UiJoin
  \/ RendererAdds
  \/ Worker
  \/ User

\* The scheduler runs the worker and a UI thread inside a call; nothing makes
\* the user, the renderer or the next call happen.
Fairness ==
  /\ WF_vars(Worker)
  /\ WF_vars(UiClear) /\ WF_vars(UiStart) /\ WF_vars(UiHeader) /\ WF_vars(UiJoin)

Spec == Init /\ [][Next]_vars /\ Fairness

-----------------------------------------------------------------------------
(* The queue implements the mailboxes of TileMailbox. *)

\* The stamp of the message of type k in queue Q, 0 for none.
Newest(Q, k) ==
  LET waiting == {m \in Q : m.type = k}
  IN  IF waiting = {} THEN 0 ELSE (CHOOSE m \in waiting : TRUE).id

Mailbox == INSTANCE TileMailbox WITH
  latest <- [k \in MsgTypes |-> Newest(queue, k)],
  last   <- nextId - 1,
  hand   <- msg

\* Whatever the threads interleave, the worker sees the newest message of each
\* kind, headers first, and never a message that a newer one had replaced.
ImplementsMailbox == Mailbox!Spec

\* The wait() of the destructor returns, however many images the renderer
\* goes on adding.
DestructorReturns == cpc = "join" ~> cpc = "gone"

=============================================================================
