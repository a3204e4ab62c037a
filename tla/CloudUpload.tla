----------------------------- MODULE CloudUpload ------------------------------
(***************************************************************************)
(* Submission of a scene to V-Ray Cloud: the end of a cloud session writes *)
(* the scene to a file of a fixed name in the temporary directory and      *)
(* hands it to the command line client, which runs as an external process. *)
(* With a UI a window runs the client, one command after the other, and    *)
(* removes the file when it goes; without one the calls block.             *)
(*                                                                         *)
(* Everything but the client process and the user is Houdini's UI thread,  *)
(* so a signal of the process, a click or a deferred deletion is handled   *)
(* only between two exports.                                               *)
(***************************************************************************)
EXTENDS Integers, Sequences

CONSTANT MaxJobs   \* bound: cloud sessions that end

ASSUME MaxJobsAssumption == MaxJobs \in Nat \ {0}

VARIABLES
  ui,        \* Houdini runs with its UI
  client,    \* vrayCloudClient: "unchecked", "found", "missing"
  upc,       \* UI thread: "idle", or where it is in exportEnd()
  jobs,      \* the last cloud session that was started
  file,      \* session whose scene the temporary file holds, 0: no file
  stuck,     \* a removal of the file has failed
  win,       \* cloudWindowInstance and the job file it owns
  closing,   \* the window accepted a close event and will be deleted
  dialog,    \* closeEvent() is asking the user, in an event loop of its own
  cmds,      \* commands the window has not started yet
  proc,      \* the client's state: the command it runs, or "none"
  created,   \* sessions whose project the client has created
  got        \* session -> the scene the client read for it, -1: none yet

vars == <<ui, client, upc, jobs, file, stuck, win, closing, dialog, cmds, proc,
          created, got>>

NoWindow == [kind |-> "none", job |-> 0]
Window   == {NoWindow, [kind |-> "notfound", job |-> 0]}
              \cup [kind : {"upload"}, job : 1 .. MaxJobs]

Commands == <<"create", "submit">>

TypeOK ==
  /\ ui \in BOOLEAN
  /\ client \in {"unchecked", "found", "missing"}
  /\ upc \in {"idle", "create", "write", "submit", "block"}
  /\ jobs \in 0 .. MaxJobs
  /\ file \in 0 .. MaxJobs
  /\ stuck \in BOOLEAN
  /\ win \in Window
  /\ closing \in BOOLEAN /\ dialog \in BOOLEAN
  /\ cmds \in {<<>>, <<"submit">>, Commands}
  /\ proc \in {"none", "create", "submit"}
  /\ created \subseteq 1 .. MaxJobs
  /\ got \in [1 .. MaxJobs -> -1 .. MaxJobs]

Init ==
  /\ ui \in BOOLEAN /\ client = "unchecked"
  /\ upc = "idle" /\ jobs = 0
  /\ file = 0 /\ stuck = FALSE
  /\ win = NoWindow /\ closing = FALSE /\ dialog = FALSE
  /\ cmds = <<>> /\ proc = "none"
  /\ created = {} /\ got = [j \in 1 .. MaxJobs |-> -1]

windowVars == <<win, closing, dialog, cmds, proc, created, got>>

\* Mutant: the file is not removed.
RemoveNothing == UNCHANGED <<file, stuck>>

\* JobFilePath::removeFilePath(): removing a file that is there may fail.
RemoveFile ==
  \/ file' = 0 /\ UNCHANGED stuck
  \/ file # 0 /\ stuck' = TRUE /\ UNCHANGED file

-----------------------------------------------------------------------------
(* The session: isClientAvailable() when it starts, exportEnd() at its end. *)

\* findVRayCloudClient() looks for the client once; without it there is no
\* session but a window that says so.  A modal question blocks the user.
StartSession ==
  /\ upc = "idle" /\ ~dialog /\ jobs < MaxJobs
  /\ client' \in IF client = "unchecked" THEN {"found", "missing"} ELSE {client}
  /\ IF client' = "found"
       THEN /\ jobs' = jobs + 1
            /\ upc' = "create"
            /\ UNCHANGED win
       ELSE /\ win' = IF ui /\ win = NoWindow
                        THEN [kind |-> "notfound", job |-> 0] ELSE win
            /\ UNCHANGED <<jobs, upc>>
  /\ UNCHANGED <<ui, file, stuck, closing, dialog, cmds, proc, created, got>>

\* The session is aborted, or the temporary directory is not writable; or else
\* createFilePath() makes way for the file.
CreateFilePath ==
  /\ upc = "create"
  /\ \/ upc' = "idle" /\ UNCHANGED <<file, stuck>>
     \/ upc' = "write" /\ RemoveFile
  /\ UNCHANGED <<ui, client, jobs, windowVars>>

\* exportVrscene(): the scene is written; or nothing is, and the result is 0
\* all the same (mkpath() failed, Houdini Indie); or it fails.
ExportVrscene ==
  /\ upc = "write"
  /\ \/ file' = jobs /\ upc' = "submit" /\ UNCHANGED stuck
     \/ upc' = "submit" /\ UNCHANGED <<file, stuck>>
     \/ upc' = "idle" /\ RemoveFile
  /\ UNCHANGED <<ui, client, jobs, windowVars>>

\* submitJob() with a UI: a window, if there is none, which starts the first
\* command; otherwise nothing.
SubmitJob ==
  /\ upc = "submit" /\ ui
  /\ upc' = "idle"
  /\ IF win = NoWindow
       THEN /\ win' = [kind |-> "upload", job |-> jobs]
            /\ proc' = Head(Commands) /\ cmds' = Tail(Commands)
       ELSE UNCHANGED <<win, proc, cmds>>
  /\ UNCHANGED <<ui, client, jobs, file, stuck, closing, dialog, created, got>>

\* submitJob() without a UI: one blocking call per command, whatever the
\* commands return, then the file is removed.
BlockingSubmit ==
  /\ upc = "submit" /\ ~ui
  /\ upc' = "block"
  /\ created' \in {created, created \cup {jobs}}
  /\ got' \in {got, [got EXCEPT ![jobs] = file]}
  /\ UNCHANGED <<ui, client, jobs, file, stuck, win, closing, dialog, cmds, proc>>

BlockingDone ==
  /\ upc = "block"
  /\ upc' = "idle"
  /\ RemoveFile
  /\ UNCHANGED <<ui, client, jobs, windowVars>>

-----------------------------------------------------------------------------
(* The client process. *)

\* The submit command opens the scene file once, at some time of its run.
ClientReads ==
  /\ proc = "submit" /\ got[win.job] = -1
  /\ got' = [got EXCEPT ![win.job] = file]
  /\ UNCHANGED <<ui, client, upc, jobs, file, stuck, win, closing, dialog, cmds,
                 proc, created>>

\* onProcFinished(): the next command, if any is left, whatever the exit code.
ClientExits ==
  /\ upc = "idle" /\ proc # "none"
  /\ created' = IF proc = "create" THEN created \cup {win.job} ELSE created
  /\ IF cmds = <<>>
       THEN proc' = "none" /\ UNCHANGED cmds
       ELSE proc' = Head(cmds) /\ cmds' = Tail(cmds)
  /\ UNCHANGED <<ui, client, upc, jobs, file, stuck, win, closing, dialog, got>>

\* A client that fails to start or crashes: onProcError() drops the commands
\* that are left, before onProcFinished() can start one.
ClientFails ==
  /\ upc = "idle" /\ proc # "none"
  /\ proc' = "none" /\ cmds' = <<>>
  /\ UNCHANGED <<ui, client, upc, jobs, file, stuck, win, closing, dialog,
                 created, got>>

-----------------------------------------------------------------------------
(* The window. *)

Busy == proc # "none" \/ cmds # <<>>

\* Mutant: the commands that are left stay in the queue.
TerminateKeepsCommands ==
  IF proc = "none"
    THEN UNCHANGED <<proc, cmds>>
    ELSE proc' \in {"none", proc} /\ UNCHANGED cmds

\* terminateProcess(): the client is asked to stop and may not do so in time.
TerminateProcess ==
  IF proc = "none"
    THEN UNCHANGED <<proc, cmds>>
    ELSE cmds' = <<>> /\ proc' \in {"none", proc}

\* The user closes the window or presses Abort: a busy window asks first.
Close ==
  /\ upc = "idle" /\ win # NoWindow /\ ~closing /\ ~dialog
  /\ IF Busy
       THEN dialog' = TRUE /\ UNCHANGED <<closing, proc, cmds>>
       ELSE closing' = TRUE /\ TerminateProcess /\ UNCHANGED dialog
  /\ UNCHANGED <<ui, client, upc, jobs, file, stuck, win, created, got>>

Cancel ==
  /\ dialog /\ dialog' = FALSE
  /\ UNCHANGED <<ui, client, upc, jobs, file, stuck, win, closing, cmds, proc,
                 created, got>>

Confirm ==
  /\ dialog /\ dialog' = FALSE
  /\ closing' = TRUE
  /\ TerminateProcess
  /\ UNCHANGED <<ui, client, upc, jobs, file, stuck, win, created, got>>

\* Mutant: the client is detached from its QProcess and goes on.
DeleteDetaches ==
  /\ upc = "idle" /\ closing
  /\ closing' = FALSE
  /\ win' = NoWindow
  /\ IF win.kind = "upload" THEN RemoveFile ELSE UNCHANGED <<file, stuck>>
  /\ UNCHANGED <<ui, client, upc, jobs, dialog, cmds, proc, created, got>>

\* ~CloudWindow(): its job file goes before its QProcess, whose destructor
\* kills a client that is still there.
DeleteWindow ==
  /\ upc = "idle" /\ closing
  /\ closing' = FALSE
  /\ win' = NoWindow
  /\ proc' = "none" /\ cmds' = <<>>
  /\ IF win.kind = "upload" THEN RemoveFile ELSE UNCHANGED <<file, stuck>>
  /\ UNCHANGED <<ui, client, upc, jobs, dialog, created, got>>

Export == CreateFilePath \/ ExportVrscene \/ SubmitJob \/ BlockingSubmit \/ BlockingDone
Client == ClientReads \/ ClientExits \/ ClientFails

Next ==
  \/ StartSession \/ Export
  \/ Client
  \/ Close \/ Cancel \/ Confirm \/ DeleteWindow

Spec == Init /\ [][Next]_vars

-----------------------------------------------------------------------------

\* A client process belongs to an upload window: no abort, close or deletion
\* leaves one running that nothing listens to.
NoOrphanClient == Busy => win.kind = "upload"

\* A scene is submitted only after the client has run the creation of its
\* project, also when a client crashes while the user is asked whether to
\* abort.
SubmitFollowsCreate ==
  proc = "submit" => win.job \in created

\* Once the window is gone and the export is over, the temporary scene is gone
\* too, that of a session whose submission was dropped included, unless a
\* removal failed.  (In a session with a UI a dropped scene waits for the
\* window that was in its way.)
NoSceneLeftBehind ==
  file # 0 => stuck \/ win # NoWindow \/ upc \in {"submit", "block"}

\* After an accepted close no further command is started.
NothingStartsAfterClose == [][closing => proc' \in {"none", proc} /\ cmds' = <<>>]_vars

\* The client is given the scene of its own session or one exported later, to
\* the same path, never that of an earlier one, unless a removal failed.
NeverAnOlderScene ==
  \A j \in 1 .. MaxJobs : got[j] >= j \/ got[j] \in {-1, 0} \/ stuck

=============================================================================
