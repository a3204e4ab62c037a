--------------------------- MODULE CloudLogProofs ----------------------------
(***************************************************************************)
(* Two services of the exporters.  Cloud upload: safety of CloudUpload for *)
(* any number of cloud sessions (who owns the client process, the order of *)
(* its commands and what becomes of the scene file, whatever fails and     *)
(* whatever the user does meanwhile).  And the log: the order in which the *)
(* thread of LogThread prints, for any number of threads that log, of      *)
(* messages and of starts and stops of the log thread.                     *)
(***************************************************************************)
EXTENDS CloudUpload, LogThread, SequenceTheorems, TLAPS

-----------------------------------------------------------------------------
(* The submission to the cloud (CloudUpload). *)

\* The two commands of a submission, as a sequence is taken apart.
LEMMA CommandFacts ==
  /\ Head(Commands) = "create" /\ Tail(Commands) = <<"submit">>
  /\ Head(<<"submit">>) = "submit" /\ Tail(<<"submit">>) = <<>>
  /\ <<"submit">> # <<>> /\ Commands # <<>>
BY DEF Commands

LEMMA WindowFacts ==
  /\ NoWindow.kind = "none" /\ NoWindow.job = 0
  /\ \A w \in Window :
       /\ w.kind \in {"none", "notfound", "upload"} /\ w.job \in 0 .. MaxJobs
       /\ w.kind = "none" => w = NoWindow
       /\ w.kind = "upload" => w.job \in 1 .. MaxJobs
BY MaxJobsAssumption DEF Window, NoWindow

\* The commands that are left, the client that runs and the window they belong to.
QueueInv ==
  /\ proc \in {"none", "submit"} => cmds = <<>>
  /\ cmds \in {<<>>, <<"submit">>}
  /\ proc # "none" => win.kind = "upload"
  /\ SubmitFollowsCreate

\* A close is accepted, or asked about, only of a window that is there.
CloseInv ==
  /\ closing => win # NoWindow /\ ~dialog /\ cmds = <<>>
  /\ dialog => win # NoWindow

\* The scene a session hands over, and that of the session a window is for.
SceneInv ==
  /\ upc # "idle" => jobs \in 1 .. MaxJobs
  /\ client # "found" => jobs = 0 /\ upc = "idle" /\ file = 0
  /\ win.kind = "notfound" => client = "missing"
  /\ upc = "write" => file = 0 \/ stuck
  /\ upc \in {"submit", "block"} => file \in {0, jobs} \/ stuck
  /\ win.kind = "upload" => win.job <= jobs /\ (file = 0 \/ file >= win.job \/ stuck)
  /\ NoSceneLeftBehind
  /\ NeverAnOlderScene

IInv == TypeOK /\ QueueInv /\ CloseInv /\ SceneInv

\* Removing the file empties it, or fails and says so.
LEMMA RemoveFacts ==
  ASSUME TypeOK, RemoveFile
  PROVE  /\ file' \in 0 .. MaxJobs /\ stuck' \in BOOLEAN
         /\ file' = 0 \/ (stuck' /\ file' = file)
         /\ stuck => stuck'
<1>1. CASE file' = 0 /\ UNCHANGED stuck
  <2>1. 0 \in 0 .. MaxJobs
    BY MaxJobsAssumption
  <2> QED BY <1>1, <2>1, Zenon DEF TypeOK
<1>2. CASE file # 0 /\ stuck' = TRUE /\ UNCHANGED file
  BY <1>2, Zenon DEF TypeOK
<1> QED BY <1>1, <1>2, Zenon DEF RemoveFile

\* A client that is asked to stop may go on, without further commands.
LEMMA TerminateFacts ==
  ASSUME QueueInv, TerminateProcess
  PROVE  cmds' = <<>> /\ proc' \in {"none", proc}
BY DEF QueueInv, TerminateProcess

LEMMA IInit == Init => IInv
<1> SUFFICES ASSUME Init PROVE IInv
  OBVIOUS
<1> USE MaxJobsAssumption, WindowFacts DEF Init
<1>1. TypeOK
  <2>1. jobs \in 0 .. MaxJobs /\ file \in 0 .. MaxJobs
    OBVIOUS
  <2>2. got \in [1 .. MaxJobs -> -1 .. MaxJobs]
    OBVIOUS
  <2>3. created \subseteq 1 .. MaxJobs
    OBVIOUS
  <2>4. win \in Window
    BY DEF Window
  <2> QED BY <2>1, <2>2, <2>3, <2>4, Zenon DEF TypeOK
<1>2. QueueInv /\ CloseInv
  BY DEF QueueInv, CloseInv, SubmitFollowsCreate
<1>3. SceneInv
  BY DEF SceneInv, NoSceneLeftBehind, NeverAnOlderScene
<1> QED BY <1>1, <1>2, <1>3 DEF IInv

-----------------------------------------------------------------------------
(* The steps of a session. *)

LEMMA SessionStarts == IInv /\ StartSession => IInv'
<1> SUFFICES ASSUME IInv, StartSession PROVE IInv'
  OBVIOUS
<1> USE MaxJobsAssumption, WindowFacts DEF IInv
<1>1. /\ upc = "idle" /\ ~dialog /\ jobs < MaxJobs
      /\ UNCHANGED <<ui, file, stuck, closing, dialog, cmds, proc, created, got>>
  BY DEF StartSession
<1>2. CASE client' = "found"
  <2>1. jobs' = jobs + 1 /\ upc' = "create" /\ win' = win
    BY <1>2 DEF StartSession
  <2>2. TypeOK'
    BY <1>1, <1>2, <2>1 DEF TypeOK
  <2>3. QueueInv' /\ CloseInv'
    BY <1>1, <2>1 DEF QueueInv, CloseInv, SubmitFollowsCreate
  <2>4. win.kind # "notfound"
    BY <1>2 DEF SceneInv, StartSession
  <2>5. SceneInv'
    BY <1>1, <1>2, <2>1, <2>4 DEF SceneInv, TypeOK, NoSceneLeftBehind, NeverAnOlderScene
  <2> QED BY <2>2, <2>3, <2>5
<1>3. CASE client' # "found"
  <2>1. /\ client # "found" /\ client' = "missing" /\ UNCHANGED <<jobs, upc>>
        /\ \/ win' = win
           \/ win = NoWindow /\ win' = [kind |-> "notfound", job |-> 0]
    BY <1>3 DEF StartSession, TypeOK
  <2>2. TypeOK'
    BY <1>1, <2>1 DEF TypeOK, Window
  <2>3. proc = "none" \/ win' = win
    BY <2>1 DEF QueueInv
  <2>4. QueueInv' /\ CloseInv'
    BY <1>1, <2>1, <2>3 DEF QueueInv, CloseInv, SubmitFollowsCreate
  <2>5. SceneInv'
    BY <1>1, <2>1 DEF SceneInv, TypeOK, NoSceneLeftBehind, NeverAnOlderScene
  <2> QED BY <2>2, <2>4, <2>5
<1> QED BY <1>2, <1>3

\* An export that touches only the file and where the session is.
LEMMA FileStep ==
  ASSUME IInv, UNCHANGED <<ui, client, jobs, windowVars>>,
         upc # "idle", upc' \in {"idle", "write", "submit", "block"},
         \/ upc' = "idle" /\ upc = "create" /\ UNCHANGED <<file, stuck>>
         \/ upc' \in {"idle", "write"} /\ RemoveFile
         \/ upc' = "submit" /\ upc = "write" /\ file' \in {file, jobs} /\ UNCHANGED stuck
  PROVE  IInv'
<1> USE MaxJobsAssumption, WindowFacts DEF IInv, windowVars
<1>1. client = "found" /\ jobs \in 1 .. MaxJobs
  BY DEF SceneInv
<1>2. /\ file' \in 0 .. MaxJobs /\ stuck' \in BOOLEAN /\ (stuck => stuck')
      /\ file' = 0 \/ file' = file \/ file' = jobs
      /\ upc' = "write" => file' = 0 \/ stuck'
      /\ upc' = "idle" /\ upc # "create" => file' = 0 \/ stuck'
  BY <1>1, RemoveFacts DEF TypeOK
<1>3. TypeOK'
  BY <1>1, <1>2 DEF TypeOK
<1>4. QueueInv' /\ CloseInv'
  BY DEF QueueInv, CloseInv, SubmitFollowsCreate
<1>5. /\ upc' = "submit" => file' \in {0, jobs} \/ stuck'
      /\ upc' # "block"
      /\ upc' = "idle" => (file' # 0 => stuck' \/ win # NoWindow)
  BY <1>2, RemoveFacts DEF SceneInv, NoSceneLeftBehind
<1>6. SceneInv'
  BY <1>1, <1>2, <1>5 DEF SceneInv, TypeOK, NoSceneLeftBehind, NeverAnOlderScene
<1> QED BY <1>3, <1>4, <1>6

LEMMA ExportSteps == IInv /\ Export => IInv'
<1> SUFFICES ASSUME IInv, Export PROVE IInv'
  OBVIOUS
<1> USE MaxJobsAssumption, WindowFacts DEF IInv
<1>1. CASE CreateFilePath
  <2>1. /\ upc = "create" /\ UNCHANGED <<ui, client, jobs, windowVars>>
        /\ \/ upc' = "idle" /\ UNCHANGED <<file, stuck>>
           \/ upc' = "write" /\ RemoveFile
    BY <1>1 DEF CreateFilePath
  <2> QED BY <2>1, FileStep
<1>2. CASE ExportVrscene
  <2>1. /\ upc = "write" /\ UNCHANGED <<ui, client, jobs, windowVars>>
        /\ \/ upc' = "submit" /\ file' \in {file, jobs} /\ UNCHANGED stuck
           \/ upc' = "idle" /\ RemoveFile
    BY <1>2 DEF ExportVrscene
  <2> QED BY <2>1, FileStep
<1>3. CASE SubmitJob
  <2>1. /\ upc = "submit" /\ upc' = "idle"
        /\ UNCHANGED <<ui, client, jobs, file, stuck, closing, dialog, created, got>>
        /\ jobs \in 1 .. MaxJobs /\ client = "found"
    BY <1>3 DEF SubmitJob, SceneInv
  <2>2. CASE win = NoWindow
    <3>1. /\ win' = [kind |-> "upload", job |-> jobs] /\ win' # NoWindow
          /\ win'.kind = "upload" /\ win'.job = jobs
          /\ proc' = "create" /\ cmds' = <<"submit">>
      <4>1. /\ win' = [kind |-> "upload", job |-> jobs]
            /\ proc' = Head(Commands) /\ cmds' = Tail(Commands)
        BY <1>3, <2>2 DEF SubmitJob
      <4>2. win'.kind = "upload" /\ win'.job = jobs
        BY <4>1
      <4>3. win' # NoWindow
        BY <4>2 DEF NoWindow
      <4>4. proc' = "create" /\ cmds' = <<"submit">>
        BY <4>1, CommandFacts, Zenon
      <4> QED BY <4>1, <4>2, <4>3, <4>4, Zenon
    <3>2. TypeOK'
      <4>1. win' \in Window
        BY <2>1, <3>1 DEF Window
      <4> QED BY <2>1, <3>1, <4>1 DEF TypeOK
    <3>3. QueueInv'
      BY <3>1 DEF QueueInv, SubmitFollowsCreate
    <3>4. CloseInv'
      BY <2>1, <2>2, <3>1 DEF CloseInv
    <3>5. file = 0 \/ file >= jobs \/ stuck
      BY <2>1 DEF SceneInv, TypeOK
    <3>6. SceneInv'
      BY <2>1, <3>1, <3>5 DEF SceneInv, TypeOK, NoSceneLeftBehind, NeverAnOlderScene
    <3> QED BY <3>2, <3>3, <3>4, <3>6
  <2>3. CASE win # NoWindow
    <3>1. UNCHANGED <<win, proc, cmds>>
      BY <1>3, <2>3 DEF SubmitJob
    <3>2. TypeOK'
      BY <2>1, <3>1 DEF TypeOK
    <3>3. QueueInv' /\ CloseInv'
      BY <2>1, <3>1 DEF QueueInv, CloseInv, SubmitFollowsCreate
    <3>4. SceneInv'
      BY <2>1, <2>3, <3>1 DEF SceneInv, TypeOK, NoSceneLeftBehind, NeverAnOlderScene
    <3> QED BY <3>2, <3>3, <3>4
  <2> QED BY <2>2, <2>3
<1>4. CASE BlockingSubmit
  <2>1. /\ upc = "submit" /\ upc' = "block" /\ jobs \in 1 .. MaxJobs /\ client = "found"
        /\ UNCHANGED <<ui, client, jobs, file, stuck, win, closing, dialog, cmds, proc>>
        /\ created' \in {created, created \cup {jobs}}
        /\ got' = got \/ got' = [got EXCEPT ![jobs] = file]
    BY <1>4 DEF BlockingSubmit, SceneInv
  <2>2. TypeOK'
    BY <2>1 DEF TypeOK
  <2>3. QueueInv' /\ CloseInv'
    BY <2>1 DEF QueueInv, CloseInv, SubmitFollowsCreate
  <2>4. NeverAnOlderScene'
    BY <2>1 DEF NeverAnOlderScene, SceneInv, TypeOK
  <2>5. SceneInv'
    BY <2>1, <2>4 DEF SceneInv, NoSceneLeftBehind
  <2> QED BY <2>2, <2>3, <2>5
<1>5. CASE BlockingDone
  <2>1. /\ upc = "block" /\ upc' = "idle" /\ RemoveFile
        /\ UNCHANGED <<ui, client, jobs, windowVars>>
    BY <1>5 DEF BlockingDone
  <2> QED BY <2>1, FileStep
<1> QED BY <1>1, <1>2, <1>3, <1>4, <1>5 DEF Export

-----------------------------------------------------------------------------
(* The steps of the client and of the window. *)

LEMMA ClientSteps == IInv /\ Client => IInv'
<1> SUFFICES ASSUME IInv, Client PROVE IInv'
  OBVIOUS
<1> USE MaxJobsAssumption, WindowFacts DEF IInv
<1>1. CASE ClientReads
  <2>1. /\ proc = "submit" /\ got' = [got EXCEPT ![win.job] = file]
        /\ UNCHANGED <<ui, client, upc, jobs, file, stuck, win, closing, dialog, cmds,
                       proc, created>>
    BY <1>1 DEF ClientReads
  <2>2. win.kind = "upload" /\ win.job \in 1 .. MaxJobs
    BY <2>1 DEF QueueInv, TypeOK
  <2>3. TypeOK'
    BY <2>1, <2>2 DEF TypeOK
  <2>4. QueueInv' /\ CloseInv'
    BY <2>1 DEF QueueInv, CloseInv, SubmitFollowsCreate
  <2>5. NeverAnOlderScene'
    BY <2>1, <2>2 DEF NeverAnOlderScene, SceneInv, TypeOK
  <2>6. SceneInv'
    BY <2>1, <2>5 DEF SceneInv, NoSceneLeftBehind
  <2> QED BY <2>3, <2>4, <2>6
<1>2. CASE ClientExits \/ ClientFails
  <2>1. /\ proc # "none" /\ win.kind = "upload" /\ win.job \in 1 .. MaxJobs
        /\ UNCHANGED <<ui, client, upc, jobs, file, stuck, win, closing, dialog, got>>
    BY <1>2 DEF ClientExits, ClientFails, QueueInv, TypeOK
  <2>2. /\ cmds' = <<>> /\ proc' \in {"none", "submit"}
        /\ created \subseteq created' /\ created' \subseteq created \cup {win.job}
        /\ proc' = "submit" => cmds = <<"submit">> /\ win.job \in created'
    BY <1>2, CommandFacts DEF ClientExits, ClientFails, QueueInv, TypeOK
  <2>3. TypeOK'
    BY <2>1, <2>2 DEF TypeOK
  <2>4. QueueInv'
    BY <2>1, <2>2 DEF QueueInv, SubmitFollowsCreate
  <2>5. CloseInv'
    BY <2>1, <2>2 DEF CloseInv
  <2>6. SceneInv'
    BY <2>1 DEF SceneInv, NoSceneLeftBehind, NeverAnOlderScene
  <2> QED BY <2>3, <2>4, <2>5, <2>6
<1> QED BY <1>1, <1>2 DEF Client

\* Asking, cancelling and confirming change the process and the flags alone.
LEMMA CloseStep ==
  ASSUME IInv, UNCHANGED <<ui, client, upc, jobs, file, stuck, win, created, got>>,
         win # NoWindow, closing' \in BOOLEAN, dialog' \in BOOLEAN,
         proc' \in {"none", proc}, cmds' \in {<<>>, cmds},
         proc' \in {"none", "submit"} => cmds' = <<>>,
         closing' => ~dialog' /\ cmds' = <<>>
  PROVE  IInv'
<1> USE MaxJobsAssumption, WindowFacts DEF IInv
<1>1. TypeOK'
  BY DEF TypeOK
<1>2. QueueInv'
  BY DEF QueueInv, SubmitFollowsCreate
<1>3. CloseInv'
  BY DEF CloseInv
<1>4. SceneInv'
  BY DEF SceneInv, NoSceneLeftBehind, NeverAnOlderScene
<1> QED BY <1>1, <1>2, <1>3, <1>4

LEMMA WindowSteps == IInv /\ (Close \/ Cancel \/ Confirm \/ DeleteWindow) => IInv'
<1> SUFFICES ASSUME IInv, Close \/ Cancel \/ Confirm \/ DeleteWindow PROVE IInv'
  OBVIOUS
<1> USE MaxJobsAssumption, WindowFacts DEF IInv
<1>1. CASE Close
  <2>1. /\ win # NoWindow /\ ~closing /\ ~dialog
        /\ UNCHANGED <<ui, client, upc, jobs, file, stuck, win, created, got>>
    BY <1>1 DEF Close
  <2>2. CASE Busy
    <3>1. dialog' = TRUE /\ UNCHANGED <<closing, proc, cmds>>
      BY <1>1, <2>2 DEF Close
    <3> QED BY <2>1, <3>1, CloseStep DEF TypeOK, QueueInv
  <2>3. CASE ~Busy
    <3>1. closing' = TRUE /\ TerminateProcess /\ UNCHANGED dialog
      BY <1>1, <2>3 DEF Close
    <3>2. cmds' = <<>> /\ proc' \in {"none", proc}
      BY <3>1, TerminateFacts
    <3> QED BY <2>1, <3>1, <3>2, CloseStep DEF TypeOK
  <2> QED BY <2>2, <2>3
<1>2. CASE Cancel
  <2>1. /\ dialog /\ dialog' = FALSE
        /\ UNCHANGED <<ui, client, upc, jobs, file, stuck, win, closing, cmds, proc,
                       created, got>>
    BY <1>2 DEF Cancel
  <2> QED BY <2>1, CloseStep DEF TypeOK, QueueInv, CloseInv
<1>3. CASE Confirm
  <2>1. /\ dialog /\ dialog' = FALSE /\ closing' = TRUE /\ TerminateProcess
        /\ UNCHANGED <<ui, client, upc, jobs, file, stuck, win, created, got>>
    BY <1>3 DEF Confirm
  <2>2. cmds' = <<>> /\ proc' \in {"none", proc}
    BY <2>1, TerminateFacts
  <2> QED BY <2>1, <2>2, CloseStep DEF CloseInv
<1>4. CASE DeleteWindow
  <2>1. /\ upc = "idle" /\ closing /\ closing' = FALSE /\ win' = NoWindow
        /\ proc' = "none" /\ cmds' = <<>>
        /\ UNCHANGED <<ui, client, upc, jobs, dialog, created, got>>
        /\ win.kind = "upload" => RemoveFile
        /\ win.kind # "upload" => UNCHANGED <<file, stuck>>
    BY <1>4 DEF DeleteWindow
  <2>2. /\ file' \in 0 .. MaxJobs /\ stuck' \in BOOLEAN /\ (stuck => stuck')
        /\ file' = 0 \/ file' = file
    BY <2>1, RemoveFacts DEF TypeOK
  <2>3. file' = 0 \/ stuck'
    <3>1. CASE win.kind = "upload"
      BY <2>1, <3>1, RemoveFacts
    <3>2. CASE win.kind # "upload"
      <4>1. win.kind = "notfound"
        BY <2>1, <3>2 DEF CloseInv, TypeOK
      <4> QED BY <2>1, <3>2, <4>1 DEF SceneInv
    <3> QED BY <3>1, <3>2
  <2>4. TypeOK'
    BY <2>1, <2>2 DEF TypeOK, Window
  <2>5. QueueInv' /\ CloseInv'
    BY <2>1 DEF QueueInv, CloseInv, SubmitFollowsCreate
  <2>6. SceneInv'
    BY <2>1, <2>2, <2>3 DEF SceneInv, TypeOK, NoSceneLeftBehind, NeverAnOlderScene
  <2> QED BY <2>4, <2>5, <2>6
<1> QED BY <1>1, <1>2, <1>3, <1>4

LEMMA Unchanged == IInv /\ UNCHANGED vars => IInv'
BY DEF IInv, vars, TypeOK, QueueInv, CloseInv, SceneInv, SubmitFollowsCreate,
       NoSceneLeftBehind, NeverAnOlderScene

LEMMA IStep == IInv /\ [Next]_vars => IInv'
BY SessionStarts, ExportSteps, ClientSteps, WindowSteps, Unchanged DEF Next

\* The inductive invariant of any number of sessions.
THEOREM Inductive == Spec => []IInv
<1>1. Init => IInv BY IInit
<1>2. IInv /\ [Next]_vars => IInv' BY IStep
<1> QED BY <1>1, <1>2, PTL DEF Spec

-----------------------------------------------------------------------------
(* What follows from it. *)

\* Type correctness of the upload for any number of sessions.
THEOREM TypeCorrect == Spec => []TypeOK
<1>1. IInv => TypeOK BY DEF IInv
<1> QED BY <1>1, Inductive, PTL

\* No client process runs without the window that listens to it.
THEOREM ClientsHaveWindows == Spec => []NoOrphanClient
<1>1. IInv => NoOrphanClient
  BY DEF IInv, QueueInv, NoOrphanClient, Busy
<1> QED BY <1>1, Inductive, PTL

\* No scene is submitted to a project that the client was not run to create.
THEOREM ProjectsComeFirst == Spec => []SubmitFollowsCreate
<1>1. IInv => SubmitFollowsCreate
  BY DEF IInv, QueueInv
<1> QED BY <1>1, Inductive, PTL

\* The temporary scene does not outlive the session and the window it is for.
THEOREM ScenesAreRemoved == Spec => []NoSceneLeftBehind
<1>1. IInv => NoSceneLeftBehind
  BY DEF IInv, SceneInv
<1> QED BY <1>1, Inductive, PTL

\* No client is given the scene of a session before its own.
THEOREM ScenesAreNotOlder == Spec => []NeverAnOlderScene
<1>1. IInv => NeverAnOlderScene
  BY DEF IInv, SceneInv
<1> QED BY <1>1, Inductive, PTL

\* A window that accepted its close starts no command, also when the client
\* does not stop in time and exits later.
THEOREM CloseIsFinal == Spec => NothingStartsAfterClose
<1> DEFINE A == closing => proc' \in {"none", proc} /\ cmds' = <<>>
<1>1. IInv /\ [Next]_vars => [A]_vars
  <2> SUFFICES ASSUME IInv, Next, closing
               PROVE  proc' \in {"none", proc} /\ cmds' = <<>>
    OBVIOUS
  <2>1. cmds = <<>> /\ win # NoWindow /\ ~dialog
    BY DEF IInv, CloseInv
  <2>2. CASE StartSession \/ CreateFilePath \/ ExportVrscene \/ BlockingSubmit \/ BlockingDone
    BY <2>1, <2>2
    DEF StartSession, CreateFilePath, ExportVrscene, BlockingSubmit, BlockingDone, windowVars
  <2>3. CASE SubmitJob
    BY <2>1, <2>3 DEF SubmitJob
  <2>4. CASE Client
    BY <2>1, <2>4 DEF Client, ClientReads, ClientExits, ClientFails
  <2>5. CASE Close \/ Cancel \/ Confirm
    BY <2>1, <2>5 DEF Close, Cancel, Confirm
  <2>6. CASE DeleteWindow
    BY <2>6 DEF DeleteWindow
  <2> QED BY <2>2, <2>3, <2>4, <2>5, <2>6 DEF Next, Export
<1> QED BY <1>1, Inductive, PTL DEF Spec, NothingStartsAfterClose
-----------------------------------------------------------------------------
(* The log (LogThread). *)

\* What may be queued: a call that was given no message would queue NoMsg.
Entry == [from : Producers \cup {"none"}, id : Nat]

\* A message that can still be printed after the line.
Newer(line, m) == \A i \in DOMAIN line : line[i].from = m.from => line[i].id < m.id

SeqInv ==
  /\ queue \in Seq(Entry) /\ batch \in Seq(Entry) /\ byThread \in Seq(Entry)
  /\ wpc # "print" => batch = <<>>

\* The messages in the hands of add() are numbered as they were logged.
HeldInv ==
  /\ nextId \in Nat
  /\ DOMAIN held = Producers /\ DOMAIN ppc = Producers
  /\ \A p \in Producers :
       ppc[p] # "idle" =>
         held[p] \in Entry /\ held[p].from = p /\ held[p].id < nextId /\ Newer(Line, held[p])
  /\ \A i \in DOMAIN Line : Line[i].id < nextId

LogInv == SeqInv /\ HeldInv /\ ThreadKeepsOrder

-----------------------------------------------------------------------------
(* Sequences. *)

LEMMA LineType ==
  ASSUME SeqInv
  PROVE  Line \in Seq(Entry)
BY ConcatProperties, Zenon DEF SeqInv, Line

LEMMA AppendLine ==
  ASSUME NEW a \in Seq(Entry), NEW b \in Seq(Entry), NEW m \in Entry
  PROVE  a \o Append(b, m) = Append(a \o b, m)
OBVIOUS

LEMMA TakeLine ==
  ASSUME NEW a \in Seq(Entry), NEW q \in Seq(Entry)
  PROVE  a \o <<>> \o q = a \o q \o <<>>
<1>1. a \o <<>> = a
  BY ConcatEmptySeq, Zenon
<1>2. a \o q \in Seq(Entry)
  BY ConcatProperties, Zenon
<1>3. (a \o q) \o <<>> = a \o q
  BY <1>2, ConcatEmptySeq, Zenon
<1> QED BY <1>1, <1>3

LEMMA PrintLine ==
  ASSUME NEW a \in Seq(Entry), NEW b \in Seq(Entry), b # <<>>
  PROVE  /\ Head(b) \in Entry /\ Tail(b) \in Seq(Entry)
         /\ Append(a, Head(b)) \o Tail(b) = a \o b
<1>1. Head(b) \in Entry /\ Tail(b) \in Seq(Entry) /\ Len(Tail(b)) = Len(b) - 1
  BY HeadTailProperties
<1>2. Append(a, Head(b)) \o Tail(b) = a \o b
  <2>1. Append(a, Head(b)) \in Seq(Entry) /\ Len(Append(a, Head(b))) = Len(a) + 1
    BY <1>1
  <2>2. \A i \in 1 .. Len(Append(a, Head(b))) :
          Append(a, Head(b))[i] = IF i <= Len(a) THEN a[i] ELSE b[1]
    BY <1>1
  <2>3. \A i \in 1 .. Len(Tail(b)) : Tail(b)[i] = b[i + 1]
    BY HeadTailProperties
  <2> DEFINE l == Append(a, Head(b)) \o Tail(b)
             r == a \o b
  <2>4. l \in Seq(Entry) /\ r \in Seq(Entry) /\ Len(l) = Len(r)
    BY <1>1, <2>1
  <2>5. \A i \in 1 .. Len(l) : l[i] = r[i]
    BY <1>1, <2>1, <2>2, <2>3, <2>4
  <2> QED BY <2>4, <2>5, SeqEqual
<1> QED BY <1>1, <1>2

\* A line in order stays so when what is newer is put at its end.
LEMMA AppendInOrder ==
  ASSUME NEW line \in Seq(Entry), NEW m \in Entry, InOrder(line), Newer(line, m)
  PROVE  InOrder(Append(line, m))
BY DEF InOrder, Newer, Entry

\* What is newer than a line and than the message at its end.
LEMMA AppendNewer ==
  ASSUME NEW line \in Seq(Entry), NEW m \in Entry, NEW n \in Entry, Newer(line, n), m.from # n.from
  PROVE  Newer(Append(line, m), n)
BY DEF Newer, Entry

-----------------------------------------------------------------------------
(* The steps. *)

LEMMA LogInitInv == LogInit => LogInv
<1> SUFFICES ASSUME LogInit PROVE LogInv
  OBVIOUS
<1> USE DEF LogInit
<1>1. SeqInv
  BY EmptySeq DEF SeqInv
<1>2. Line = <<>>
  BY DEF Line
<1>3. HeldInv
  BY <1>2 DEF HeldInv
<1>4. ThreadKeepsOrder
  BY <1>2 DEF ThreadKeepsOrder, InOrder
<1> QED BY <1>1, <1>3, <1>4 DEF LogInv

\* A step that moves messages along the line, or none at all.
LEMMA SameLine ==
  ASSUME LogInv, SeqInv', Line' = Line, UNCHANGED addVars
  PROVE  LogInv'
<1>1. HeldInv'
  BY DEF LogInv, HeldInv, addVars, Newer
<1>2. ThreadKeepsOrder'
  BY DEF LogInv, ThreadKeepsOrder, InOrder
<1> QED BY <1>1, <1>2 DEF LogInv

\* A step of a caller that leaves the line alone.
LEMMA CallerStep ==
  ASSUME LogInv, UNCHANGED <<queue, runVars>>, NEW p \in Producers, nextId' = nextId,
         DOMAIN held' = Producers, DOMAIN ppc' = Producers,
         \A q \in Producers : q # p => held'[q] = held[q] /\ ppc'[q] = ppc[q],
         ppc'[p] # "idle" => ppc[p] # "idle" /\ held'[p] = held[p]
  PROVE  LogInv'
<1>1. SeqInv'
  BY DEF LogInv, SeqInv, runVars
<1>2. Line' = Line
  BY DEF Line, runVars
<1>3. HeldInv'
  BY <1>2 DEF LogInv, HeldInv, Newer
<1>4. ThreadKeepsOrder'
  BY <1>2 DEF LogInv, ThreadKeepsOrder, InOrder
<1> QED BY <1>1, <1>3, <1>4 DEF LogInv

LEMMA LogStep ==
  ASSUME LogInv, NEW p \in Producers, Log(p)
  PROVE  LogInv'
<1>1. /\ held' = [held EXCEPT ![p] = [from |-> p, id |-> nextId]]
      /\ ppc' = [ppc EXCEPT ![p] = "add"] /\ nextId' = nextId + 1
      /\ UNCHANGED <<queue, runVars>>
  BY DEF Log
<1>2. SeqInv'
  BY <1>1 DEF LogInv, SeqInv, runVars
<1>3. Line' = Line
  BY <1>1 DEF Line, runVars
<1>4. /\ nextId \in Nat /\ DOMAIN held = Producers /\ DOMAIN ppc = Producers
      /\ \A i \in DOMAIN Line : Line[i].id \in Nat /\ Line[i].id < nextId
  <2>1. Line \in Seq(Entry)
    BY LineType DEF LogInv
  <2>2. \A i \in DOMAIN Line : Line[i] \in Entry
    BY <2>1, LenProperties
  <2>3. \A i \in DOMAIN Line : Line[i].id \in Nat
    BY <2>2 DEF Entry
  <2> QED BY <2>3 DEF LogInv, HeldInv
<1>5. ASSUME NEW q \in Producers, ppc'[q] # "idle"
      PROVE  /\ held'[q] \in Entry /\ held'[q].from = q /\ held'[q].id < nextId'
             /\ Newer(Line, held'[q])
  <2>1. CASE q = p
    <3>1. held'[q] = [from |-> p, id |-> nextId]
      BY <1>1, <1>4, <2>1
    <3> QED BY <1>1, <1>4, <2>1, <3>1 DEF Entry, Newer
  <2>2. CASE q # p
    <3>1. held'[q] = held[q] /\ ppc'[q] = ppc[q]
      BY <1>1, <1>4, <2>2
    <3> QED BY <1>1, <1>4, <1>5, <3>1 DEF LogInv, HeldInv, Entry
  <2> QED BY <2>1, <2>2
<1>6. HeldInv'
  <2>1. nextId' \in Nat /\ DOMAIN held' = Producers /\ DOMAIN ppc' = Producers
    BY <1>1, <1>4
  <2>2. \A i \in DOMAIN Line : Line[i].id < nextId'
    BY <1>1, <1>4
  <2> QED BY <1>3, <1>5, <2>1, <2>2 DEF HeldInv, Newer
<1>7. ThreadKeepsOrder'
  BY <1>3 DEF LogInv, ThreadKeepsOrder, InOrder
<1> QED BY <1>2, <1>6, <1>7 DEF LogInv

LEMMA EnqueueStep ==
  ASSUME LogInv, NEW p \in Producers, Enqueue(p)
  PROVE  LogInv'
<1> DEFINE m == held[p]
<1>1. /\ ppc[p] = "enqueue" /\ queue' = Append(queue, m)
      /\ held' = [held EXCEPT ![p] = NoMsg] /\ ppc' = [ppc EXCEPT ![p] = "idle"]
      /\ UNCHANGED <<nextId, runVars>>
  BY DEF Enqueue
<1>2. /\ queue \in Seq(Entry) /\ byThread \o batch \in Seq(Entry) /\ Line \in Seq(Entry)
  BY ConcatProperties, LineType DEF LogInv, SeqInv
<1>3. m \in Entry /\ m.from = p /\ m.id < nextId /\ Newer(Line, m)
  BY <1>1 DEF LogInv, HeldInv
<1>4. Line' = Append(Line, m)
  BY <1>1, <1>2, <1>3, AppendLine DEF Line, runVars
<1>5. SeqInv'
  BY <1>1, <1>2, <1>3 DEF LogInv, SeqInv, runVars
<1>6. HeldInv'
  <2>1. nextId' \in Nat /\ DOMAIN held' = Producers /\ DOMAIN ppc' = Producers
    BY <1>1 DEF LogInv, HeldInv
  <2>2. ASSUME NEW q \in Producers, ppc'[q] # "idle"
        PROVE  /\ held'[q] \in Entry /\ held'[q].from = q /\ held'[q].id < nextId'
               /\ Newer(Append(Line, m), held'[q])
    <3>1. q # p /\ held'[q] = held[q] /\ ppc'[q] = ppc[q]
      BY <1>1, <2>2 DEF LogInv, HeldInv
    <3>2. /\ held[q] \in Entry /\ held[q].from = q /\ held[q].id < nextId
          /\ Newer(Line, held[q])
      BY <2>2, <3>1 DEF LogInv, HeldInv
    <3>3. Newer(Append(Line, m), held[q])
      BY <1>2, <1>3, <3>1, <3>2, AppendNewer
    <3> QED BY <1>1, <3>1, <3>2, <3>3
  <2>3. \A i \in DOMAIN Append(Line, m) : Append(Line, m)[i].id < nextId'
    BY <1>1, <1>2, <1>3 DEF LogInv, HeldInv
  <2> QED BY <1>4, <2>1, <2>2, <2>3 DEF HeldInv
<1>7. ThreadKeepsOrder'
  BY <1>2, <1>3, <1>4, AppendInOrder DEF LogInv, ThreadKeepsOrder
<1> QED BY <1>5, <1>6, <1>7 DEF LogInv

LEMMA AddStep ==
  ASSUME LogInv, NEW p \in Producers, Add(p)
  PROVE  LogInv'
<1>a. DOMAIN held = Producers /\ DOMAIN ppc = Producers
  BY DEF LogInv, HeldInv
<1>1. CASE TestWorking(p)
  <2>1. /\ ppc[p] = "add" /\ UNCHANGED <<held, nextId, queue, runVars>>
        /\ ppc' = [ppc EXCEPT ![p] = IF isConsoleAttached /\ working
                                    THEN "enqueue" ELSE "print"]
    BY <1>1 DEF TestWorking
  <2> QED BY <1>a, <2>1, CallerStep
<1>2. CASE Enqueue(p)
  BY <1>2, EnqueueStep
<1>3. CASE PrintByCaller(p)
  <2>1. /\ held' = [held EXCEPT ![p] = NoMsg] /\ ppc' = [ppc EXCEPT ![p] = "idle"]
        /\ UNCHANGED <<nextId, queue, runVars>>
    BY <1>3 DEF PrintByCaller
  <2> QED BY <1>a, <2>1, CallerStep
<1> QED BY <1>1, <1>2, <1>3 DEF Add

LEMMA WorkerStep ==
  ASSUME LogInv, LogWorker
  PROVE  LogInv'
<1>a. queue \in Seq(Entry) /\ batch \in Seq(Entry) /\ byThread \in Seq(Entry)
  BY DEF LogInv, SeqInv
<1>1. CASE Loop \/ TestEmpty
  <2>1. wpc # "print" /\ UNCHANGED <<queue, batch, byThread, addVars>>
    BY <1>1 DEF Loop, TestEmpty
  <2>2. SeqInv' /\ Line' = Line
    BY <2>1 DEF LogInv, SeqInv, Line
  <2> QED BY <2>1, <2>2, SameLine
<1>2. CASE Take
  <2>1. /\ wpc = "take" /\ wpc' = "print" /\ batch' = queue /\ queue' = <<>>
        /\ UNCHANGED <<byThread, addVars>>
    BY <1>2 DEF Take
  <2>2. batch = <<>>
    BY <2>1 DEF LogInv, SeqInv
  <2>3. SeqInv'
    BY <1>a, <2>1, EmptySeq DEF SeqInv
  <2>4. Line' = Line
    BY <1>a, <2>1, <2>2, TakeLine DEF Line
  <2> QED BY <2>1, <2>3, <2>4, SameLine
<1>3. CASE PrintByThread /\ batch = <<>>
  <2>1. UNCHANGED <<queue, batch, byThread, addVars>>
    BY <1>3 DEF PrintByThread
  <2>2. SeqInv' /\ Line' = Line
    BY <1>3, <2>1 DEF LogInv, SeqInv, Line
  <2> QED BY <2>1, <2>2, SameLine
<1>4. CASE PrintByThread /\ batch # <<>>
  <2>1. /\ byThread' = Append(byThread, Head(batch)) /\ batch' = Tail(batch)
        /\ wpc = "print" /\ UNCHANGED <<wpc, queue, addVars>>
    BY <1>4 DEF PrintByThread
  <2>2. /\ Head(batch) \in Entry /\ Tail(batch) \in Seq(Entry)
        /\ Append(byThread, Head(batch)) \o Tail(batch) = byThread \o batch
    BY <1>a, <1>4, PrintLine
  <2>3. SeqInv'
    BY <1>a, <2>1, <2>2 DEF SeqInv
  <2>4. Line' = Line
    BY <2>1, <2>2 DEF Line
  <2> QED BY <2>1, <2>3, <2>4, SameLine
<1> QED BY <1>1, <1>2, <1>3, <1>4 DEF LogWorker

LEMMA UiStep ==
  ASSUME LogInv, StartSet \/ StopSet \/ UiCall
  PROVE  LogInv'
<1>1. UNCHANGED <<queue, batch, byThread, addVars>>
  BY DEF StartSet, StopSet, UiCall, StartThread, Join, runVars
<1>2. wpc' = wpc \/ wpc = "none"
  BY DEF StartSet, StopSet, UiCall, StartThread, Join, runVars
<1>3. SeqInv' /\ Line' = Line
  BY <1>1, <1>2 DEF LogInv, SeqInv, Line
<1> QED BY <1>1, <1>3, SameLine

LEMMA LogInvStep == LogInv /\ [LogNext]_logVars => LogInv'
<1>1. ASSUME LogInv, UNCHANGED logVars PROVE LogInv'
  <2>1. UNCHANGED <<queue, batch, byThread, wpc, addVars>>
    BY <1>1 DEF logVars, runVars
  <2>2. SeqInv' /\ Line' = Line
    BY <1>1, <2>1 DEF LogInv, SeqInv, Line
  <2> QED BY <1>1, <2>1, <2>2, SameLine
<1> QED BY <1>1, LogStep, AddStep, WorkerStep, UiStep DEF LogNext

\* The log thread prints the messages of each caller in the order in which they
\* were logged, whoever starts and stops it meanwhile.
THEOREM PrintedInOrder == LogSpec => []ThreadKeepsOrder
<1>1. LogInit => LogInv BY LogInitInv
<1>2. LogInv /\ [LogNext]_logVars => LogInv' BY LogInvStep
<1>3. LogInv => ThreadKeepsOrder BY DEF LogInv
<1> QED BY <1>1, <1>2, <1>3, PTL DEF LogSpec

=============================================================================
