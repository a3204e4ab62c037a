--------------------------- MODULE ImdisplayThread ---------------------------
(***************************************************************************)
(* The image writer thread of the IPR session: a message queue shared by   *)
(* the renderer's callback threads, the UI thread and the worker, and the  *)
(* QThread whose run() drains the queue into Houdini's "imdisplay" device. *)
(*                                                                         *)
(* The queue is a set of stamped messages.  Every message is stamped when  *)
(* it is enqueued and the code only ever appends, so the stamp order is    *)
(* the order of the QQueue and its head is the message of least stamp.     *)
(* Each section of the code under the queue mutex is one action.           *)
(***************************************************************************)
EXTENDS Integers

CONSTANT
  Buckets     \* tile writes one image message takes (planes times buckets)

ASSUME BucketsAssumption == Buckets \in Nat \ {0}

MsgTypes == {"Header", "Tiles", "Progress"}
Message  == [type : MsgTypes, id : Nat \ {0}]
NoMsg    == [type |-> "None", id |-> 0]

VARIABLES
  queue,      \* messages waiting, ordered by id
  nextId,     \* stamp of the next message
  freed,      \* stamps of the messages that were deleted
  isRunning,  \* the worker may run
  wpc,        \* where the worker is in run(); "none": there is no thread
  msg,        \* the message the worker has dequeued, or NoMsg
  left,       \* tile writes left of that message
  device,     \* "none", "fresh" (no header processed yet), "open", "closed"
  opened,     \* stamp of the header the device was opened with, 0 for none
  viewer,     \* "up": the viewer takes tiles; "gone": its writes fail
  cause       \* why the worker last cleared isRunning, "none" if it has not

tvars == <<queue, nextId, freed, isRunning, wpc, msg, left, device, opened,
           viewer, cause>>

WorkerPcs == {"none", "boot", "loop", "take", "work", "probe", "send",
              "tail", "free", "finish"}

ThreadTypeOK ==
  /\ queue \subseteq Message
  /\ nextId \in Nat \ {0}
  /\ freed \subseteq Nat \ {0}
  /\ isRunning \in BOOLEAN
  /\ wpc \in WorkerPcs
  /\ msg \in Message \cup {NoMsg}
  /\ left \in 0 .. Buckets
  /\ device \in {"none", "fresh", "open", "closed"}
  /\ opened \in Nat
  /\ viewer \in {"up", "gone"}
  /\ cause \in {"none", "unopened", "closed", "quit", "write"}

ThreadInit ==
  /\ queue = {} /\ nextId = 1 /\ freed = {}
  /\ isRunning = FALSE
  /\ wpc = "none" /\ msg = NoMsg /\ left = 0
  /\ device = "none" /\ opened = 0
  /\ viewer = "up" /\ cause = "none"

Ids(S) == {m.id : m \in S}

-----------------------------------------------------------------------------
(* Methods other threads call. *)

\* Mutant: a header replaces waiting headers only.
HeaderKeepsOthers(type) == {m \in queue : m.type = type}

\* add(): a header empties the queue, any other message replaces the waiting
\* ones of its type.
Superseded(type) ==
  IF type = "Header" THEN queue ELSE {m \in queue : m.type = type}

Add(type) ==
  /\ queue' = (queue \ Superseded(type)) \cup {[type |-> type, id |-> nextId]}
  /\ freed' = freed \cup Ids(Superseded(type))
  /\ nextId' = nextId + 1
  /\ UNCHANGED <<isRunning, wpc, msg, left, device, opened, viewer, cause>>

\* Mutant: clear() drops the pointers without deleting the messages.
ClearLeaks ==
  /\ queue' = {}
  /\ UNCHANGED freed

\* clear(): deletes what waits.
ClearQueue ==
  /\ queue' = {}
  /\ freed' = freed \cup Ids(queue)

\* restart(), first statement.
RestartSet ==
  /\ isRunning' = TRUE
  /\ cause' = "none"
  /\ UNCHANGED <<queue, nextId, freed, wpc, msg, left, device, opened, viewer>>

\* restart(), second statement.
RestartClear ==
  /\ ClearQueue
  /\ UNCHANGED <<nextId, isRunning, wpc, msg, left, device, opened, viewer, cause>>

\* restart(), third statement.  QThread::start() waits for a thread that is
\* emitting finished(), does nothing for one that has not returned from run(),
\* and starts a new one otherwise.
RestartStart ==
  /\ wpc # "finish"
  /\ wpc' = IF wpc = "none" THEN "boot" ELSE wpc
  /\ UNCHANGED <<queue, nextId, freed, isRunning, msg, left, device, opened,
                 viewer, cause>>

\* The destructor's first statement; quit() has no effect on a thread without
\* an event loop.
Stop ==
  /\ isRunning' = FALSE
  /\ UNCHANGED <<queue, nextId, freed, wpc, msg, left, device, opened, viewer, cause>>

-----------------------------------------------------------------------------
(* run() *)

WorkerBoot ==
  /\ wpc = "boot"
  /\ device' = "fresh" /\ opened' = 0
  /\ wpc' = "loop"
  /\ UNCHANGED <<queue, nextId, freed, isRunning, msg, left, viewer, cause>>

WorkerLoop ==
  /\ wpc = "loop"
  /\ wpc' = IF isRunning THEN "take" ELSE "tail"
  /\ UNCHANGED <<queue, nextId, freed, isRunning, msg, left, device, opened,
                 viewer, cause>>

\* Mutant: any waiting message is dequeued.
TakeAny ==
  /\ wpc = "take"
  /\ \/ /\ queue = {}
        /\ wpc' = "loop"
        /\ UNCHANGED <<queue, msg, left>>
     \/ \E m \in queue :
          /\ queue' = queue \ {m}
          /\ msg' = m
          /\ left' = IF m.type = "Tiles" THEN Buckets ELSE 0
          /\ wpc' = "work"
  /\ UNCHANGED <<nextId, freed, isRunning, device, opened, viewer, cause>>

\* Mutant: an empty queue blocks the worker until a message comes.
TakeBlocks ==
  /\ wpc = "take"
  /\ \E m \in queue :
       /\ \A n \in queue : m.id <= n.id
       /\ queue' = queue \ {m}
       /\ msg' = m
       /\ left' = IF m.type = "Tiles" THEN Buckets ELSE 0
       /\ wpc' = "work"
  /\ UNCHANGED <<nextId, freed, isRunning, device, opened, viewer, cause>>

\* The head of the queue is dequeued under the mutex; an empty queue makes the
\* worker sleep and go round again.
WorkerTake ==
  /\ wpc = "take"
  /\ \/ /\ queue = {}
        /\ wpc' = "loop"
        /\ UNCHANGED <<queue, msg, left>>
     \/ \E m \in queue :
          /\ \A n \in queue : m.id <= n.id
          /\ queue' = queue \ {m}
          /\ msg' = m
          /\ left' = IF m.type = "Tiles" THEN Buckets ELSE 0
          /\ wpc' = "work"
  /\ UNCHANGED <<nextId, freed, isRunning, device, opened, viewer, cause>>

FreeMsg ==
  /\ freed' = freed \cup {msg.id}
  /\ msg' = NoMsg
  /\ left' = 0
  /\ wpc' = "loop"

\* processImageHeaderMessage(): an open device is closed, then opened for the
\* new planes and resolution, which may fail.
ProcessHeader ==
  /\ wpc = "work" /\ msg.type = "Header"
  /\ \/ device' = "open" /\ opened' = msg.id /\ viewer' = "up"
     \/ /\ device' = "closed"
        /\ UNCHANGED <<opened, viewer>>
  /\ FreeMsg
  /\ UNCHANGED <<queue, nextId, isRunning, cause>>

ProcessProgress ==
  /\ wpc = "work" /\ msg.type = "Progress"
  /\ FreeMsg
  /\ UNCHANGED <<queue, nextId, isRunning, device, opened, viewer, cause>>

\* The plane and bucket loops: each round starts only while isRunning.
NextBucket ==
  /\ wpc = "work" /\ msg.type = "Tiles"
  /\ isRunning /\ left > 0
  /\ wpc' = "probe"
  /\ UNCHANGED <<queue, nextId, freed, isRunning, msg, left, device, opened,
                 viewer, cause>>

EndTiles ==
  /\ wpc = "work" /\ msg.type = "Tiles"
  /\ ~isRunning \/ left = 0
  /\ FreeMsg
  /\ UNCHANGED <<queue, nextId, isRunning, device, opened, viewer, cause>>

\* writeTile(), first test: a device that is not open, or whose viewer asked to
\* quit, clears isRunning.
ProbeDevice ==
  /\ wpc = "probe"
  /\ \/ /\ device # "open"
        /\ isRunning' = FALSE
        /\ cause' = IF device = "fresh" THEN "unopened" ELSE "closed"
     \/ /\ device = "open" /\ viewer = "gone"
        /\ isRunning' = FALSE /\ cause' = "quit"
     \/ /\ device = "open"
        /\ UNCHANGED <<isRunning, cause>>
  /\ wpc' = "send"
  /\ UNCHANGED <<queue, nextId, freed, msg, left, device, opened, viewer>>

\* writeTile(), after the second test of isRunning.  A write to a viewer that
\* is there, on an open device, succeeds.
WriteTile ==
  /\ wpc = "send"
  /\ IF isRunning /\ ~(device = "open" /\ viewer = "up")
       THEN isRunning' = FALSE /\ cause' = "write"
       ELSE UNCHANGED <<isRunning, cause>>
  /\ left' = left - 1
  /\ wpc' = "work"
  /\ UNCHANGED <<queue, nextId, freed, msg, device, opened, viewer>>

\* After the loop: clear() and the deletion of the device.
WorkerTail ==
  /\ wpc = "tail"
  /\ ClearQueue
  /\ wpc' = "free"
  /\ UNCHANGED <<nextId, isRunning, msg, left, device, opened, viewer, cause>>

WorkerFree ==
  /\ wpc = "free"
  /\ device' = "none" /\ opened' = 0
  /\ wpc' = "finish"
  /\ UNCHANGED <<queue, nextId, freed, isRunning, msg, left, viewer, cause>>

\* run() has returned and finished() was delivered.
WorkerFinished ==
  /\ wpc = "finish"
  /\ wpc' = "none"
  /\ UNCHANGED <<queue, nextId, freed, isRunning, msg, left, device, opened,
                 viewer, cause>>

WorkerRun ==
  \/ WorkerBoot \/ WorkerLoop \/ WorkerTake
  \/ ProcessHeader \/ ProcessProgress \/ NextBucket \/ EndTiles
  \/ ProbeDevice \/ WriteTile
  \/ WorkerTail \/ WorkerFree

\* The user closes the render view.
ViewerCloses ==
  /\ device = "open" /\ viewer = "up"
  /\ viewer' = "gone"
  /\ UNCHANGED <<queue, nextId, freed, isRunning, wpc, msg, left, device,
                 opened, cause>>

-----------------------------------------------------------------------------
(* What the thread promises in every environment. *)

InHand == IF msg = NoMsg THEN {} ELSE {msg.id}

\* Every message handed to add() is waiting, in the worker's hands or deleted,
\* and in exactly one of these: the deletes of add(), clear() and run() never
\* meet on a message and never miss one.
OwnedOnce ==
  /\ Ids(queue) \cup InHand \cup freed = 1 .. nextId - 1
  /\ Ids(queue) \cap InHand = {}
  /\ Ids(queue) \cap freed = {}
  /\ InHand \cap freed = {}
  /\ \A m, n \in queue : m.id = n.id => m = n

\* A tile message that is being written was added after the header its device
\* was opened with and before any header that waits: images are never written
\* to a device of another resolution than the one they were added for.
NoStaleTiles ==
  msg.type = "Tiles" =>
    /\ opened < msg.id
    /\ \A m \in queue : m.type = "Header" => msg.id < m.id

=============================================================================
