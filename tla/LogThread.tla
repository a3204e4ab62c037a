------------------------------ MODULE LogThread -------------------------------
(***************************************************************************)
(* The logger: any thread may log; while the log thread works a message is *)
(* queued for it, otherwise the caller prints it itself.  Houdini's UI     *)
(* thread starts the log thread when the plugin registers (and registers   *)
(* again), and stops and joins it when the plugin is unloaded.             *)
(***************************************************************************)
EXTENDS Naturals, Sequences, SequencesExt

CONSTANTS
  Producers,   \* threads that log
  MaxMsgs,     \* bound: messages logged
  MaxStarts    \* bound: calls of startLogging()

ASSUME BoundsAssumption == MaxMsgs \in Nat /\ MaxStarts \in Nat

VARIABLES
  isConsoleAttached,   \* there is a console to print to
  working,    \* isWorking
  queue,      \* messages waiting for the log thread
  batch,      \* messages the log thread took and has not printed yet
  wpc,        \* where the log thread is in run(); "none": there is no thread
  held,       \* producer -> the message its call of add() is about, NoMsg: none
  ppc,        \* producer -> where it is in add()
  mpc,        \* the UI thread: "idle", "start", "join"
  nextId,     \* the next message's number
  starts,     \* calls of startLogging()
  stops,      \* calls of stopLogging()
  byThread,   \* messages the log thread printed, in order
  byCaller    \* messages that were printed by their callers

runVars == <<batch, wpc, byThread>>
addVars == <<held, ppc, nextId, byCaller>>
uiVars  == <<mpc, starts, stops>>
logVars == <<isConsoleAttached, working, queue, runVars, addVars, uiVars>>

Message == [from : Producers, id : 1 .. MaxMsgs]
NoMsg   == [from |-> "none", id |-> 0]

LogInit ==
  /\ isConsoleAttached \in BOOLEAN
  /\ working = FALSE /\ queue = <<>> /\ batch = <<>> /\ wpc = "none"
  /\ held = [p \in Producers |-> NoMsg] /\ ppc = [p \in Producers |-> "idle"]
  /\ mpc = "idle" /\ nextId = 1 /\ starts = 0 /\ stops = 0
  /\ byThread = <<>> /\ byCaller = {}

-----------------------------------------------------------------------------
(* Logger::valog() and add(). *)

Log(p) ==
  /\ ppc[p] = "idle" /\ nextId <= MaxMsgs
  /\ held' = [held EXCEPT ![p] = [from |-> p, id |-> nextId]]
  /\ ppc' = [ppc EXCEPT ![p] = "add"]
  /\ nextId' = nextId + 1
  /\ UNCHANGED <<isConsoleAttached, working, queue, byCaller, runVars, uiVars>>

\* isWorking is read without the mutex.
TestWorking(p) ==
  /\ ppc[p] = "add"
  /\ ppc' = [ppc EXCEPT ![p] = IF isConsoleAttached /\ working
                              THEN "enqueue" ELSE "print"]
  /\ UNCHANGED <<isConsoleAttached, working, queue, held, nextId, byCaller, runVars, uiVars>>

\* Mutant: the message is put at the head.
EnqueueFront(p) ==
  /\ ppc[p] = "enqueue"
  /\ queue' = <<held[p]>> \o queue
  /\ held' = [held EXCEPT ![p] = NoMsg]
  /\ ppc' = [ppc EXCEPT ![p] = "idle"]
  /\ UNCHANGED <<isConsoleAttached, working, nextId, byCaller, runVars, uiVars>>

Enqueue(p) ==
  /\ ppc[p] = "enqueue"
  /\ queue' = Append(queue, held[p])
  /\ held' = [held EXCEPT ![p] = NoMsg]
  /\ ppc' = [ppc EXCEPT ![p] = "idle"]
  /\ UNCHANGED <<isConsoleAttached, working, nextId, byCaller, runVars, uiVars>>

PrintByCaller(p) ==
  /\ ppc[p] = "print"
  /\ byCaller' = byCaller \cup {held[p]}
  /\ held' = [held EXCEPT ![p] = NoMsg]
  /\ ppc' = [ppc EXCEPT ![p] = "idle"]
  /\ UNCHANGED <<isConsoleAttached, working, queue, nextId, runVars, uiVars>>

-----------------------------------------------------------------------------
(* run() *)

\* Mutant: the loop goes on whatever isWorking is.
LoopForever ==
  /\ wpc = "loop"
  /\ wpc' = "test"
  /\ UNCHANGED <<isConsoleAttached, working, queue, batch, byThread, addVars, uiVars>>

\* The loop's condition; the thread ends when it fails.
Loop ==
  /\ wpc = "loop"
  /\ wpc' = IF working THEN "test" ELSE "none"
  /\ UNCHANGED <<isConsoleAttached, working, queue, batch, byThread, addVars, uiVars>>

\* queue.isEmpty(), outside the mutex: an empty queue makes the thread sleep.
\* A read that races with an enqueue() gives what was before it or after it.
TestEmpty ==
  /\ wpc = "test"
  /\ \/ queue # <<>> /\ wpc' = "take"
     \/ queue = <<>> /\ wpc' = "loop"
  /\ UNCHANGED <<isConsoleAttached, working, queue, batch, byThread, addVars, uiVars>>

Take ==
  /\ wpc = "take"
  /\ batch' = queue /\ queue' = <<>>
  /\ wpc' = "print"
  /\ UNCHANGED <<isConsoleAttached, working, byThread, addVars, uiVars>>

\* Mutant: one message of the batch is printed.
PrintFirstOnly ==
  /\ wpc = "print"
  /\ wpc' = "loop"
  /\ batch' = <<>>
  /\ byThread' = IF batch = <<>> THEN byThread ELSE Append(byThread, Head(batch))
  /\ UNCHANGED <<isConsoleAttached, working, queue, addVars, uiVars>>

\* The batch is printed to its end, also when isWorking was cleared.
PrintByThread ==
  /\ wpc = "print"
  /\ IF batch = <<>>
       THEN wpc' = "loop" /\ UNCHANGED <<batch, byThread>>
       ELSE /\ byThread' = Append(byThread, Head(batch))
            /\ batch' = Tail(batch)
            /\ UNCHANGED wpc
  /\ UNCHANGED <<isConsoleAttached, working, queue, addVars, uiVars>>

-----------------------------------------------------------------------------
(* The UI thread. *)

StartSet ==
  /\ mpc = "idle" /\ starts < MaxStarts
  /\ working' = TRUE
  /\ starts' = starts + 1
  /\ mpc' = "start"
  /\ UNCHANGED <<isConsoleAttached, queue, stops, runVars, addVars>>

\* QThread::start() does nothing for a thread that runs.
StartThread ==
  /\ mpc = "start"
  /\ wpc' = IF wpc = "none" THEN "loop" ELSE wpc
  /\ mpc' = "idle"
  /\ UNCHANGED <<isConsoleAttached, working, queue, batch, starts, stops, byThread, addVars>>

StopSet ==
  /\ mpc = "idle" /\ starts > stops
  /\ working' = FALSE
  /\ stops' = stops + 1
  /\ mpc' = "join"
  /\ UNCHANGED <<isConsoleAttached, queue, starts, runVars, addVars>>

Join ==
  /\ mpc = "join" /\ wpc = "none"
  /\ mpc' = "idle"
  /\ UNCHANGED <<isConsoleAttached, working, queue, starts, stops, runVars, addVars>>

Add(p)    == TestWorking(p) \/ Enqueue(p) \/ PrintByCaller(p)
LogWorker == Loop \/ TestEmpty \/ Take \/ PrintByThread
UiCall    == StartThread \/ Join

LogNext ==
  \/ \E p \in Producers : Log(p) \/ Add(p)
  \/ LogWorker
  \/ StartSet \/ StopSet \/ UiCall

\* Threads inside a call, and the log thread, go on.
Fairness ==
  /\ \A p \in Producers : WF_logVars(Add(p))
  /\ WF_logVars(LogWorker)
  /\ WF_logVars(UiCall)

LogSpec == LogInit /\ [][LogNext]_logVars /\ Fairness

-----------------------------------------------------------------------------
\* What the log thread has printed, holds and will take, in this order.
Line == byThread \o batch \o queue

InOrder(line) ==
  \A i, j \in DOMAIN line :
    i < j /\ line[i].from = line[j].from => line[i].id < line[j].id

\* What the log thread prints of one caller is in the caller's order, also
\* across a restart of the thread.
ThreadKeepsOrder == InOrder(Line)

Printed(m) == m \in ToSet(byThread) \cup byCaller

\* While the thread is not stopped, every message that add() queued is printed,
\* by the thread or by the caller.
LoggedIsPrinted ==
  \A m \in Message :
    (stops = 0 /\ m \in ToSet(queue)) ~> (Printed(m) \/ stops > 0)

\* stopLogging() returns, and every call of add() does.
CallsReturn ==
  /\ mpc = "join" ~> mpc = "idle"
  /\ \A p \in Producers : ppc[p] # "idle" ~> ppc[p] = "idle"

=============================================================================
