--------------------------- MODULE IprSessionProofs ---------------------------
(***************************************************************************)
(* The safety properties of the IPR session for any number of SOHO calls,  *)
(* messages and buckets.  The exporter has two owners: the UI thread's     *)
(* scopes, which the mutex protects, and the worker, whose end frees it.   *)
(* What ties them together is that a worker is only started while there is *)
(* an exporter, and that nobody but the end of a worker frees one.         *)
(***************************************************************************)
EXTENDS IprSession, TLAPS

\* The thread's variables have their types, and a tile write is begun only
\* when one is left.
ThreadInv == ThreadTypeOK /\ (wpc \in {"probe", "send"} => left > 0)

\* The mutex is held exactly in the scopes that restart the writer, and what
\* they use is there.
LockInv ==
  /\ mtx = "main" <=> mpc \in HoldPcs
  /\ GuardedUse

\* An exporter is half initialised only while setRopPtr() is still to come.
StageInv ==
  /\ ex.gen # 0 /\ mpc # "i_rop" => ex.rop
  /\ ScopesAgree

\* A worker that runs has an exporter; the slots of finished() are called in
\* "finish" only, and until the first is called the exporter is the one that
\* was there at the emission.
OwnerInv ==
  /\ wpc \notin {"none", "finish"} => ex.gen # 0
  /\ wpc = "finish" /\ slots = -1 => ex.gen # 0
  /\ slots >= 0 => wpc = "finish"
  /\ slots <= conns
  /\ slots = conns => ex.gen # 0 /\ ex.gen = emitGen

IInv == TypeOK /\ ThreadInv /\ LockInv /\ StageInv /\ OwnerInv

LEMMA InitIInv == Init => IInv
<1> SUFFICES ASSUME Init PROVE IInv
  OBVIOUS
<1> USE DEF Init, ThreadInit, NullExporter
<1>1. ThreadTypeOK
  <2>1. 0 \in 0 .. Buckets /\ 1 \in Nat \ {0}
    BY BucketsAssumption
  <2> QED
    BY <2>1 DEF ThreadTypeOK, WorkerPcs, NoMsg
<1>2. ThreadInv
  BY <1>1 DEF ThreadInv
<1>3. TypeOK
  <2>1. ex \in [gen : Nat, rop : BOOLEAN, vray : BOOLEAN, bound : BOOLEAN]
    OBVIOUS
  <2>2. mpc \in MainPcs /\ calls \in 0 .. MaxCalls
    BY BoundsAssumption DEF MainPcs
  <2> QED
    BY <1>1, <2>1, <2>2 DEF TypeOK
<1>4. LockInv
  BY DEF LockInv, GuardedUse, HoldPcs, InitHolds, ViewHolds
<1>5. StageInv
  BY DEF StageInv, ScopesAgree
<1>6. OwnerInv
  BY DEF OwnerInv
<1> QED
  BY <1>2, <1>3, <1>4, <1>5, <1>6 DEF IInv

-----------------------------------------------------------------------------
(* The thread alone. *)

\* Message numbers are positive, so that NoMsg is no message.
LEMMA MessageFacts ==
  /\ NoMsg.id = 0 /\ NoMsg.type = "None"
  /\ \A m \in Message : m.id \in Nat \ {0} /\ m.type \in MsgTypes
BY DEF NoMsg, Message, MsgTypes

\* add() keeps the thread where it is.
LEMMA AddThread ==
  ASSUME ThreadInv, NEW type \in MsgTypes, Add(type)
  PROVE  ThreadInv' /\ wpc' = wpc
<1> DEFINE S == Superseded(type)
<1> USE DEF ThreadInv, ThreadTypeOK, Add
<1>1. S \subseteq queue
  BY DEF Superseded
<1>2. Ids(S) \subseteq Nat \ {0}
  BY <1>1, MessageFacts DEF Ids
<1>3. [type |-> type, id |-> nextId] \in Message
  BY DEF Message
<1>4. queue' \subseteq Message
  BY <1>3
<1>5. nextId' \in Nat \ {0}
  OBVIOUS
<1>6. freed' \subseteq Nat \ {0}
  BY <1>2
<1>7. UNCHANGED <<isRunning, wpc, msg, left, device, opened, viewer, cause>>
  OBVIOUS
<1> QED
  BY <1>4, <1>5, <1>6, <1>7

\* clear() leaves an empty queue and deletes stamps only.
LEMMA ClearTypes ==
  ASSUME ThreadInv, ClearQueue
  PROVE  queue' \subseteq Message /\ freed' \subseteq Nat \ {0}
<1>1. Ids(queue) \subseteq Nat \ {0}
  BY MessageFacts DEF ThreadInv, ThreadTypeOK, Ids
<1> QED
  BY <1>1 DEF ThreadInv, ThreadTypeOK, ClearQueue

\* restart() touches the thread's place only to start one that has ended.
LEMMA RestartThread ==
  ASSUME ThreadInv, RestartSet \/ RestartClear \/ RestartStart
  PROVE  /\ ThreadInv'
         /\ \/ wpc' = wpc
            \/ wpc = "none" /\ wpc' = "boot"
<1>1. CASE RestartSet
  BY <1>1 DEF RestartSet, ThreadInv, ThreadTypeOK
<1>2. CASE RestartClear
  <2>1. queue' \subseteq Message /\ freed' \subseteq Nat \ {0}
    BY <1>2, ClearTypes DEF RestartClear
  <2> QED
    BY <1>2, <2>1 DEF RestartClear, ThreadInv, ThreadTypeOK
<1>3. CASE RestartStart
  BY <1>3 DEF RestartStart, ThreadInv, ThreadTypeOK, WorkerPcs
<1> QED
  BY <1>1, <1>2, <1>3

\* A step of run() is taken by a running worker, which ends in "finish" only.
LEMMA RunThread ==
  ASSUME ThreadInv, WorkerRun
  PROVE  ThreadInv' /\ wpc \notin {"none", "finish"} /\ wpc' # "none"
<1> USE DEF ThreadInv
<1>1. CASE WorkerBoot \/ WorkerLoop \/ WorkerFree
  <2>1. CASE WorkerBoot
    BY <2>1 DEF WorkerBoot, ThreadTypeOK, WorkerPcs
  <2>2. CASE WorkerLoop
    BY <2>2 DEF WorkerLoop, ThreadTypeOK, WorkerPcs
  <2>3. CASE WorkerFree
    BY <2>3 DEF WorkerFree, ThreadTypeOK, WorkerPcs
  <2> QED
    BY <1>1, <2>1, <2>2, <2>3
<1>2. CASE WorkerTake
  <2>1. queue' \subseteq Message
    BY <1>2 DEF WorkerTake, ThreadTypeOK
  <2>2. msg' \in Message \cup {NoMsg} /\ left' \in 0 .. Buckets
    BY <1>2, BucketsAssumption DEF WorkerTake, ThreadTypeOK
  <2>3. wpc = "take" /\ wpc' \in {"loop", "work"}
        /\ UNCHANGED <<nextId, freed, isRunning, device, opened, viewer, cause>>
    BY <1>2 DEF WorkerTake
  <2> QED
    BY <2>1, <2>2, <2>3 DEF ThreadTypeOK, WorkerPcs
<1>3. CASE ProcessHeader \/ ProcessProgress \/ EndTiles
  <2>1. wpc = "work" /\ msg.type \in MsgTypes /\ FreeMsg
        /\ UNCHANGED <<queue, nextId, isRunning, cause>>
    BY <1>3 DEF ProcessHeader, ProcessProgress, EndTiles, MsgTypes
  <2>2. msg \in Message
    BY <2>1, MessageFacts DEF ThreadTypeOK, MsgTypes
  <2>3. freed' \subseteq Nat \ {0} /\ msg' = NoMsg /\ left' = 0 /\ wpc' = "loop"
    BY <2>1, <2>2, MessageFacts DEF FreeMsg, ThreadTypeOK
  <2>4. device' \in {"none", "fresh", "open", "closed"} /\ opened' \in Nat
        /\ viewer' \in {"up", "gone"}
    BY <1>3, <2>2, MessageFacts
    DEF ProcessHeader, ProcessProgress, EndTiles, ThreadTypeOK
  <2> QED
    BY <2>1, <2>3, <2>4, BucketsAssumption DEF ThreadTypeOK, WorkerPcs
<1>4. CASE NextBucket
  BY <1>4 DEF NextBucket, ThreadTypeOK, WorkerPcs
<1>5. CASE ProbeDevice
  BY <1>5 DEF ProbeDevice, ThreadTypeOK, WorkerPcs
<1>6. CASE WriteTile
  <2>1. left' \in 0 .. Buckets
    BY <1>6, BucketsAssumption DEF WriteTile, ThreadTypeOK
  <2> QED
    BY <1>6, <2>1 DEF WriteTile, ThreadTypeOK, WorkerPcs
<1>7. CASE WorkerTail
  <2>1. queue' \subseteq Message /\ freed' \subseteq Nat \ {0}
    BY <1>7, ClearTypes DEF WorkerTail
  <2> QED
    BY <1>7, <2>1 DEF WorkerTail, ThreadTypeOK, WorkerPcs
<1> QED
  BY <1>1, <1>2, <1>3, <1>4, <1>5, <1>6, <1>7 DEF WorkerRun

\* The session's own steps leave the thread as it is.
LEMMA ThreadKept ==
  ASSUME ThreadInv, UNCHANGED tvars
  PROVE  ThreadInv' /\ wpc' = wpc
BY DEF ThreadInv, ThreadTypeOK, tvars

-----------------------------------------------------------------------------
(* The session, given what its steps do to the thread. *)

\* A step of the thread or of its other users.
LEMMA SessionKept ==
  ASSUME IInv, UNCHANGED svars, ThreadInv',
         \/ wpc' = wpc
         \/ wpc \notin {"none", "finish"} /\ wpc' # "none"
  PROVE  IInv'
<1> USE DEF IInv, svars
<1>1. TypeOK'
  BY DEF TypeOK, ThreadInv
<1>2. LockInv' /\ StageInv'
  BY DEF LockInv, GuardedUse, StageInv, ScopesAgree
<1>3. OwnerInv'
  <2>1. CASE wpc' = wpc
    BY <2>1 DEF OwnerInv
  <2>2. CASE wpc \notin {"none", "finish"}
    BY <2>2 DEF OwnerInv, TypeOK
  <2> QED
    BY <2>1, <2>2
<1> QED
  BY <1>1, <1>2, <1>3

\* The SOHO calls up to the scopes that hold the mutex.
LEMMA CallStep ==
  ASSUME IInv, Generate \/ Update \/ IsRopValid \/ SetTime \/ ExportView
  PROVE  IInv'
<1> USE DEF IInv
<1>1. /\ UNCHANGED <<tvars, ex, rendering, conns, slots, emitGen, gens>>
      /\ calls' \in 0 .. MaxCalls
      /\ mpc \notin HoldPcs /\ mpc # "i_rop"
      /\ \/ mtx' = mtx /\ mpc' \in {"idle", "crash", "i_alloc", "u_valid", "u_time", "u_view"}
         \/ mtx' = "main" /\ mpc' = "v_set" /\ ex.gen # 0 /\ ex.vray
  <2>1. CASE Generate \/ Update
    BY <2>1, BoundsAssumption DEF Generate, Update, Goto, TypeOK, HoldPcs, InitHolds, ViewHolds
  <2>2. CASE IsRopValid \/ SetTime
    BY <2>2 DEF IsRopValid, SetTime, Scope, Goto, TypeOK, HoldPcs, InitHolds, ViewHolds
  <2>3. CASE ExportView
    BY <2>3 DEF ExportView, Scope, Goto, TypeOK, HoldPcs, InitHolds, ViewHolds
  <2> QED
    BY <2>1, <2>2, <2>3
<1>2. ThreadInv' /\ wpc' = wpc
  BY <1>1, ThreadKept
<1>3. mpc' \in MainPcs /\ mtx' \in {"free", "main"}
  BY <1>1 DEF TypeOK, MainPcs, InitPcs, HoldPcs, ViewHolds
<1>4. TypeOK'
  BY <1>1, <1>2, <1>3 DEF TypeOK, ThreadInv
<1>5. LockInv'
  BY <1>1 DEF LockInv, GuardedUse, StageInv, HoldPcs, InitHolds, ViewHolds, TypeOK
<1>6. StageInv'
  BY <1>1 DEF StageInv, ScopesAgree
<1>7. OwnerInv'
  BY <1>1, <1>2 DEF OwnerInv
<1> QED
  BY <1>2, <1>4, <1>5, <1>6, <1>7

\* Giving an exporter a number changes nothing else of it.
LEMMA GenUpdate ==
  ASSUME NEW n \in Nat,
         NEW r \in [gen : Nat, rop : BOOLEAN, vray : BOOLEAN, bound : BOOLEAN]
  PROVE  /\ [r EXCEPT !.gen = n] \in [gen : Nat, rop : BOOLEAN, vray : BOOLEAN, bound : BOOLEAN]
         /\ [r EXCEPT !.gen = n].gen = n
OBVIOUS

\* vfhInit()'s first scope: the exporter is replaced only when there is none.
LEMMA InitAllocStep ==
  ASSUME IInv, InitAlloc
  PROVE  IInv'
<1> USE DEF IInv
<1>1. /\ UNCHANGED <<tvars, mtx, rendering, conns, slots, emitGen, calls>>
      /\ mpc = "i_alloc" /\ mpc' = "i_rop"
      /\ ex' = (IF ex.gen = 0 THEN [NullExporter EXCEPT !.gen = gens + 1] ELSE ex)
      /\ gens' \in Nat
  BY DEF InitAlloc, Scope, Goto, TypeOK
<1>2. ThreadInv' /\ wpc' = wpc
  BY <1>1, ThreadKept
<1>3. LET new == [NullExporter EXCEPT !.gen = gens + 1]
      IN  /\ new \in [gen : Nat, rop : BOOLEAN, vray : BOOLEAN, bound : BOOLEAN]
          /\ new.gen # 0
  <2>1. NullExporter \in [gen : Nat, rop : BOOLEAN, vray : BOOLEAN, bound : BOOLEAN]
    BY DEF NullExporter
  <2>2. gens + 1 \in Nat \ {0}
    BY DEF TypeOK
  <2> QED
    BY <2>1, <2>2, GenUpdate
<1>4. ex' \in [gen : Nat, rop : BOOLEAN, vray : BOOLEAN, bound : BOOLEAN]
      /\ ex'.gen # 0 /\ (ex.gen # 0 => ex' = ex)
  BY <1>1, <1>3 DEF TypeOK
<1>5. TypeOK'
  BY <1>1, <1>2, <1>4 DEF TypeOK, ThreadInv, MainPcs, InitPcs
<1>6. LockInv'
  BY <1>1 DEF LockInv, GuardedUse, HoldPcs, InitHolds, ViewHolds
<1>7. StageInv'
  BY <1>1 DEF StageInv, ScopesAgree
<1>8. OwnerInv'
  BY <1>1, <1>2, <1>4 DEF OwnerInv
<1> QED
  BY <1>2, <1>5, <1>6, <1>7, <1>8

\* The later scopes of vfhInit() keep the exporter and prepare it further.
LEMMA InitScopeStep ==
  ASSUME IInv, InitRop \/ InitMode \/ InitExporter \/ InitBind \/ InitScene
  PROVE  IInv'
<1> USE DEF IInv
<1> DEFINE Exporters == [gen : Nat, rop : BOOLEAN, vray : BOOLEAN, bound : BOOLEAN]
<1>0. ex \in Exporters
  BY DEF TypeOK
<1>1. /\ UNCHANGED <<tvars, conns, slots, emitGen, calls, gens>>
      /\ ex.gen # 0 /\ ex' \in Exporters /\ ex'.gen = ex.gen
      /\ mpc \notin HoldPcs /\ rendering' \in BOOLEAN
  <2>1. CASE InitRop
    BY <1>0, <2>1 DEF InitRop, Scope, Goto, TypeOK, HoldPcs, InitHolds, ViewHolds
  <2>2. CASE InitMode \/ InitExporter \/ InitScene
    BY <1>0, <2>2
    DEF InitMode, InitExporter, InitScene, Scope, Goto, TypeOK, HoldPcs, InitHolds, ViewHolds
  <2>3. CASE InitBind
    BY <1>0, <2>3 DEF InitBind, Scope, Goto, TypeOK, HoldPcs, InitHolds, ViewHolds
  <2> QED
    BY <2>1, <2>2, <2>3
<1>2. /\ ex'.rop
      /\ mpc' \in {"i_mode", "i_init", "i_bind", "i_scene", "i_set"} => ex'.vray
      /\ mpc' = "i_scene" => ex'.bound
      /\ \/ mtx' = mtx /\ mpc' \in {"idle", "crash", "i_mode", "i_init", "i_bind", "i_scene"}
         \/ mtx' = "main" /\ mpc' = "i_set"
  <2>1. CASE InitRop
    BY <1>0, <2>1 DEF InitRop, Goto
  <2>2. CASE InitMode \/ InitExporter
    BY <1>0, <2>2 DEF InitMode, InitExporter, Scope, Goto, StageInv
  <2>3. CASE InitBind
    BY <1>0, <2>3 DEF InitBind, Scope, Goto, StageInv
  <2>4. CASE InitScene
    BY <1>0, <2>4 DEF InitScene, Scope, Goto, StageInv, ScopesAgree
  <2> QED
    BY <2>1, <2>2, <2>3, <2>4
<1>3. ThreadInv' /\ wpc' = wpc
  BY <1>1, ThreadKept
<1>4. mpc' \in MainPcs /\ mtx' \in {"free", "main"}
  BY <1>2 DEF TypeOK, MainPcs, InitPcs, HoldPcs, InitHolds
<1>5. TypeOK'
  BY <1>1, <1>3, <1>4 DEF TypeOK, ThreadInv
<1>6. LockInv'
  BY <1>1, <1>2 DEF LockInv, GuardedUse, HoldPcs, InitHolds, ViewHolds, TypeOK
<1>7. StageInv'
  BY <1>1, <1>2 DEF StageInv, ScopesAgree
<1>8. OwnerInv'
  BY <1>1, <1>3 DEF OwnerInv
<1> QED
  BY <1>3, <1>5, <1>6, <1>7, <1>8

\* A scope that finds no exporter does nothing.
LEMMA SkipStep ==
  ASSUME IInv, SkipScope
  PROVE  IInv'
<1> USE DEF IInv
<1>1. /\ UNCHANGED <<tvars, mtx, ex, rendering, conns, slots, emitGen, calls, gens>>
      /\ ex.gen = 0
      /\ mpc \notin HoldPcs
      /\ mpc' \in {"i_mode", "i_init", "i_bind", "i_scene", "idle"}
  BY DEF SkipScope, Skip, Scope, Goto, HoldPcs, InitHolds, ViewHolds
<1>2. ThreadInv' /\ wpc' = wpc
  BY <1>1, ThreadKept
<1>3. TypeOK'
  BY <1>1, <1>2 DEF TypeOK, ThreadInv, MainPcs, InitPcs
<1>4. LockInv'
  BY <1>1 DEF LockInv, GuardedUse, HoldPcs, InitHolds, ViewHolds
<1>5. StageInv'
  BY <1>1 DEF StageInv, ScopesAgree
<1>6. OwnerInv'
  BY <1>1, <1>2 DEF OwnerInv
<1> QED
  BY <1>2, <1>3, <1>4, <1>5, <1>6

\* The scopes that hold the mutex: restart(), the connection and the header.
LEMMA HoldStep ==
  ASSUME IInv, CallRestart \/ Connect \/ InitImdisplay
  PROVE  IInv'
<1> USE DEF IInv
<1>1. /\ UNCHANGED <<ex, rendering, slots, emitGen, calls, gens>>
      /\ mpc \in HoldPcs
      /\ conns' \in Nat /\ (conns' = conns \/ conns' = conns + 1)
      /\ \/ mtx' = mtx /\ mpc' \in HoldPcs
         \/ mtx' = "free" /\ mpc' = "idle"
  <2>1. CASE CallRestart
    BY <2>1 DEF CallRestart, InHold, At, TypeOK, HoldPcs, InitHolds, ViewHolds
  <2>2. CASE Connect
    BY <2>2 DEF Connect, TypeOK, HoldPcs, InitHolds
  <2>3. CASE InitImdisplay
    BY <2>3 DEF InitImdisplay, At, TypeOK, HoldPcs, InitHolds, ViewHolds
  <2> QED
    BY <2>1, <2>2, <2>3
<1>2. ThreadInv' /\ (wpc' = wpc \/ (wpc = "none" /\ wpc' = "boot"))
  <2>1. CASE CallRestart
    BY <2>1, RestartThread DEF CallRestart, InHold
  <2>2. CASE Connect
    BY <2>2, ThreadKept DEF Connect
  <2>3. CASE InitImdisplay
    BY <2>3, AddThread DEF InitImdisplay, MsgTypes
  <2> QED
    BY <2>1, <2>2, <2>3
<1>3. ex.gen # 0 /\ ex.rop /\ ex.vray
  BY <1>1 DEF LockInv, GuardedUse
<1>4. mpc' \in MainPcs /\ mtx' \in {"free", "main"}
  BY <1>1 DEF TypeOK, MainPcs
<1>5. TypeOK'
  BY <1>1, <1>2, <1>4 DEF TypeOK, ThreadInv
<1>6. LockInv'
  BY <1>1, <1>3 DEF LockInv, GuardedUse, HoldPcs, InitHolds, ViewHolds
<1>7. StageInv'
  BY <1>1, <1>3 DEF StageInv, ScopesAgree, HoldPcs, InitHolds, ViewHolds
<1>8. OwnerInv'
  <2>1. slots \in Nat \cup {-1} /\ conns \in Nat
    BY DEF TypeOK
  <2> QED
    BY <1>1, <1>2, <1>3, <2>1 DEF OwnerInv
<1> QED
  BY <1>2, <1>5, <1>6, <1>7, <1>8

\* The worker's end: finished(), its slots, and the thread's last step.
LEMMA FinishStep ==
  ASSUME IInv, EmitFinished \/ FreeExporter \/ SignalDone
  PROVE  IInv'
<1> USE DEF IInv
<1>0. slots \in Nat \cup {-1} /\ conns \in Nat
  BY DEF TypeOK
<1>1. CASE EmitFinished
  <2>1. ThreadInv' /\ wpc' = wpc
    BY <1>1, ThreadKept DEF EmitFinished
  <2>2. TypeOK'
    BY <1>1, <2>1 DEF EmitFinished, TypeOK, ThreadInv
  <2>3. LockInv' /\ StageInv'
    BY <1>1 DEF EmitFinished, LockInv, GuardedUse, StageInv, ScopesAgree
  <2>4. OwnerInv'
    BY <1>0, <1>1, <2>1 DEF EmitFinished, OwnerInv
  <2> QED
    BY <2>1, <2>2, <2>3, <2>4
<1>2. CASE FreeExporter
  <2>1. ThreadInv' /\ wpc' = wpc
    BY <1>2, ThreadKept DEF FreeExporter
  <2>2. ex' \in [gen : Nat, rop : BOOLEAN, vray : BOOLEAN, bound : BOOLEAN]
        /\ ex'.gen = 0
    BY <1>2 DEF FreeExporter, NullExporter
  <2>3. slots' \in Nat \cup {-1}
    <3>1. slots > 0 /\ slots' = slots - 1
      BY <1>2 DEF FreeExporter
    <3> QED
      BY <1>0, <3>1
  <2>4. rendering' \in BOOLEAN /\ UNCHANGED <<mpc, mtx, conns, emitGen, calls, gens>>
    BY <1>2 DEF FreeExporter
  <2>5. TypeOK'
    BY <2>1, <2>2, <2>3, <2>4 DEF TypeOK, ThreadInv
  <2>6. LockInv'
    BY <1>2 DEF FreeExporter, LockInv, GuardedUse
  <2>7. StageInv'
    BY <2>2 DEF StageInv, ScopesAgree
  <2>8. OwnerInv'
    BY <1>0, <1>2, <2>1, <2>2 DEF FreeExporter, OwnerInv
  <2> QED
    BY <2>1, <2>5, <2>6, <2>7, <2>8
<1>3. CASE SignalDone
  <2>1. ThreadInv' /\ wpc' = "none"
    BY <1>3 DEF SignalDone, WorkerFinished, ThreadInv, ThreadTypeOK, WorkerPcs
  <2>2. TypeOK'
    BY <1>3, <2>1 DEF SignalDone, TypeOK, ThreadInv
  <2>3. LockInv' /\ StageInv'
    BY <1>3 DEF SignalDone, LockInv, GuardedUse, StageInv, ScopesAgree
  <2>4. OwnerInv'
    BY <1>0, <1>3, <2>1 DEF SignalDone, OwnerInv
  <2> QED
    BY <2>1, <2>2, <2>3, <2>4
<1> QED
  BY <1>1, <1>2, <1>3

LEMMA IInvStep == IInv /\ [Next]_vars => IInv'
<1> SUFFICES ASSUME IInv, [Next]_vars PROVE IInv'
  OBVIOUS
<1>0. ThreadInv
  BY DEF IInv
<1>1. CASE UNCHANGED vars
  BY <1>0, <1>1, ThreadKept, SessionKept DEF vars
<1>2. CASE Soho \/ InCall
  BY <1>2, CallStep, InitAllocStep, InitScopeStep, SkipStep, HoldStep DEF Soho, InCall
<1>3. CASE WorkerRun /\ UNCHANGED svars
  BY <1>0, <1>3, RunThread, SessionKept
<1>4. CASE EmitFinished \/ FreeExporter \/ SignalDone
  BY <1>4, FinishStep
<1>5. CASE RendererAdds
  BY <1>0, <1>5, AddThread, SessionKept DEF RendererAdds, MsgTypes
<1>6. CASE User
  <2>1. ThreadInv' /\ wpc' = wpc
    BY <1>0, <1>6 DEF User, ViewerCloses, ThreadInv, ThreadTypeOK
  <2> QED
    BY <1>6, <2>1, SessionKept DEF User
<1> QED
  BY <1>1, <1>2, <1>3, <1>4, <1>5, <1>6 DEF Next, Worker

LEMMA IInvHolds == Spec => []IInv
BY InitIInv, IInvStep, PTL DEF Spec

-----------------------------------------------------------------------------

\* The variables of the session keep their types.
THEOREM TypeCorrect == Spec => []TypeOK
<1>1. IInv => TypeOK
  BY DEF IInv
<1> QED
  BY <1>1, IInvHolds, PTL

\* vfhInit()'s last scope and vfhExportView() keep the mutex, the exporter and
\* its renderer from restart() to the header.
THEOREM ScopesAreGuarded == Spec => []GuardedUse
<1>1. IInv => GuardedUse
  BY DEF IInv, LockInv
<1> QED
  BY <1>1, IInvHolds, PTL

\* No scope of vfhInit() finds a half initialised exporter, although the worker
\* may free the exporter between two of them.
THEOREM ScopesFindTheirExporter == Spec => []ScopesAgree
<1>1. IInv => ScopesAgree
  BY DEF IInv, StageInv
<1> QED
  BY <1>1, IInvHolds, PTL

\* The first freeExporter() of a finished() frees the exporter of the session
\* that ended, never one that was allocated after the emission.
THEOREM FirstSlotFreesItsOwn == Spec => FirstSlotFreesItsSession
<1>1. IInv /\ [Next]_vars =>
        [ex.gen # 0 /\ ex'.gen = 0 =>
           wpc = "finish" /\ (slots = conns => ex.gen = emitGen)]_vars
  <2> SUFFICES ASSUME IInv, [Next]_vars, ex.gen # 0, ex'.gen = 0
               PROVE  wpc = "finish" /\ (slots = conns => ex.gen = emitGen)
    OBVIOUS
  <2>1. CASE FreeExporter
    BY <2>1 DEF FreeExporter, IInv, TypeOK, OwnerInv
  <2>2. CASE InitRop
    BY <2>2 DEF InitRop, IInv, TypeOK
  <2>3. CASE InitBind
    BY <2>3 DEF InitBind, IInv, TypeOK
  <2>4. CASE ex' = ex
    BY <2>4
  <2>5. \/ FreeExporter \/ InitRop \/ InitBind \/ ex' = ex
    <3>1. CASE UNCHANGED vars
      BY <3>1 DEF vars, svars
    <3>2. CASE Soho
      BY <3>2 DEF Soho, Generate, Update
    <3>3. CASE IsRopValid \/ SetTime \/ ExportView \/ InitMode \/ InitExporter \/ InitScene
      BY <3>3 DEF IsRopValid, SetTime, ExportView, InitMode, InitExporter, InitScene
    <3>4. CASE InitAlloc
      BY <3>4 DEF InitAlloc
    <3>5. CASE SkipScope \/ CallRestart \/ Connect \/ InitImdisplay
      BY <3>5 DEF SkipScope, Skip, CallRestart, InHold, At, Connect, InitImdisplay
    <3>6. CASE Worker \/ RendererAdds \/ User
      BY <3>6 DEF Worker, EmitFinished, SignalDone, RendererAdds, User, svars
    <3> QED
      BY <3>1, <3>2, <3>3, <3>4, <3>5, <3>6 DEF Next, InCall
  <2> QED
    BY <2>1, <2>2, <2>3, <2>4, <2>5
<1> QED
  BY <1>1, IInvHolds, PTL DEF Spec, FirstSlotFreesItsSession

=============================================================================
