--------------------------- MODULE ImdisplayProofs ----------------------------
(***************************************************************************)
(* The safety properties of the image writer thread with its users, for    *)
(* any number of messages, restarts and buckets, and that its queue        *)
(* implements the mailboxes of TileMailbox.                                *)
(***************************************************************************)
EXTENDS ImdisplaySystem, TLAPS

\* The worker holds a message exactly while it works on one, and is inside
\* writeTile() only with a tile write left.
WorkerInv ==
  /\ msg # NoMsg <=> wpc \in {"work", "probe", "send"}
  /\ wpc \in {"probe", "send"} => msg.type = "Tiles" /\ left > 0

\* The worker takes the oldest message, so what it holds, and the header its
\* device was opened with, are older than everything that waits.
OrderInv ==
  /\ opened < nextId /\ msg.id < nextId
  /\ \A m \in queue : m.id < nextId /\ msg.id < m.id /\ opened < m.id
  /\ NoStaleTiles
  /\ msg.type = "Header" => opened < msg.id

\* add() keeps at most one message of each type waiting, and nothing waits in
\* front of a header: a resolution change is the next thing the viewer sees.
QueueCoalesced ==
  \A m, n \in queue :
    /\ m.type = n.type => m = n
    /\ m.type = "Header" => m.id <= n.id

IInv ==
  /\ TypeOK
  /\ WorkerInv
  /\ OrderInv
  /\ QueueCoalesced
  /\ OwnedOnce

LEMMA NoMsgFacts ==
  /\ NoMsg \notin Message /\ NoMsg.id = 0 /\ NoMsg.type = "None"
  /\ \A m \in Message : m.id \in Nat \ {0} /\ m.type \in MsgTypes
  /\ \A m, n \in Message : m.id = n.id /\ m.type = n.type => m = n
BY DEF NoMsg, Message, MsgTypes

LEMMA InitIInv == Init => IInv
<1> SUFFICES ASSUME Init PROVE IInv
  OBVIOUS
<1> USE NoMsgFacts DEF Init, ThreadInit
<1>1. TypeOK
  <2>1. ThreadTypeOK
    <3>1. 0 \in 0 .. Buckets /\ 1 \in Nat \ {0}
      BY BucketsAssumption
    <3> QED
      BY <3>1 DEF ThreadTypeOK, WorkerPcs
  <2> QED
    BY <2>1, BoundsAssumption DEF TypeOK
<1>2. WorkerInv /\ OrderInv /\ QueueCoalesced
  BY DEF WorkerInv, OrderInv, NoStaleTiles, QueueCoalesced
<1>3. Ids(queue) = {} /\ InHand = {} /\ 1 .. nextId - 1 = {}
  BY DEF Ids, InHand
<1>4. OwnedOnce
  BY <1>3 DEF OwnedOnce
<1> QED
  BY <1>1, <1>2, <1>4 DEF IInv

-----------------------------------------------------------------------------
(* The methods other threads call. *)

\* add(), whoever calls it.
LEMMA AddStep ==
  ASSUME IInv, NEW type \in MsgTypes, Add(type),
         cpc' \in {"idle", "clear", "start", "header", "join", "gone"},
         restarts' \in 0 .. MaxRestarts
  PROVE  IInv'
<1> DEFINE S == Superseded(type)
           new == [type |-> type, id |-> nextId]
<1> USE NoMsgFacts DEF IInv
<1>1. /\ queue' = (queue \ S) \cup {new} /\ freed' = freed \cup Ids(S)
      /\ nextId' = nextId + 1
      /\ UNCHANGED <<isRunning, wpc, msg, left, device, opened, viewer, cause>>
  BY DEF Add
<1>2. /\ S \subseteq queue /\ queue \subseteq Message /\ nextId \in Nat \ {0}
      /\ new \in Message /\ new.id = nextId /\ new.type = type
  BY DEF Superseded, TypeOK, ThreadTypeOK, Message
<1> HIDE DEF S, new
<1>3. TypeOK'
  <2>1. Ids(S) \subseteq Nat \ {0}
    BY <1>2 DEF Ids
  <2>2. queue' \subseteq Message /\ nextId' \in Nat \ {0}
    BY <1>1, <1>2
  <2>3. freed' \subseteq Nat \ {0}
    BY <1>1, <2>1 DEF TypeOK, ThreadTypeOK
  <2>4. ThreadTypeOK'
    BY <1>1, <2>2, <2>3 DEF TypeOK, ThreadTypeOK
  <2> QED
    BY <2>4 DEF TypeOK
<1>4. WorkerInv'
  BY <1>1 DEF WorkerInv
<1>5. OrderInv'
  BY <1>1, <1>2 DEF OrderInv, NoStaleTiles, TypeOK, ThreadTypeOK
<1>6. QueueCoalesced'
  <2>1. \A m \in queue \ S : m.type # type
    BY DEF S, Superseded
  <2>2. type = "Header" => queue \ S = {}
    BY DEF S, Superseded
  <2>3. \A m \in queue : m.id < nextId
    BY DEF OrderInv
  <2> QED
    BY <1>1, <1>2, <2>1, <2>2, <2>3 DEF QueueCoalesced
<1>7. OwnedOnce'
  <2>1. \A m \in queue : m.id \in 1 .. nextId - 1
    BY <1>2 DEF OrderInv
  <2>2. Ids(queue') = (Ids(queue) \ Ids(S)) \cup {nextId}
    <3>1. \A m \in queue \ S : m.id \notin Ids(S)
      BY <1>2 DEF OwnedOnce, Ids
    <3>2. Ids(queue \ S) = Ids(queue) \ Ids(S)
      BY <1>2, <3>1 DEF Ids
    <3>3. Ids(queue') = Ids(queue \ S) \cup {nextId}
      BY <1>1, <1>2 DEF Ids
    <3> QED
      BY <3>2, <3>3
  <2>3. Ids(S) \subseteq Ids(queue)
    BY <1>2 DEF Ids
  <2>4. InHand' = InHand
    BY <1>1 DEF InHand
  <2>5. 1 .. nextId' - 1 = (1 .. nextId - 1) \cup {nextId} /\ nextId \notin 1 .. nextId - 1
    BY <1>1, <1>2
  <2>6. /\ Ids(queue') \cup InHand' \cup freed' = 1 .. nextId' - 1
        /\ Ids(queue') \cap InHand' = {}
        /\ Ids(queue') \cap freed' = {}
        /\ InHand' \cap freed' = {}
    <3>1. /\ Ids(queue) \cup InHand \cup freed = 1 .. nextId - 1
          /\ Ids(queue) \cap InHand = {} /\ Ids(queue) \cap freed = {}
          /\ InHand \cap freed = {}
      BY DEF OwnedOnce
    <3>2. freed' = freed \cup Ids(S)
      BY <1>1
    <3>3. /\ (Ids(queue) \ Ids(S)) \cup {nextId} \cup InHand \cup (freed \cup Ids(S))
               = (1 .. nextId - 1) \cup {nextId}
          /\ ((Ids(queue) \ Ids(S)) \cup {nextId}) \cap InHand = {}
          /\ ((Ids(queue) \ Ids(S)) \cup {nextId}) \cap (freed \cup Ids(S)) = {}
          /\ InHand \cap (freed \cup Ids(S)) = {}
      <4> DEFINE A == Ids(queue)
                 B == Ids(S)
                 H == InHand
                 R == 1 .. nextId - 1
      <4>1. /\ B \subseteq A /\ nextId \notin R /\ A \cup H \cup freed = R
            /\ A \cap H = {} /\ A \cap freed = {} /\ H \cap freed = {}
        BY <2>3, <2>5, <3>1
      <4> HIDE DEF A, B, H, R
      <4>2. ((A \ B) \cup {nextId}) \cup H \cup (freed \cup B) = R \cup {nextId}
        BY ONLY <4>1
      <4>3. ((A \ B) \cup {nextId}) \cap H = {}
        BY ONLY <4>1
      <4>4. ((A \ B) \cup {nextId}) \cap (freed \cup B) = {}
        BY ONLY <4>1
      <4>5. H \cap (freed \cup B) = {}
        BY ONLY <4>1
      <4> QED
        BY <4>2, <4>3, <4>4, <4>5 DEF A, B, H, R
    <3> QED
      BY ONLY <2>2, <2>4, <2>5, <3>2, <3>3
  <2>7. \A m, n \in queue' : m.id = n.id => m = n
    BY <1>1, <1>2, <2>1 DEF OwnedOnce
  <2> QED
    BY <2>6, <2>7 DEF OwnedOnce
<1> QED
  BY <1>3, <1>4, <1>5, <1>6, <1>7

\* clear(): the queue's messages are deleted, and nothing else is.
LEMMA ClearKeeps ==
  ASSUME IInv, ClearQueue, UNCHANGED <<nextId, msg, opened>>
  PROVE  /\ queue' \subseteq Message /\ freed' \subseteq Nat \ {0}
         /\ OrderInv' /\ QueueCoalesced' /\ OwnedOnce'
<1> USE NoMsgFacts DEF IInv, ClearQueue
<1>1. queue \subseteq Message /\ Ids(queue) \subseteq Nat \ {0}
  BY DEF TypeOK, ThreadTypeOK, Ids
<1>2. queue' \subseteq Message /\ freed' \subseteq Nat \ {0}
  BY <1>1 DEF TypeOK, ThreadTypeOK
<1>3. OrderInv' /\ QueueCoalesced'
  BY DEF OrderInv, NoStaleTiles, QueueCoalesced
<1>4. Ids(queue') = {} /\ InHand' = InHand
  BY DEF Ids, InHand
<1>5. OwnedOnce'
  BY <1>4 DEF OwnedOnce
<1> QED
  BY <1>2, <1>3, <1>5

\* A step that leaves the messages alone.
LEMMA MessagesKept ==
  ASSUME IInv, UNCHANGED <<queue, nextId, freed, msg, opened>>
  PROVE  OrderInv' /\ QueueCoalesced' /\ OwnedOnce'
BY DEF IInv, OrderInv, NoStaleTiles, QueueCoalesced, OwnedOnce, Ids, InHand

LEMMA UiStep ==
  ASSUME IInv,
         UiRestart \/ UiClear \/ UiStart \/ UiDestroy \/ UiJoin
  PROVE  IInv'
<1> USE DEF IInv
<1>1. CASE UiClear
  <2>1. OrderInv' /\ QueueCoalesced' /\ OwnedOnce'
        /\ queue' \subseteq Message /\ freed' \subseteq Nat \ {0}
    BY <1>1, ClearKeeps DEF UiClear, RestartClear
  <2>2. TypeOK'
    BY <1>1, <2>1 DEF UiClear, RestartClear, TypeOK, ThreadTypeOK
  <2>3. WorkerInv'
    BY <1>1 DEF UiClear, RestartClear, WorkerInv
  <2> QED
    BY <2>1, <2>2, <2>3
<1>2. CASE UiRestart \/ UiStart \/ UiDestroy \/ UiJoin
  <2>1. OrderInv' /\ QueueCoalesced' /\ OwnedOnce'
    BY <1>2, MessagesKept
       DEF UiRestart, UiStart, UiDestroy, UiJoin, RestartSet, RestartStart, Stop, tvars
  <2>2. TypeOK'
    <3>1. CASE UiRestart
      BY <3>1, BoundsAssumption DEF UiRestart, RestartSet, TypeOK, ThreadTypeOK
    <3>2. CASE UiStart
      BY <3>2 DEF UiStart, RestartStart, TypeOK, ThreadTypeOK, WorkerPcs
    <3>3. CASE UiDestroy
      BY <3>3 DEF UiDestroy, Stop, TypeOK, ThreadTypeOK
    <3>4. CASE UiJoin
      BY <3>4 DEF UiJoin, tvars, TypeOK, ThreadTypeOK
    <3> QED
      BY <1>2, <3>1, <3>2, <3>3, <3>4
  <2>3. WorkerInv'
    BY <1>2
       DEF UiRestart, UiStart, UiDestroy, UiJoin, RestartSet, RestartStart, Stop, tvars,
           WorkerInv
  <2> QED
    BY <2>1, <2>2, <2>3
<1> QED
  BY <1>1, <1>2

-----------------------------------------------------------------------------
(* run() *)

LEMMA TakeStep ==
  ASSUME IInv, WorkerTake, UNCHANGED <<cpc, restarts>>
  PROVE  IInv'
<1> USE NoMsgFacts DEF IInv
<1>1. CASE queue = {} /\ wpc' = "loop" /\ UNCHANGED <<queue, msg, left>>
  <2>1. OrderInv' /\ QueueCoalesced' /\ OwnedOnce'
    BY <1>1, MessagesKept DEF WorkerTake
  <2>2. TypeOK' /\ WorkerInv'
    BY <1>1 DEF WorkerTake, TypeOK, ThreadTypeOK, WorkerPcs, WorkerInv
  <2> QED
    BY <2>1, <2>2
<1>2. ASSUME NEW m \in queue,
             \A n \in queue : m.id <= n.id,
             queue' = queue \ {m}, msg' = m,
             left' = IF m.type = "Tiles" THEN Buckets ELSE 0,
             wpc' = "work"
      PROVE  IInv'
  <2> UNCHANGED <<nextId, freed, isRunning, device, opened, viewer, cause>> /\ wpc = "take"
    BY DEF WorkerTake
  <2>1. /\ queue \subseteq Message /\ m \in Message /\ msg = NoMsg
        /\ \A n \in queue : n.id \in Nat \ {0}
    BY DEF TypeOK, ThreadTypeOK, WorkerInv
  <2>2. TypeOK'
    BY <1>2, <2>1, BucketsAssumption DEF TypeOK, ThreadTypeOK, WorkerPcs
  <2>3. WorkerInv'
    BY <1>2, <2>1 DEF WorkerInv
  <2>4. \A n \in queue' : m.id < n.id
    BY <1>2, <2>1 DEF OwnedOnce
  <2>5. OrderInv'
    BY <1>2, <2>1, <2>4 DEF OrderInv, NoStaleTiles
  <2>6. QueueCoalesced'
    BY <1>2 DEF QueueCoalesced
  <2>7. OwnedOnce'
    <3>1. InHand = {} /\ InHand' = {m.id}
      BY <1>2, <2>1 DEF InHand
    <3>2. Ids(queue') = Ids(queue) \ {m.id} /\ m.id \in Ids(queue)
      BY <1>2, <2>1, <2>4 DEF Ids
    <3>3. /\ Ids(queue') \cup InHand' \cup freed' = 1 .. nextId' - 1
          /\ Ids(queue') \cap InHand' = {}
          /\ Ids(queue') \cap freed' = {}
          /\ InHand' \cap freed' = {}
      BY <3>1, <3>2 DEF OwnedOnce
    <3>4. \A n, o \in queue' : n.id = o.id => n = o
      BY <1>2 DEF OwnedOnce
    <3> QED
      BY <3>3, <3>4 DEF OwnedOnce
  <2> QED
    BY <2>2, <2>3, <2>5, <2>6, <2>7
<1> QED
  BY <1>1, <1>2 DEF WorkerTake

\* The end of a message: run() deletes it.
LEMMA FreeStep ==
  ASSUME IInv, ProcessHeader \/ ProcessProgress \/ EndTiles,
         UNCHANGED <<cpc, restarts>>
  PROVE  IInv'
<1> USE NoMsgFacts DEF IInv
<1>1. /\ wpc = "work" /\ msg # NoMsg /\ msg \in Message
      /\ FreeMsg
      /\ UNCHANGED <<queue, nextId, isRunning, cause>>
  BY DEF ProcessHeader, ProcessProgress, EndTiles, WorkerInv, TypeOK, ThreadTypeOK
<1>2. /\ msg' = NoMsg /\ left' = 0 /\ wpc' = "loop" /\ freed' = freed \cup {msg.id}
  BY <1>1 DEF FreeMsg
<1>3. opened' \in {opened, msg.id} /\ opened' \in Nat
  BY <1>1 DEF ProcessHeader, ProcessProgress, EndTiles, TypeOK, ThreadTypeOK
<1>4. /\ device' \in {"none", "fresh", "open", "closed"}
      /\ viewer' \in {"up", "gone"}
  BY DEF ProcessHeader, ProcessProgress, EndTiles, TypeOK, ThreadTypeOK
<1>5. TypeOK'
  <2>1. msg.id \in Nat \ {0}
    BY <1>1
  <2>2. 0 \in 0 .. Buckets
    BY BucketsAssumption
  <2>3. freed' \subseteq Nat \ {0}
    BY <1>2, <2>1 DEF TypeOK, ThreadTypeOK
  <2>4. ThreadTypeOK'
    BY <1>1, <1>2, <1>3, <1>4, <2>2, <2>3 DEF TypeOK, ThreadTypeOK, WorkerPcs
  <2> QED
    BY <2>4 DEF TypeOK
<1>6. WorkerInv'
  BY <1>2 DEF WorkerInv
<1>7. OrderInv'
  BY <1>1, <1>2, <1>3 DEF OrderInv, NoStaleTiles, TypeOK, ThreadTypeOK
<1>8. QueueCoalesced'
  BY <1>1 DEF QueueCoalesced
<1>9. OwnedOnce'
  <2>1. InHand = {msg.id} /\ InHand' = {} /\ Ids(queue') = Ids(queue)
    BY <1>1, <1>2 DEF InHand, Ids
  <2> QED
    BY <1>1, <1>2, <2>1 DEF OwnedOnce
<1> QED
  BY <1>5, <1>6, <1>7, <1>8, <1>9

LEMMA WriteStep ==
  ASSUME IInv, NextBucket \/ ProbeDevice \/ WriteTile, UNCHANGED <<cpc, restarts>>
  PROVE  IInv'
<1> USE DEF IInv
<1>1. OrderInv' /\ QueueCoalesced' /\ OwnedOnce'
  BY MessagesKept DEF NextBucket, ProbeDevice, WriteTile
<1>2. WorkerInv'
  BY DEF NextBucket, ProbeDevice, WriteTile, WorkerInv, TypeOK, ThreadTypeOK
<1>3. left' \in 0 .. Buckets
  BY BucketsAssumption
     DEF NextBucket, ProbeDevice, WriteTile, WorkerInv, TypeOK, ThreadTypeOK
<1>4. TypeOK'
  BY <1>3 DEF NextBucket, ProbeDevice, WriteTile, TypeOK, ThreadTypeOK, WorkerPcs
<1> QED
  BY <1>1, <1>2, <1>4

LEMMA LoopStep ==
  ASSUME IInv, WorkerBoot \/ WorkerLoop \/ WorkerFree \/ WorkerFinished \/ ViewerCloses,
         UNCHANGED <<cpc, restarts>>
  PROVE  IInv'
<1> USE DEF IInv
<1>1. UNCHANGED <<queue, nextId, freed, isRunning, msg, left>> /\ opened' \in {0, opened}
  BY DEF WorkerBoot, WorkerLoop, WorkerFree, WorkerFinished, ViewerCloses
<1>2. TypeOK'
  BY <1>1 DEF WorkerBoot, WorkerLoop, WorkerFree, WorkerFinished, ViewerCloses,
              TypeOK, ThreadTypeOK, WorkerPcs
<1>3. WorkerInv'
  BY DEF WorkerBoot, WorkerLoop, WorkerFree, WorkerFinished, ViewerCloses, WorkerInv
<1>4. OrderInv'
  BY <1>1, NoMsgFacts DEF OrderInv, NoStaleTiles, TypeOK, ThreadTypeOK
<1>5. QueueCoalesced' /\ OwnedOnce'
  BY <1>1 DEF QueueCoalesced, OwnedOnce, Ids, InHand
<1> QED
  BY <1>2, <1>3, <1>4, <1>5

LEMMA TailStep ==
  ASSUME IInv, WorkerTail, UNCHANGED <<cpc, restarts>>
  PROVE  IInv'
<1> USE DEF IInv, WorkerTail
<1>1. OrderInv' /\ QueueCoalesced' /\ OwnedOnce'
      /\ queue' \subseteq Message /\ freed' \subseteq Nat \ {0}
  BY ClearKeeps
<1>2. TypeOK' /\ WorkerInv'
  BY <1>1 DEF TypeOK, ThreadTypeOK, WorkerPcs, WorkerInv
<1> QED
  BY <1>1, <1>2

LEMMA IInvStep == IInv /\ [Next]_vars => IInv'
<1> SUFFICES ASSUME IInv, [Next]_vars PROVE IInv'
  OBVIOUS
<1>1. CASE UiRestart \/ UiClear \/ UiStart \/ UiDestroy \/ UiJoin
  BY <1>1, UiStep
<1>2. CASE UiHeader
  <2>1. cpc' = "idle" /\ restarts' \in 0 .. MaxRestarts /\ Add("Header")
    BY <1>2 DEF UiHeader, IInv, TypeOK
  <2> QED
    BY <2>1, AddStep DEF MsgTypes
<1>3. CASE RendererAdds
  <2>1. PICK type \in {"Tiles", "Progress"} : Add(type)
    BY <1>3 DEF RendererAdds
  <2>2. /\ cpc' \in {"idle", "clear", "start", "header", "join", "gone"}
        /\ restarts' \in 0 .. MaxRestarts
    BY <1>3 DEF RendererAdds, IInv, TypeOK
  <2> QED
    BY <2>1, <2>2, AddStep DEF MsgTypes
<1>4. CASE Worker
  BY <1>4, TakeStep, FreeStep, WriteStep, LoopStep, TailStep DEF Worker, WorkerRun
<1>5. CASE User
  BY <1>5, LoopStep DEF User
<1>6. CASE UNCHANGED vars
  <2>1. OrderInv' /\ QueueCoalesced' /\ OwnedOnce'
    BY <1>6, MessagesKept DEF vars, tvars
  <2>2. TypeOK' /\ WorkerInv'
    BY <1>6 DEF vars, tvars, IInv, TypeOK, ThreadTypeOK, WorkerInv
  <2> QED
    BY <2>1, <2>2 DEF IInv
<1> QED
  BY <1>1, <1>2, <1>3, <1>4, <1>5, <1>6 DEF Next

LEMMA IInvHolds == Spec => []IInv
BY InitIInv, IInvStep, PTL DEF Spec

\* The variables of the thread and of its users keep their types.
THEOREM TypeCorrect == Spec => []TypeOK
<1>1. IInv => TypeOK
  BY DEF IInv
<1> QED
  BY <1>1, IInvHolds, PTL

\* add() leaves at most one message of a type waiting, and none in front of a
\* header.
THEOREM Coalesced == Spec => []QueueCoalesced
<1>1. IInv => QueueCoalesced
  BY DEF IInv
<1> QED
  BY <1>1, IInvHolds, PTL

\* No message is deleted twice, used after its deletion, or leaked, however
\* add(), clear() and run() interleave.
THEOREM MessagesOwnedOnce == Spec => []OwnedOnce
<1>1. IInv => OwnedOnce
  BY DEF IInv
<1> QED
  BY <1>1, IInvHolds, PTL

\* Tiles that are older than the header of the device are never written to it.
THEOREM TilesFollowHeader == Spec => []NoStaleTiles
<1>1. IInv => NoStaleTiles
  BY DEF IInv, OrderInv
<1> QED
  BY <1>1, IInvHolds, PTL

-----------------------------------------------------------------------------
(* The refinement. *)

\* A type of which no message waits has stamp 0, and one of which a single
\* message waits has its stamp.
LEMMA NewestNone ==
  ASSUME NEW Q, NEW k, \A m \in Q : m.type # k
  PROVE  Newest(Q, k) = 0
BY DEF Newest

LEMMA NewestIs ==
  ASSUME NEW Q, NEW k, NEW n \in Q, n.type = k, \A m \in Q : m.type = k => m = n
  PROVE  Newest(Q, k) = n.id
<1> DEFINE W == {m \in Q : m.type = k}
<1>1. W = {n}
  OBVIOUS
<1>2. (CHOOSE m \in W : TRUE) = n
  BY <1>1
<1> QED
  BY <1>1, <1>2 DEF Newest

\* The stamp depends on the messages of the type only.
LEMMA NewestSame ==
  ASSUME NEW P, NEW Q, NEW k, {m \in P : m.type = k} = {m \in Q : m.type = k}
  PROVE  Newest(P, k) = Newest(Q, k)
<1> DEFINE Stamp(W) == IF W = {} THEN 0 ELSE (CHOOSE m \in W : TRUE).id
<1>1. /\ Newest(P, k) = Stamp({m \in P : m.type = k})
      /\ Newest(Q, k) = Stamp({m \in Q : m.type = k})
  BY DEF Newest
<1> HIDE DEF Stamp
<1> QED
  BY <1>1

LEMMA RefineInit == Init => Mailbox!Init
<1> SUFFICES ASSUME Init PROVE Mailbox!Init
  OBVIOUS
<1>1. \A k \in MsgTypes : Newest(queue, k) = 0
  BY NewestNone DEF Init, ThreadInit
<1> QED
  BY <1>1 DEF Init, ThreadInit, Mailbox!Init, Mailbox!Empty, Mailbox!Nobody, Mailbox!Kinds,
              MsgTypes, NoMsg

\* add() is Put.
LEMMA RefineAdd ==
  ASSUME IInv, NEW type \in MsgTypes, Add(type)
  PROVE  Mailbox!Put(type)
<1> DEFINE S == Superseded(type)
           new == [type |-> type, id |-> nextId]
<1> USE DEF IInv
<1>1. queue' = (queue \ S) \cup {new} /\ nextId' = nextId + 1 /\ UNCHANGED msg
  BY DEF Add
<1>2. new.type = type /\ new.id = nextId /\ nextId \in Nat
  BY DEF TypeOK, ThreadTypeOK
<1> HIDE DEF new
<1>3. Newest(queue', type) = nextId
  <2>1. \A m \in queue' : m.type = type => m = new
    BY <1>1 DEF S, Superseded
  <2>2. new \in queue' /\ new.type = type
    BY <1>1, <1>2
  <2>3. Newest(queue', type) = new.id
    BY <2>1, <2>2, NewestIs
  <2> QED
    BY <1>2, <2>3
<1>4. ASSUME NEW k \in MsgTypes, k # type
      PROVE  Newest(queue', k) = IF type = "Header" THEN 0 ELSE Newest(queue, k)
  <2>1. CASE type = "Header"
    <3>1. \A m \in queue' : m.type # k
      BY <1>1, <1>2, <1>4, <2>1 DEF S, Superseded
    <3> QED
      BY <2>1, <3>1, NewestNone
  <2>2. CASE type # "Header"
    <3>1. {m \in queue' : m.type = k} = {m \in queue : m.type = k}
      BY <1>1, <1>2, <1>4, <2>2 DEF S, Superseded
    <3>2. Newest(queue', k) = Newest(queue, k)
      BY <3>1, NewestSame
    <3> QED
      BY <2>2, <3>2
  <2> QED
    BY <2>1, <2>2
<1>5. /\ nextId' - 1 = (nextId - 1) + 1 /\ (nextId - 1) + 1 = nextId
      /\ Mailbox!Kinds = MsgTypes
  BY <1>1, <1>2 DEF Mailbox!Kinds, MsgTypes
<1>6. [k \in MsgTypes |-> Newest(queue', k)]
        = [IF type = "Header" THEN [k \in MsgTypes |-> 0]
           ELSE [k \in MsgTypes |-> Newest(queue, k)]
             EXCEPT ![type] = nextId]
  BY <1>3, <1>4
<1> QED
  BY <1>1, <1>5, <1>6 DEF Mailbox!Put, Mailbox!Empty

\* WorkerTake is Take of the head's type, or a stutter.
LEMMA RefineTake ==
  ASSUME IInv, WorkerTake
  PROVE  (\E k \in Mailbox!Kinds : Mailbox!Take(k)) \/ UNCHANGED <<queue, nextId, msg>>
<1> USE NoMsgFacts DEF IInv
<1>1. CASE UNCHANGED <<queue, msg>>
  BY <1>1 DEF WorkerTake
<1>2. ASSUME NEW m \in queue, \A n \in queue : m.id <= n.id,
             queue' = queue \ {m}, msg' = m
      PROVE  Mailbox!Take(m.type)
  <2>1. /\ m \in Message /\ queue \subseteq Message /\ m.type \in MsgTypes
        /\ \A n \in queue : n.id \in Nat \ {0}
    BY DEF TypeOK, ThreadTypeOK
  <2>2. \A n \in queue : n.type = m.type => n = m
    BY DEF QueueCoalesced
  <2>3. Newest(queue, m.type) = m.id
    BY <2>2, NewestIs
  <2>4. Newest(queue', m.type) = 0
    BY <1>2, <2>2, NewestNone
  <2>5. \A k \in MsgTypes : k # m.type => Newest(queue', k) = Newest(queue, k)
    <3> SUFFICES ASSUME NEW k \in MsgTypes, k # m.type
                 PROVE  Newest(queue', k) = Newest(queue, k)
      OBVIOUS
    <3>1. {n \in queue' : n.type = k} = {n \in queue : n.type = k}
      BY <1>2
    <3> QED
      BY <3>1, NewestSame
  <2>6. Newest(queue, "Header") # 0 => m.type = "Header"
    <3> SUFFICES ASSUME m.type # "Header" PROVE Newest(queue, "Header") = 0
      OBVIOUS
    <3>1. ASSUME NEW h \in queue, h.type = "Header" PROVE FALSE
      <4>1. h.id <= m.id /\ m.id <= h.id
        BY <1>2, <3>1 DEF QueueCoalesced
      <4>2. h.id = m.id
        BY <2>1, <4>1
      <4> QED
        BY <3>1, <4>2 DEF OwnedOnce
    <3> QED
      BY <3>1, NewestNone
  <2>7. m = [type |-> m.type, id |-> m.id]
    BY <2>1 DEF Message
  <2> UNCHANGED nextId
    BY DEF WorkerTake
  <2> QED
    BY <1>2, <2>1, <2>3, <2>4, <2>5, <2>6, <2>7 DEF Mailbox!Take, MsgTypes
<1>3. \A m \in queue : m.type \in Mailbox!Kinds
  BY DEF TypeOK, ThreadTypeOK, Mailbox!Kinds, MsgTypes
<1> QED
  BY <1>1, <1>2, <1>3 DEF WorkerTake

LEMMA RefineClear ==
  ASSUME ClearQueue, UNCHANGED <<nextId, msg>>
  PROVE  Mailbox!Clear
<1>1. \A k \in MsgTypes : Newest(queue', k) = 0
  BY NewestNone DEF ClearQueue
<1> QED
  BY <1>1 DEF Mailbox!Clear, Mailbox!Empty, Mailbox!Kinds, MsgTypes

\* Every step of the threads is a step of the mailboxes or changes none.
LEMMA RefineStep == IInv /\ [Next]_vars => [Mailbox!Next]_(Mailbox!vars)
<1> SUFFICES ASSUME IInv, [Next]_vars PROVE Mailbox!Next \/ UNCHANGED Mailbox!vars
  OBVIOUS
<1>0. ASSUME UNCHANGED <<queue, nextId, msg>> PROVE UNCHANGED Mailbox!vars
  BY <1>0 DEF Mailbox!vars
<1>1. CASE UiRestart \/ UiStart \/ UiDestroy \/ UiJoin \/ User \/ UNCHANGED vars
  BY <1>0, <1>1 DEF UiRestart, UiStart, UiDestroy, UiJoin, User, RestartSet, RestartStart, Stop,
                    ViewerCloses, vars, tvars
<1>2. CASE UiClear
  BY <1>2, RefineClear DEF UiClear, RestartClear, Mailbox!Next
<1>3. CASE UiHeader
  BY <1>3, RefineAdd DEF UiHeader, MsgTypes, Mailbox!Next, Mailbox!Kinds
<1>4. CASE RendererAdds
  BY <1>4, RefineAdd DEF RendererAdds, MsgTypes, Mailbox!Next, Mailbox!Kinds
<1>5. CASE Worker
  <2>1. CASE WorkerTake
    BY <1>0, <2>1, RefineTake DEF Mailbox!Next
  <2>2. CASE ProcessHeader \/ ProcessProgress \/ EndTiles
    <3>1. UNCHANGED <<queue, nextId>> /\ msg' = NoMsg
      BY <2>2 DEF ProcessHeader, ProcessProgress, EndTiles, FreeMsg
    <3> QED
      BY <3>1 DEF Mailbox!Next, Mailbox!Release, Mailbox!Nobody, NoMsg
  <2>3. CASE WorkerTail
    BY <2>3, RefineClear DEF WorkerTail, Mailbox!Next
  <2>4. CASE WorkerBoot \/ WorkerLoop \/ NextBucket \/ ProbeDevice \/ WriteTile
             \/ WorkerFree \/ WorkerFinished
    BY <1>0, <2>4 DEF WorkerBoot, WorkerLoop, NextBucket, ProbeDevice, WriteTile,
                      WorkerFree, WorkerFinished
  <2> QED
    BY <1>5, <2>1, <2>2, <2>3, <2>4 DEF Worker, WorkerRun
<1> QED
  BY <1>1, <1>2, <1>3, <1>4, <1>5 DEF Next

\* The queue, add(), clear() and run()'s dequeue implement TileMailbox: the
\* viewer is given the newest message of each type, and headers first.
THEOREM QueueImplementsMailbox == Spec => ImplementsMailbox
BY RefineInit, RefineStep, IInvHolds, PTL DEF Spec, ImplementsMailbox, Mailbox!Spec

=============================================================================
