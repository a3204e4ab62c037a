---------------------------- MODULE VRayInstances ----------------------------
(***************************************************************************)
(* The registry of V-Ray renderer instances.  The plugin and the Python    *)
(* IPR module each link their own copy of the code and find each other's   *)
(* instances through a shared memory segment named by the process id: the  *)
(* one VRayInit of the process and a table of the renderers, which whoever *)
(* unloads deletes before it deletes VRayInit.                             *)
(*                                                                         *)
(* All calls are made on Houdini's UI thread, one at a time, except        *)
(* deleteVRayRenderer(), which freeExporter() also makes on the image      *)
(* writer's thread.  A section under the segment's lock is one action.     *)
(***************************************************************************)
EXTENDS Naturals

CONSTANTS
  Modules,       \* the modules that link the registry
  Renderers,     \* addresses a renderer may be allocated at
  Null,          \* the null pointer
  MaxInstances   \* slots of the table (256 in the code)

ASSUME NullAssumption == Null \notin Renderers
ASSUME SlotsAssumption == MaxInstances \in Nat

VARIABLES
  present,    \* the segment exists
  attached,   \* modules attached to it
  vrayInit,   \* there is a VRayInit
  slot,       \* InstancesStorage::vrayInstances
  alive,      \* renderers that were created and not deleted
  held,       \* module -> renderers its clients hold a pointer to
  missed,     \* renderers created while the table was full
  pc,         \* the UI thread's progress in newVRayInit() and its caller
  unloaded    \* modules that have run deleteVRayInit()

vars == <<present, attached, vrayInit, slot, alive, held, missed, pc, unloaded>>

Slots == 1 .. MaxInstances

EmptyTable == [i \in Slots |-> Null]
Idle == [at |-> "idle", m |-> Null]
Tracked == {slot[i] : i \in Slots} \ {Null}

TypeOK ==
  /\ present \in BOOLEAN
  /\ attached \subseteq Modules
  /\ vrayInit \in BOOLEAN
  /\ slot \in [Slots -> Renderers \cup {Null}]
  /\ alive \subseteq Renderers
  /\ held \in [Modules -> SUBSET Renderers]
  /\ missed \subseteq Renderers
  /\ pc \in {Idle} \cup [at : {"dummy", "ready"}, m : Modules]
  /\ unloaded \subseteq Modules

Init ==
  /\ present = FALSE /\ attached = {} /\ vrayInit = FALSE
  /\ slot = EmptyTable
  /\ alive = {} /\ held = [m \in Modules |-> {}] /\ missed = {}
  /\ pc = Idle /\ unloaded = {}

\* getCreateSharedMemory() and the locked section of newVRayInit(): the segment
\* is created and cleared, or attached; VRayInit is created if there is none,
\* which may fail.
NewVRayInit(m) ==
  /\ pc = Idle /\ m \notin unloaded
  /\ present' = TRUE
  /\ attached' = attached \cup {m}
  /\ slot' = IF present THEN slot ELSE EmptyTable
  /\ \/ present /\ vrayInit
        /\ UNCHANGED vrayInit
        /\ pc' = [at |-> "ready", m |-> m]
     \/ ~(present /\ vrayInit)
        /\ vrayInit' = TRUE
        /\ pc' = [at |-> "dummy", m |-> m]
     \/ ~(present /\ vrayInit)
        /\ vrayInit' = FALSE
        /\ pc' = Idle
  /\ UNCHANGED <<alive, held, missed, unloaded>>

\* newVRayRenderer(), the instance created at r: the first free slot takes it;
\* a full table leaves it out.
FirstFree(i) == slot[i] = Null /\ \A j \in 1 .. i - 1 : slot[j] # Null

Create(r) ==
  /\ r \in Renderers \ alive
  /\ alive' = alive \cup {r}
  /\ \/ \E i \in Slots :
          /\ FirstFree(i)
          /\ slot' = [slot EXCEPT ![i] = r]
          /\ missed' = missed \ {r}
     \/ /\ \A i \in Slots : slot[i] # Null
        /\ missed' = missed \cup {r}
        /\ UNCHANGED slot

\* The end of newVRayInit(): the first caller's dummy renderer, which no client
\* holds.
NewDummy(r) ==
  /\ pc.at = "dummy"
  /\ Create(r)
  /\ pc' = [pc EXCEPT !.at = "ready"]
  /\ UNCHANGED <<present, attached, vrayInit, held, unloaded>>

\* initRenderer(), getGpuDeviceList(): the client that got an init makes its
\* renderer.
NewVRayRenderer(r) ==
  /\ pc.at = "ready"
  /\ Create(r)
  /\ held' = [held EXCEPT ![pc.m] = @ \cup {r}]
  /\ pc' = Idle
  /\ UNCHANGED <<present, attached, vrayInit, unloaded>>

\* The constructor throws, or the client wants no more than the init
\* (hasVRScansGUILicense()).
NoRenderer ==
  /\ pc # Idle
  /\ pc' = Idle
  /\ UNCHANGED <<present, attached, vrayInit, slot, alive, held, missed, unloaded>>

\* Mutant: the slot of the deleted renderer is not emptied.
DeleteKeepsSlot(m, r) ==
  /\ m \notin unloaded
  /\ r \in held[m]
  /\ held' = [held EXCEPT ![m] = @ \ {r}]
  /\ IF r \in Tracked THEN alive' = alive \ {r} ELSE UNCHANGED alive
  /\ UNCHANGED <<present, attached, vrayInit, slot, missed, pc, unloaded>>

\* deleteVRayRenderer() of a pointer module m holds: the slot that holds it is
\* freed; a pointer that is in no slot is only forgotten by its owner.
DeleteVRayRenderer(m, r) ==
  /\ m \notin unloaded
  /\ r \in held[m]
  /\ held' = [held EXCEPT ![m] = @ \ {r}]
  /\ \/ \E i \in Slots :
          /\ slot[i] = r /\ \A j \in 1 .. i - 1 : slot[j] # r
          /\ slot' = [slot EXCEPT ![i] = Null]
          /\ alive' = alive \ {r}
     \/ /\ \A i \in Slots : slot[i] # r
        /\ UNCHANGED <<slot, alive>>
  /\ UNCHANGED <<present, attached, vrayInit, missed, pc, unloaded>>

\* deleteVRayInit(), when module m is unloaded: every renderer in the table and
\* then VRayInit is deleted, and the segment goes with its last user.
DeleteVRayInit(m) ==
  /\ pc = Idle /\ m \notin unloaded
  /\ unloaded' = unloaded \cup {m}
  /\ \/ /\ ~present
        /\ UNCHANGED <<present, attached, vrayInit, slot, alive>>
     \/ /\ present
        /\ alive' = alive \ Tracked
        /\ slot' = EmptyTable
        /\ vrayInit' = FALSE
        /\ attached' = attached \ {m}
        /\ present' = (attached \ {m} # {})
  /\ UNCHANGED <<held, missed, pc>>

Next ==
  \/ \E m \in Modules : NewVRayInit(m) \/ DeleteVRayInit(m)
  \/ \E r \in Renderers : NewDummy(r) \/ NewVRayRenderer(r)
  \/ \E m \in Modules, r \in Renderers : DeleteVRayRenderer(m, r)
  \/ NoRenderer

Spec == Init /\ [][Next]_vars

-----------------------------------------------------------------------------

\* The table never names a deleted renderer, and names none twice: whoever
\* empties it deletes each renderer once.
NoDanglingSlot ==
  /\ \A i \in Slots : slot[i] # Null => slot[i] \in alive
  /\ \A i, j \in Slots : slot[i] = slot[j] /\ slot[i] # Null => i = j

\* A renderer escapes the table only by being created while it was full, so the
\* last unload leaks no other.
AllTracked == alive \subseteq Tracked \cup missed

\* The table is used only between the creation and the deletion of VRayInit:
\* no renderer the registry knows outlives it, whichever module deletes it.
InitOutlivesRenderers == Tracked # {} => present /\ vrayInit

\* Until a module is unloaded, a client's renderer is alive for as long as the
\* client holds it, whatever the clients of both modules delete.
HeldAlive == unloaded = {} => \A m \in Modules : held[m] \subseteq alive

\* When every module is unloaded, nothing is left but what was never tracked.
CleanExit ==
  unloaded = Modules => alive \subseteq missed /\ ~vrayInit /\ ~present

=============================================================================
