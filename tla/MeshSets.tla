----------------------------- MODULE MeshSets ------------------------------
(***************************************************************************)
(* MtlVRayMesh (vop/material/vop_MtlVRayMesh): a material with a socket    *)
(* for every shader set of a proxy file.  The sets are read again when the *)
(* path of the proxy SOP changed and somebody asks for the number of       *)
(* sockets, or when the user reloads them; they are saved with the scene.  *)
(***************************************************************************)
EXTENDS Naturals, Sequences, SequencesExt

CONSTANTS
  Sops,       \* VRayProxy SOPs a material may point to
  Files,      \* proxy file -> what it may hold: sequences of shader sets
  Nodes,      \* materials that may be connected
  MaxSockets, \* sockets that may be connected
  MaxEdits    \* bound on what the user does

None == ""

\* A file names a shader set once.
FilesAssumption ==
  \A f \in DOMAIN Files : \A names \in Files[f] : \A i, j \in DOMAIN names : names[i] = names[j] => i = j

VARIABLES
  parm,     \* vrayproxy_sop
  sopPath, filePath,
  shaderSets, \* indexToToken, from 1; tokenToIndex is its inverse
  needRebuildShadersSets,
  file,     \* "file" of the SOPs
  disk,     \* what the files hold
  links,    \* socket -> material
  saved,    \* the scene file
  loaded,   \* the scene was loaded and no one asked for other sets since
  edits     \* bound counter

meshSetsVars == <<parm, sopPath, filePath, shaderSets, needRebuildShadersSets, file, disk, links,
                  saved, loaded, edits>>
node == <<parm, sopPath, filePath, shaderSets, needRebuildShadersSets>>
scene == <<file, disk>>

Init ==
  /\ parm = None /\ sopPath = None /\ filePath = None /\ shaderSets = <<>>
  /\ needRebuildShadersSets = FALSE
  /\ file \in [Sops -> DOMAIN Files \cup {None}]
  /\ disk \in [DOMAIN Files -> UNION {Files[f] : f \in DOMAIN Files}]
  /\ \A f \in DOMAIN Files : disk[f] \in Files[f]
  /\ links = [i \in 1..MaxSockets |-> None]
  /\ saved = <<>> /\ loaded = FALSE /\ edits = 0

Edit == edits < MaxEdits /\ edits' = edits + 1

-----------------------------------------------------------------------------
(* Shader sets. *)

\* updateFilePath(), MtlVRayMeshShaderSets::init(): a SOP that is not there has no
\* file, a file that cannot be opened has no sets.
Read == /\ filePath' = IF sopPath \in Sops THEN file[sopPath] ELSE None
        /\ shaderSets' = IF filePath' = None THEN <<>> ELSE disk[filePath']
        /\ needRebuildShadersSets' = FALSE
        /\ UNCHANGED <<parm, sopPath>>

\* orderedInputs(), getNumVisibleInputs().
OrderedInputs ==
  /\ IF needRebuildShadersSets THEN Read ELSE UNCHANGED node
  /\ UNCHANGED <<scene, links, saved, loaded, edits>>

\* cbRebuildShaderSets().
Reload == Edit /\ Read /\ loaded' = FALSE /\ UNCHANGED <<scene, links, saved>>

\* opChanged(): the flag is what this event has found, whatever it was.
ParmChanged(path) ==
  /\ Edit
  /\ parm' = path /\ sopPath' = path
  /\ needRebuildShadersSets' = (path # sopPath)
  /\ loaded' = (loaded /\ path = sopPath)
  /\ UNCHANGED <<filePath, shaderSets, scene, links, saved>>

Connect(i, n) ==
  /\ Edit /\ i \in DOMAIN shaderSets
  /\ links' = [links EXCEPT ![i] = n] /\ loaded' = FALSE
  /\ UNCHANGED <<node, scene, saved>>

\* The proxy SOP and its files change; the material is not told.
ProxyChanges ==
  /\ Edit
  /\ \/ \E s \in Sops, f \in DOMAIN Files \cup {None} : file' = [file EXCEPT ![s] = f] /\ UNCHANGED disk
     \/ \E f \in DOMAIN Files : \E names \in Files[f] : disk' = [disk EXCEPT ![f] = names] /\ UNCHANGED file
  /\ UNCHANGED <<node, links, saved, loaded>>

-----------------------------------------------------------------------------
(* asPluginDesc(): what is connected, with the name of its set. *)

ExportedOf(sets, materials) ==
  LET IsLinked(i) == materials[i] # None
      linked == SelectSeq([i \in DOMAIN sets |-> i], IsLinked)
  IN [i \in DOMAIN linked |-> <<sets[linked[i]], materials[linked[i]]>>]

Exported == ExportedOf(shaderSets, links)

-----------------------------------------------------------------------------
(* The scene file. *)

\* saveIntrinsic(), and what Houdini saves of the node.
Save ==
  /\ saved' = <<[parm |-> parm, sopPath |-> sopPath, filePath |-> filePath, shaderSets |-> shaderSets,
                 links |-> links, exported |-> Exported]>>
  /\ loaded' = FALSE
  /\ UNCHANGED <<node, scene, links, edits>>

\* Mutant: the sets are always read again.
AlwaysRead(s) == TRUE

NeedsRead(s) == s.sopPath = None \/ s.filePath = None \/ s.shaderSets = <<>>

\* loadPacket() of a new node.
Load ==
  /\ saved # <<>>
  /\ LET s == saved[1] IN
     /\ parm' = s.parm /\ sopPath' = s.sopPath /\ filePath' = s.filePath
     /\ shaderSets' = s.shaderSets /\ links' = s.links
     /\ needRebuildShadersSets' = NeedsRead(s)
  /\ loaded' = TRUE
  /\ UNCHANGED <<scene, saved, edits>>

Next ==
  \/ OrderedInputs \/ Reload \/ ProxyChanges \/ Save \/ Load
  \/ \E path \in Sops \cup {None} : ParmChanged(path)
  \/ \E i \in 1..MaxSockets, n \in Nodes \cup {None} : Connect(i, n)

Spec == Init /\ [][Next]_meshSetsVars

-----------------------------------------------------------------------------
(* What the material should guarantee. *)

\* A scene that was saved with the shader sets of a proxy is exported with the same
\* materials for the same sets when it is loaded, whatever became of the proxy and
\* its file since, until the user reloads the sets or selects another proxy.
SavedIsKept ==
  loaded =>
    LET s == saved[1]
    IN (s.sopPath # None /\ s.filePath # None /\ s.shaderSets # <<>>) =>
         (shaderSets = s.shaderSets /\ Exported = s.exported)
=============================================================================
