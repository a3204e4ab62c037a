---------------------------- MODULE LayerNodes -----------------------------
(***************************************************************************)
(* VOP nodes with as many layers as the user asks for: MtlMulti, TexMulti, *)
(* TexLayeredMax and BRDFLayered, over the sockets of the plugin           *)
(* description that every node has (vop_node_base).  A socket has an index *)
(* from 0 and a name; connections are kept by index and exported by name.  *)
(***************************************************************************)
EXTENDS Integers, Sequences, SequencesExt

CONSTANTS
  Base,       \* node -> names of the sockets of its description
  Nodes,      \* what may be connected -> the type of its output
  Broken,     \* those that cannot be exported
  Weights,    \* values of a layer: its weight, or blend mode and opacity
  MaxLayers,  \* bound on the number of layers
  MaxEdits    \* bound on what the user does

Kinds == {"MtlMulti", "TexMulti", "TexLayeredMax", "BRDFLayered"}
LayerAssumption ==
  /\ DOMAIN Base = Kinds /\ Broken \subseteq DOMAIN Nodes /\ MaxLayers \in Nat
  \* The sockets of a description have different names.
  /\ \A k \in Kinds : Base[k] \in Seq(STRING) /\ IsInjective(Base[k])

VARIABLES
  kind,      \* the node
  count,     \* mtl_count, tex_count, textures_count, brdf_count
  weights,   \* brdf#weight, tex#blend_mode, tex#blend_amount
  links,     \* socket -> what is connected
  exported,  \* the lists of the plugin, in one
  edits      \* bound counter

layerVars == <<kind, count, weights, links, exported, edits>>

NoNode == "not connected"
NotExported == <<>>

-----------------------------------------------------------------------------
(* Sockets and their names. *)

NumBase == Len(Base[kind])

\* customInputsCount(), orderedInputs().
PerLayer == IF kind = "BRDFLayered" THEN 2 ELSE 1
OrderedInputs == NumBase + count * PerLayer
MaxInputs == NumBase + MaxLayers * PerLayer

\* getInputNameSubclass(), inputLabel(), by the socket counted after the description's.
MtlMultiName(socket) == <<"mtl", socket + 1>>
TexMultiName(socket) == <<"tex", socket + 1>>
TexLayeredMaxName(socket) == <<"tex", socket + 1>>
BRDFLayeredName(socket) == <<IF socket % 2 = 1 THEN "weight" ELSE "brdf", socket \div 2 + 1>>

InputName(idx) ==
  LET socket == idx - NumBase
  IN CASE idx < NumBase -> <<"base", Base[kind][idx + 1]>>
       [] idx >= NumBase /\ kind = "MtlMulti" -> MtlMultiName(socket)
       [] idx >= NumBase /\ kind = "TexMulti" -> TexMultiName(socket)
       [] idx >= NumBase /\ kind = "TexLayeredMax" -> TexLayeredMaxName(socket)
       [] OTHER -> BRDFLayeredName(socket)

\* getInputFromNameSubclass(), of a name with a number: 0 is the first socket.
MtlMultiSocket(name) == name[2] - 1
TexMultiSocket(name) == name[2] - 1
TexLayeredMaxSocket(name) == name[2] - 1
BRDFLayeredSocket(name) == IF name[1] = "brdf" THEN (name[2] - 1) * 2 ELSE name[2] * 2 - 1

\* Mutant: a weight has the index of the next layer.
WeightsAreNext(name) == IF name[1] = "base" THEN -1 ELSE NumBase + name[2] * PerLayer

\* The first socket of the description with the name.
BaseSocket(b) ==
  LET named == {i \in 0..(NumBase - 1) : Base[kind][i + 1] = b}
  IN IF named = {} THEN -1 ELSE Min(named)

InputFromName(name) ==
  CASE name[1] = "base" -> BaseSocket(name[2])
    [] name[1] = "mtl"  -> NumBase + MtlMultiSocket(name)
    [] name[1] = "tex" /\ kind = "TexMulti" -> NumBase + TexMultiSocket(name)
    [] name[1] = "tex" /\ kind = "TexLayeredMax" -> NumBase + TexLayeredMaxSocket(name)
    [] OTHER            -> NumBase + BRDFLayeredSocket(name)

\* getInputTypeInfoSubclass().
InputType(idx) ==
  CASE idx < NumBase -> "float"
    [] idx >= NumBase /\ kind = "MtlMulti" -> "surface"
    [] idx >= NumBase /\ kind = "BRDFLayered" -> IF InputName(idx)[1] = "weight" THEN "float" ELSE "bsdf"
    [] OTHER -> "color"

\* getAllowedInputTypeInfosSubclass(), willAutoconvertInputType(): what Houdini lets
\* the user connect.
Allowed(type) ==
  CASE type \in {"surface", "bsdf"} -> {"surface", "bsdf"}
    [] type \in {"color", "float"}  -> {"color", "float"}
    [] OTHER                        -> {type}
Fitting(idx) == {NoNode} \cup {n \in DOMAIN Nodes : Nodes[n] \in Allowed(InputType(idx))}

-----------------------------------------------------------------------------
(* The user. *)

Init ==
  /\ kind \in Kinds /\ count \in 0..MaxLayers
  /\ weights \in [1..MaxLayers -> Weights]
  /\ links = [idx \in 0..(MaxInputs - 1) |-> NoNode] /\ exported = NotExported /\ edits = 0

Edit == edits < MaxEdits /\ edits' = edits + 1 /\ exported' = NotExported /\ UNCHANGED kind

SetCount(n) == Edit /\ count' = n /\ UNCHANGED <<weights, links>>
SetWeight(i, w) == Edit /\ weights' = [weights EXCEPT ![i] = w] /\ UNCHANGED <<count, links>>

Connect(idx, n) ==
  /\ idx < OrderedInputs /\ n \in Fitting(idx)
  /\ Edit /\ links' = [links EXCEPT ![idx] = n] /\ UNCHANGED <<count, weights>>

-----------------------------------------------------------------------------
(* asPluginDesc(). *)

\* exportConnectedSocket(): nothing for a node that is broken or not there.
Plugin(name) ==
  LET idx == InputFromName(name)
  IN IF idx \in DOMAIN links /\ links[idx] \notin Broken THEN links[idx] ELSE NoNode

\* The layers of those up to the last that have a plugin, in a loop over them.
There(prefix) ==
  LET Upto[i \in 0..count] ==
        IF i = 0 THEN <<>>
        ELSE IF Plugin(<<prefix, i>>) # NoNode THEN Append(Upto[i - 1], i) ELSE Upto[i - 1]
  IN Upto[count]

MtlMultiLayers ==
  [k \in DOMAIN There("mtl") |-> LET i == There("mtl")[k] IN <<Plugin(<<"mtl", i>>), <<"id", i - 1>>>>]

TexMultiLayers ==
  [k \in DOMAIN There("tex") |-> LET i == There("tex")[k] IN <<Plugin(<<"tex", i>>), <<"id", i - 1>>>>]

TexLayeredMaxLayers ==
  Reverse([k \in DOMAIN There("tex") |->
             LET i == There("tex")[k] IN <<Plugin(<<"tex", i>>), <<"blending", weights[i]>>>>])

\* A BRDF without a weight texture gets one for its weight.
Weight(i) ==
  LET weight == Plugin(<<"weight", i>>)
  IN IF weight # NoNode THEN <<"linked", weight>> ELSE <<"TexAColor", weights[i]>>
BRDFLayeredLayers ==
  [k \in DOMAIN There("brdf") |-> LET i == There("brdf")[k] IN <<Plugin(<<"brdf", i>>), Weight(i)>>]

Layers ==
  CASE kind = "MtlMulti"      -> MtlMultiLayers
    [] kind = "TexMulti"      -> TexMultiLayers
    [] kind = "TexLayeredMax" -> TexLayeredMaxLayers
    [] OTHER                  -> BRDFLayeredLayers

\* No layers are an error, and no plugin.
AsPluginDesc ==
  /\ exported = NotExported /\ Layers # <<>> /\ exported' = Layers
  /\ UNCHANGED <<kind, count, weights, links, edits>>

Next ==
  \/ \E n \in 0..MaxLayers : SetCount(n)
  \/ \E i \in 1..MaxLayers, w \in Weights : SetWeight(i, w)
  \/ \E idx \in 0..(MaxInputs - 1), n \in DOMAIN Nodes \cup {NoNode} : Connect(idx, n)
  \/ AsPluginDesc

Spec == Init /\ [][Next]_layerVars

-----------------------------------------------------------------------------
(* What the nodes should guarantee. *)

\* The socket of layer i, and that of its weight, counted as the user sees them.
Socket(i) == NumBase + IF kind = "BRDFLayered" THEN 2 * (i - 1) ELSE i - 1
Works(idx) == links[idx] \notin Broken \cup {NoNode}
Own(i) ==
  CASE kind \in {"MtlMulti", "TexMulti"} -> <<"id", i - 1>>
    [] kind = "TexLayeredMax"            -> <<"blending", weights[i]>>
    [] OTHER -> IF Works(Socket(i) + 1) THEN <<"linked", links[Socket(i) + 1]>> ELSE <<"TexAColor", weights[i]>>

\* Each socket is found by its own name, and the lists of the plugin hold, side by
\* side, what works on the socket of each layer the node shows and that layer's own
\* id, weight or blend mode: none twice, none of a layer that is hidden or empty, in
\* the order of the layers, which V-Ray's layered texture counts from the top.
LayersAreOwn ==
  /\ \A idx \in 0..(OrderedInputs - 1) : InputFromName(InputName(idx)) = idx
  /\ exported # NotExported =>
       \E layer \in [1..Len(exported) -> 1..count] :
         /\ \A k \in 1..Len(exported) : exported[k] = <<links[Socket(layer[k])], Own(layer[k])>>
         /\ \A j, k \in 1..Len(exported) :
              j < k => IF kind = "TexLayeredMax" THEN layer[j] > layer[k] ELSE layer[j] < layer[k]
         /\ {layer[k] : k \in 1..Len(exported)} = {i \in 1..count : Works(Socket(i))}
=============================================================================
