------------------------------ MODULE OslNode ------------------------------
(***************************************************************************)
(* TexOSL and MtlOSL (vop/vop_node_osl): nodes whose sockets and           *)
(* parameters are read from OSL code.  The code is compiled again when     *)
(* someone asks for a socket and the code has changed, never when it       *)
(* changes; the export does not ask, but the sockets it follows do, in the *)
(* middle of it.  The sockets of the plugin description, which come first, *)
(* are left out, and so are widths and colours of values.                  *)
(***************************************************************************)
EXTENDS Naturals, Sequences, SequencesExt

CONSTANTS
  Codes,       \* code -> [compiles, decls]; a declaration is [name, kind, default]
  Values,      \* values a user may set
  Nodes,       \* nodes that may be connected
  MaxInputs,   \* sockets that may be connected
  MaxEdits     \* bound on what the user does

Kinds == {"number", "menu", "text", "texture", "closure out", "color out", "other out", "other"}
NoCode == ""
NoNode == "not connected"
Template == "template default"
Blank == "no label"

\* OSL has no two parameters of one name, and none without a name.
CodesAssumption ==
  \A c \in DOMAIN Codes :
    LET decls == Codes[c].decls
    IN /\ decls \in Seq(Range(decls))
       /\ \A i \in DOMAIN decls : decls[i].kind \in Kinds /\ decls[i].name # Blank
       /\ \A i, j \in DOMAIN decls : decls[i].name = decls[j].name => i = j

VARIABLES
  mtl,       \* it is a MtlOSL
  code,      \* what osl_code or the file at osl_file holds
  osl,       \* m_codeHash, m_paramList, m_inputList, m_outputName, items of osl_input_params
  links,     \* socket -> what is connected
  exported,  \* the plugin description being written, or the last one
  edits      \* bound counter

oslVars == <<mtl, code, osl, links, exported, edits>>

-----------------------------------------------------------------------------
(* Parsing. *)

IsParam(d) == d.kind \in {"number", "menu", "text", "texture"}
IsTexture(d) == d.kind = "texture"

\* One declaration: m_paramList and m_inputList after it.
Declare(lists, d) ==
  [params |-> IF IsParam(d) THEN Append(lists.params, d) ELSE lists.params,
   inputs |-> IF IsTexture(d) THEN Append(lists.inputs, d.name) ELSE lists.inputs]

Parsed(c) ==
  LET decls == Codes[c].decls
      Upto[i \in 0..Len(decls)] ==
        IF i = 0 THEN [params |-> <<>>, inputs |-> <<>>] ELSE Declare(Upto[i - 1], decls[i])
  IN Upto[Len(decls)]
Params(c) == Parsed(c).params
Inputs(c) == Parsed(c).inputs

\* The last output it can use; a texture cannot use a closure.
OutputName(c) ==
  LET decls == Codes[c].decls
      usable == {i \in DOMAIN decls : \/ decls[i].kind = "color out"
                                      \/ decls[i].kind = "closure out" /\ mtl}
  IN IF usable # {} THEN decls[Max(usable)].name ELSE IF mtl THEN "Ci" ELSE ""

\* An item of the multiparm is inserted for every parameter.  That of a texture
\* stays hidden; the default of a menu is its list of choices.
NewItem(d) ==
  [label |-> IF IsTexture(d) THEN Blank ELSE d.name,
   value |-> IF d.kind \in {"number", "text"} THEN d.default ELSE Template]

\* Mutant: the place is not advanced for a texture, the next item is put before it.
ItemsOfPlain(params) ==
  LET Plain(d) == ~IsTexture(d)
      ordered == SelectSeq(params, Plain) \o Reverse(SelectSeq(params, IsTexture))
  IN [i \in DOMAIN ordered |-> NewItem(ordered[i])]

NewItems(params) == [i \in DOMAIN params |-> NewItem(params[i])]

\* Removing by a growing index from a shrinking list leaves every other item.
LeftOver(items) == [i \in 1..(Len(items) \div 2) |-> items[2 * i]]

\* updateParamsIfNeeded().  The hash is taken as the code.
Updated(o, c) ==
  CASE c = NoCode -> [o EXCEPT !.hash = NoCode]
    [] c # NoCode /\ c = o.hash -> o
    [] c # NoCode /\ c # o.hash /\ ~Codes[c].compiles ->
         [o EXCEPT !.hash = NoCode, !.params = <<>>, !.inputs = <<>>, !.output = ""]
    [] OTHER ->
         [hash |-> c, params |-> Params(c), inputs |-> Inputs(c), output |-> OutputName(c),
          items |-> NewItems(Params(c)) \o LeftOver(o.items)]

-----------------------------------------------------------------------------
(* The user and Houdini. *)

Idle == exported.next = 0
NotExported == [file |-> NoCode, asked |-> FALSE, output |-> "", list |-> <<>>, next |-> 0, input |-> 1]

Init ==
  /\ mtl \in BOOLEAN /\ code = NoCode
  /\ osl = [hash |-> NoCode, params |-> <<>>, inputs |-> <<>>, output |-> "", items |-> <<>>]
  /\ links = [i \in 1..MaxInputs |-> NoNode] /\ exported = NotExported /\ edits = 0

Edit == Idle /\ edits < MaxEdits /\ edits' = edits + 1 /\ exported' = NotExported /\ UNCHANGED mtl

SetCode(c) == Edit /\ code' = c /\ UNCHANGED <<osl, links>>

\* inputLabel(), getInputFromName(), orderedInputs(), maxOutputs() and the others.
Ask == Idle /\ osl' = Updated(osl, code) /\ UNCHANGED <<mtl, code, links, exported, edits>>

SetItem(i, v) ==
  /\ i \in DOMAIN osl.items /\ osl.items[i].label # Blank
  /\ osl' = [osl EXCEPT !.items[i].value = v]
  /\ Edit /\ UNCHANGED <<code, links>>

Connect(i, n) ==
  /\ Edit /\ osl' = Updated(osl, code) /\ i <= Len(osl'.inputs)
  /\ links' = [links EXCEPT ![i] = n] /\ UNCHANGED code

-----------------------------------------------------------------------------
(* asPluginDesc(). *)

\* Without valid code nothing is added.
StartExport ==
  /\ Idle
  /\ exported' = IF osl.hash = NoCode THEN NotExported
                 ELSE [NotExported EXCEPT !.file = code, !.asked = (osl.hash = code),
                                          !.output = osl.output, !.next = 1]
  /\ UNCHANGED <<mtl, code, osl, links, edits>>

\* The socket a name in m_inputList leads to: looking it up asks first, which may
\* replace the list, and then the name is one that is gone.
Socket(o, i) == IF o = osl /\ i <= Len(o.inputs) THEN {i} ELSE 0..Len(o.inputs)

Linked(socket) == IF socket = 0 THEN NoNode ELSE links[socket]

Param == osl.params[exported.next]

AddParam(value) ==
  exported' = [exported EXCEPT !.list = Append(@, [name |-> Param.name, value |-> value]),
                               !.next = @ + 1, !.input = @ + IF IsTexture(Param) THEN 1 ELSE 0]

ExportTexture ==
  /\ IsTexture(Param)
  /\ osl' = Updated(osl, code)
  /\ \E socket \in Socket(osl', exported.input) : AddParam(Linked(socket))

\* Item c + 1 of the multiparm is that of parameter c.
ExportValue == ~IsTexture(Param) /\ AddParam(osl.items[exported.next].value) /\ UNCHANGED osl

ExportParam ==
  /\ exported.next \in DOMAIN osl.params
  /\ ExportTexture \/ ExportValue
  /\ UNCHANGED <<mtl, code, links, edits>>

EndExport ==
  /\ exported.next > Len(osl.params)
  /\ exported' = [exported EXCEPT !.next = 0]
  /\ UNCHANGED <<mtl, code, osl, links, edits>>

Next ==
  \/ \E c \in DOMAIN Codes \cup {NoCode} : SetCode(c)
  \/ Ask \/ StartExport \/ ExportParam \/ EndExport
  \/ \E v \in Values : \E i \in DOMAIN osl.items : SetItem(i, v)
  \/ \E i \in 1..MaxInputs, n \in Nodes \cup {NoNode} : Connect(i, n)

Spec == Init /\ [][Next]_oslVars

-----------------------------------------------------------------------------
(* What the node should guarantee. *)

\* What the user sees for a parameter: the first item with its label, or what is
\* connected to the first socket with its name.
Seen(p) ==
  IF IsTexture(p)
  THEN links[Min({i \in DOMAIN osl.inputs : osl.inputs[i] = p.name})]
  ELSE osl.items[Min({i \in DOMAIN osl.items : osl.items[i].label = p.name})].value

\* A node that was asked for its sockets since its code last changed exports that
\* code with all its parameters, each with the value of the item labelled with its
\* name or the plugin on the socket of that name, whatever code it had before and
\* whatever items that code has left behind.
SeenIsExported ==
  (exported.asked /\ Idle) =>
    /\ exported.file = code /\ exported.output = OutputName(code)
    /\ exported.list = [i \in DOMAIN Params(code) |->
                          [name |-> Params(code)[i].name, value |-> Seen(Params(code)[i])]]
=============================================================================
