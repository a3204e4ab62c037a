-------------------------- MODULE MaterialOverride --------------------------
(***************************************************************************)
(* Where the material of a primitive and the overrides of its parameters   *)
(* come from (vfh_material_override), and how those of nested primitives   *)
(* are put together (PrimContextStack of vfh_export_geom).  A value is     *)
(* known by the source it comes from: an override has three components,    *)
(* each with the source that gave it, or Unset.                            *)
(***************************************************************************)
EXTENDS Integers, Sequences, SequencesExt

CONSTANTS
  Materials, \* material -> its parameters -> "color", "vector", "number" or "string"
  Levels,    \* what a level of primitives may have, see Assigned
  MaxDepth,  \* bound on nested levels
  MaxReads   \* bound on reads of the context

None == "none"
Unset == "unset"

Components == 0..2
\* The channels of a parameter that are accepted, of which the last may not be
\* one of the components of a vector.
Channels == 0..3

\* There is no sheet.
NoSheet == [node |-> "absent", params |-> {}]

\* A sheet of styles: the material it names, None when it names none, and the
\* parameters it overrides.
LevelsAssumption ==
  \A l \in Levels : DOMAIN l = {"object", "prim", "sheet", "path", "channels", "attrs"}

VARIABLES
  stack,       \* primContexts: [level, mat]
  initialized, \* currentContextInitialized
  current,     \* mat of currentContext
  reads        \* bound counter

overrideVars == <<stack, initialized, current, reads>>

-----------------------------------------------------------------------------
(* PrimMaterial. *)

NoMaterial == [node |-> None, over |-> <<>>]

\* An override that one source gives as a whole.
From(source, params) == [p \in params |-> [c \in Components |-> source]]

\* The node at a path, none when there is no such node.
Found(name) == IF name \in DOMAIN Materials THEN name ELSE None

\* A parameter that has an override keeps it.
Merged(over, items) ==
  [p \in DOMAIN over \cup DOMAIN items |-> IF p \in DOMAIN over THEN over[p] ELSE items[p]]

AppendOverrides(over, items, mode) ==
  IF mode = "append" THEN Merged(over, items) ELSE Merged(items, over)

AppendOverrideValues(mat, sheet, source, mode) ==
  [node |-> IF sheet.node # None /\ (mat.node = None \/ mode = "merge")
              THEN Found(sheet.node) ELSE mat.node,
   over |-> AppendOverrides(mat.over, From(source, sheet.params), mode)]

\* The item a parameter gets from its channels: a colour is a vector, of other
\* vectors there is only the first channel. Channel 3 of a colour is written past
\* the three floats of the vector: it falls into the padding before the string
\* that follows, so it is lost, and leaves the parameter overridden.
ItemOf(kind, channels) ==
  [c \in Components |->
     IF c \in channels /\ (kind = "color" \/ c = 0) THEN "path" ELSE Unset]

ChannelsOf(channels, p) == {c \in Channels : <<p, c>> \in channels}

AppendMaterialOverrides(mat, path, channels) ==
  LET node == IF mat.node # None THEN mat.node ELSE Found(path)
      valid == {p \in DOMAIN Materials[node] :
                  p \notin DOMAIN mat.over /\ ChannelsOf(channels, p) # {}}
  IN [node |-> node,
      over |-> IF node = None THEN mat.over
               ELSE Merged(mat.over, [p \in valid |->
                      ItemOf(Materials[node][p], ChannelsOf(channels, p))])]

\* The attribute with a style sheet, else those with a path and its overrides.
AppendMaterialOverride(mat, level) ==
  IF level.sheet # NoSheet
    THEN AppendOverrideValues(mat, level.sheet, "sheet", "append")
    ELSE IF level.path # "" THEN AppendMaterialOverrides(mat, level.path, level.channels)
    ELSE mat

\* Mutant: primitive attributes replace what is there.
AttributesMerged(mat, attrs) == [mat EXCEPT !.over = Merged(From("attrs", attrs), @)]

AddAttributes(mat, attrs) ==
  [mat EXCEPT !.over = AppendOverrides(@, From("attrs", attrs), "append")]

\* objMaterialOverride, of a level of points there is none.
ObjectMaterial(level) ==
  IF level.object = NoSheet THEN NoMaterial
  ELSE AppendOverrideValues(NoMaterial, level.object, "object", "merge")

\* getOverridesForPrimitive
StyledMaterial(level) ==
  IF level.prim = NoSheet THEN ObjectMaterial(level)
  ELSE AppendOverrideValues(ObjectMaterial(level), level.prim, "prim", "merge")

LevelMaterial(level) ==
  AddAttributes(AppendMaterialOverride(StyledMaterial(level), level), level.attrs)

-----------------------------------------------------------------------------
(* PrimContextStack. *)

\* Adds a level to those it holds: innermost first, an outer material replaces
\* an inner one and an inner override stays.
Join(ctx, inner) ==
  [node |-> IF ctx.mat.node # None THEN ctx.mat.node ELSE inner.node,
   over |-> AppendOverrides(inner.over, ctx.mat.over, "append")]

\* The k innermost levels, joined.
InitCurrentContext(contexts) ==
  LET Joined[k \in 0 .. Len(contexts)] ==
        IF k = 0 THEN NoMaterial ELSE Join(contexts[Len(contexts) - k + 1], Joined[k - 1])
  IN Joined[Len(contexts)]

Init ==
  /\ stack = <<>>
  /\ initialized = FALSE
  /\ current = NoMaterial
  /\ reads = 0

PushContext ==
  /\ Len(stack) < MaxDepth
  /\ \E level \in Levels :
       stack' = Append(stack, [level |-> level, mat |-> LevelMaterial(level)])
  /\ initialized' = FALSE
  /\ UNCHANGED <<current, reads>>

\* Mutant: the context computed for the inner level stays.
PopKeepsCurrent ==
  /\ stack # <<>>
  /\ stack' = Front(stack)
  /\ UNCHANGED <<initialized, current, reads>>

PopContext ==
  /\ stack # <<>>
  /\ stack' = Front(stack)
  /\ initialized' = FALSE
  /\ UNCHANGED <<current, reads>>

GetPrimMaterial ==
  /\ reads < MaxReads
  /\ reads' = reads + 1
  /\ current' = IF initialized THEN current ELSE InitCurrentContext(stack)
  /\ initialized' = TRUE
  /\ UNCHANGED stack

Next == PushContext \/ PopContext \/ GetPrimMaterial

Spec == Init /\ [][Next]_overrideVars

-----------------------------------------------------------------------------
(* Properties. *)

\* The sources of a level; the first one wins.
Rank == [prim |-> 1, object |-> 2, sheet |-> 3, path |-> 4, attrs |-> 5]
Sources(level) ==
  {s \in DOMAIN Rank : CASE s = "attrs" -> TRUE
                         [] s = "path"  -> level.sheet = NoSheet /\ level.path # ""
                         [] OTHER       -> level[s] # NoSheet}

ParamsOf(level, source, node) ==
  CASE source = "attrs" -> level.attrs
    [] source = "path"  -> IF node = None THEN {}
                           ELSE {p \in DOMAIN Materials[node] : ChannelsOf(level.channels, p) # {}}
    [] OTHER            -> level[source].params

\* What a source says of a component.
Said(level, source, node, p, c) ==
  IF source # "path" THEN source
  ELSE IF <<p, c>> \in level.channels /\ (c = 0 \/ Materials[node][p] = "color")
    THEN "path" ELSE Unset

\* The material a source names, and the sources that name one there is. The style
\* of a primitive sets the material aside that its object's style found, also
\* when it names a missing one.
MaterialOf(level, source) == IF source = "path" THEN level.path ELSE level[source].node
Naming(level) == {s \in Sources(level) \ {"attrs"} : MaterialOf(level, s) # None}
Finding(level) ==
  {s \in Naming(level) : /\ Found(MaterialOf(level, s)) # None
                         /\ s = "object" => "prim" \notin Naming(level)}

\* The material of a primitive is that of its highest source that names one there
\* is, save an object's below a style of the primitive that names a missing one.
\* Every parameter is overridden by its highest source: the style sheet of the
\* primitive, of the object, the one in its attributes or else the overrides of
\* its material path, and last its own attributes. Of a colour, the first three
\* channels a material path gives are in the override.
HighestSourceWins ==
  \A i \in DOMAIN stack :
    LET level == stack[i].level
        mat == stack[i].mat
        Giving(p) == {s \in Sources(level) : p \in ParamsOf(level, s, mat.node)}
    IN /\ IF Finding(level) = {} THEN mat.node = None
          ELSE \E s \in Finding(level) :
                 /\ \A t \in Finding(level) : Rank[s] <= Rank[t]
                 /\ mat.node = MaterialOf(level, s)
       /\ DOMAIN mat.over = UNION {ParamsOf(level, s, mat.node) : s \in Sources(level)}
       /\ \A p \in DOMAIN mat.over : \E s \in Giving(p) :
            /\ \A t \in Giving(p) : Rank[s] <= Rank[t]
            /\ \A c \in Components : mat.over[p][c] = Said(level, s, mat.node, p, c)

\* What is read of the context is that of the levels there are now: the material
\* of the outermost level that has one, and of each parameter the override of the
\* innermost level that has one.
ContextIsCurrent ==
  initialized =>
    LET With(p) == {i \in DOMAIN stack : p \in DOMAIN stack[i].mat.over}
        Noded == {i \in DOMAIN stack : stack[i].mat.node # None}
    IN /\ IF Noded = {} THEN current.node = None
          ELSE \E i \in Noded : /\ \A j \in Noded : i <= j
                                /\ current.node = stack[i].mat.node
       /\ DOMAIN current.over = UNION {DOMAIN stack[i].mat.over : i \in DOMAIN stack}
       /\ \A p \in DOMAIN current.over :
            \E i \in With(p) : /\ \A j \in With(p) : j <= i
                               /\ current.over[p] = stack[i].mat.over[p]
=============================================================================
