------------------------------ MODULE MCObjects ------------------------------
(***************************************************************************)
(* A scene with every kind of primitive: a tree with smoke and two packed  *)
(* fragments of its foliage, a wood and a yard that instance trees, lamps  *)
(* and an object without a render SOP two levels deep, a proxy shown       *)
(* twice, and objects with a light mask, a sphere and particles, of which  *)
(* a packed primitive at offset 0 shares the context.                      *)
(***************************************************************************)
EXTENDS ObjectExport

CONSTANTS tree, wood, yard, rock, ball, spray, bare, lamp, NoOne
CONSTANTS trunk, twig, frond, scatter, grid, stone, round, drops, bush

P(kind) == Prim(kind, NoOne, NoOne)
Packed(d) == Prim("packed", d, NoOne)
Proxy == Prim("proxy", NoOne, "rock.vrmesh")
Detail(d, prims) == [gdp |-> d, prims |-> prims, particles |-> {}, points |-> <<>>]
MCContents == [d \in {trunk, twig, frond, scatter, grid, stone, round, drops, bush} |->
  CASE d = trunk  -> Detail(d, <<P("mesh"), Packed(twig), Packed(frond), P("volume")>>)
    [] d = twig   -> Detail("foliage", <<P("mesh"), P("hair")>>)
    [] d = frond  -> Detail("foliage", <<P("mesh"), P("mesh")>>)
    [] d = scatter -> [Detail(d, <<>>) EXCEPT !.points = <<tree, lamp, bare, tree>>]
    [] d = grid   -> [Detail(d, <<>>) EXCEPT !.points = <<wood, wood>>]
    [] d = stone  -> Detail(d, <<Proxy, Proxy, Prim("scene", NoOne, "set.vrscene")>>)
    [] d = round  -> [Detail(d, <<Packed(bush), P("sphere"), P("plane")>>)
                        EXCEPT !.particles = {"unconnected", "all"}]
    [] d = drops  -> [Detail(d, <<P("mesh")>>) EXCEPT !.particles = {"all"}]
    [] d = bush   -> Detail(d, <<P("mesh")>>)]
MCRoot == [o \in {tree, wood, yard, rock, ball, spray, bare} |->
  CASE o = tree -> trunk [] o = wood -> scatter [] o = yard -> grid
    [] o = rock -> stone [] o = ball -> round [] o = spray -> drops [] o = bare -> NoOne]
MCRenderPoints == [o \in {tree, wood, yard, rock, ball, spray, bare} |->
  CASE o = ball -> "unconnected" [] o = spray -> "all" [] OTHER -> "none"]
MCBundle == <<yard, tree, wood, rock, ball, spray, bare>>
MCLightMask == [o \in {tree, wood, yard, rock, ball, spray, bare} |->
  IF o \in {rock, ball} THEN {lamp} ELSE {}]
=============================================================================
