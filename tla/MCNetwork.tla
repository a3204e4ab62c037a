------------------------------ MODULE MCNetwork ------------------------------
EXTENDS Naturals

LOCAL Shader(kind, in, out, linkedOnly, paths, partner) ==
  [kind |-> kind, in |-> in, out |-> out, linkedOnly |-> linkedOnly, paths |-> paths,
   partner |-> partner]
LOCAL To(n, out) == [node |-> n, out |-> out]
LOCAL Unlinked == To("", "")

\* A builder whose material output "out" is linked to a BRDF "brdf" with a texture
\* "noise" behind a subnet, which needs a conversion; a second BRDF "metal" shares
\* it, is itself a material and has a texture "mask" of its own; "mat" is a top-level
\* material output, "swap" a switch.  "tint", "amount" and "map" are parameters of the
\* builder, of a colour, a number and a path, "xform" a transform, "wood" a texture
\* found by its path.
MCShaders ==
  [builder  |-> Shader("builder", <<>>, <<>>, {}, <<>>, "out"),
   out      |-> Shader("matoutput", [Material |-> "surface"], <<>>, {}, <<>>, ""),
   mat      |-> Shader("matoutput", [Material |-> "surface"], <<>>, {}, <<>>, ""),
   brdf     |-> Shader("brdf", [diffuse |-> "color", glossy |-> "float"],
                       [brdf |-> "bsdf"], {}, [glossy |-> "wood"], ""),
   metal    |-> Shader("brdf", [reflect |-> "color", opacity |-> "color"], [brdf |-> "bsdf"],
                       {"reflect"}, <<>>, ""),
   box      |-> Shader("subnet", [inside |-> "color"], [color |-> "color"], {}, <<>>, "boxout"),
   boxin    |-> Shader("subinput", <<>>, [inside |-> "color"], {}, <<>>, "box"),
   boxout   |-> Shader("suboutput", [color |-> "color"], <<>>, {}, <<>>, ""),
   noise    |-> Shader("texture", [amount |-> "float", uvwgen |-> "uvw", place |-> "matrix"],
                       [out |-> "float"], {}, <<>>, ""),
   wood     |-> Shader("texture", [grain |-> "float"], [color |-> "color"],
                       {}, [grain |-> "/wood.png"], ""),
   mask     |-> Shader("texture", <<>>, [color |-> "color"], {}, <<>>, ""),
   amount   |-> Shader("parameter", <<>>, [value |-> "float"], {}, <<>>, "builder"),
   tint     |-> Shader("parameter", <<>>, [value |-> "color"], {}, <<>>, "builder"),
   map      |-> Shader("parameter", <<>>, [value |-> "string"], {}, [value |-> "wood"], "builder"),
   xform    |-> Shader("makexform", <<>>, [matrix |-> "matrix"], {}, <<>>, ""),
   swap     |-> Shader("switch", [input1 |-> "surface", input2 |-> "surface"], <<>>, {}, <<>>, ""),
   plain    |-> Shader("principled", <<>>, [surface |-> "surface"], {}, <<>>, ""),
   sky      |-> Shader("texture", [turbidity |-> "float"], [color |-> "color"], {}, <<>>, "")]
MCMaterials == {"builder", "metal", "mat", "plain", "swap"}
Unl(n) == [s \in DOMAIN MCShaders[n].in |-> Unlinked]
MCLinks ==
  [n \in DOMAIN MCShaders |->
     CASE n = "out"    -> [Material |-> To("brdf", "brdf")]
       [] n = "mat"    -> [Material |-> To("metal", "brdf")]
       [] n = "brdf"   -> [diffuse |-> To("box", "color"), glossy |-> Unlinked]
       [] n = "metal"  -> [reflect |-> To("noise", "out"), opacity |-> To("mask", "color")]
       [] n = "box"    -> [inside |-> To("noise", "out")]
       [] n = "boxout" -> [color |-> To("boxin", "inside")]
       [] n = "noise"  -> [amount |-> To("amount", "value"), uvwgen |-> Unlinked,
                             place |-> To("xform", "matrix")]
       [] n = "swap"   -> [input1 |-> To("metal", "brdf"), input2 |-> To("plain", "surface")]
       [] OTHER        -> Unl(n)]
MCRewirings ==
  [n \in DOMAIN MCShaders |->
     CASE n = "out"   -> {<<"Material", To("metal", "brdf")>>, <<"Material", Unlinked>>}
       [] n = "mat"   -> {<<"Material", To("brdf", "brdf")>>, <<"Material", To("plain", "surface")>>}
       [] n = "brdf"  -> {<<"diffuse", To("tint", "value")>>, <<"diffuse", To("sky", "color")>>,
                          <<"glossy", To("map", "value")>>}
       [] n = "boxout" -> {<<"color", To("wood", "color")>>}
       [] n = "box"   -> {<<"inside", To("tint", "value")>>}
       [] n = "metal" -> {<<"reflect", To("wood", "color")>>, <<"reflect", Unlinked>>,
                          <<"reflect", To("noise", "out")>>, <<"opacity", Unlinked>>}
       [] OTHER       -> {}]
=============================================================================
