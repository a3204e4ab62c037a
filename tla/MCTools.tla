------------------------------ MODULE MCTools -------------------------------
EXTENDS Tools, MCNetwork, Sequences

(* Previews: a file of one object, one of two, and one without a preview voxel. *)
MCPreviewFiles ==
  [one |-> [objects |-> {"a"}, preview |-> TRUE],
   two |-> [objects |-> {"a", "b"}, preview |-> TRUE],
   raw |-> [objects |-> {"a", "b"}, preview |-> FALSE]]
AskFor(f, o, l, t) == [file |-> f, object |-> o, lod |-> l, frame |-> t]
MCPreviewOptions ==
  {AskFor("two", "any", "preview", 10), AskFor("two", "a", "preview", 10),
   AskFor("two", "a", "preview", 11), AskFor("two", "a", "bbox", 20),
   AskFor("one", "a", "preview", 10), AskFor("raw", "any", "full", 10)}

(* Materials and what a level may say about them; "gone" is not there. *)
MCOverrideMaterials ==
  [m1 |-> [diffuse |-> "color", scale |-> "vector", tint |-> "color"], m2 |-> [diffuse |-> "color"]]
NoStyle == [node |-> "absent", params |-> {}]
Style(n, ps) == [node |-> n, params |-> ps]
Assigned(o, p, s, path, ch, a) ==
  [object |-> o, prim |-> p, sheet |-> s, path |-> path, channels |-> ch, attrs |-> a]
Styles == {NoStyle, Style("m1", {"diffuse"}), Style("m2", {}), Style("gone", {})}
MCOverrideLevels ==
  {Assigned(NoStyle, p, NoStyle, path,
            {<<"diffuse", 1>>, <<"diffuse", 3>>, <<"scale", 1>>, <<"tint", 3>>}, a) :
     p \in Styles, path \in {"", "m1", "gone"}, a \in {{}, {"diffuse"}}}
  \cup {Assigned(Style("m1", {"diffuse", "scale"}), p, Style("m2", {"diffuse", "scale"}),
                 "m1", {}, {"scale"}) : p \in Styles}

(* Meshes: polygons with an open one and vertex normals, a soup and a polygon, one *)
(* large polygon before a soup without normals, and two soups with vertex normals. *)
Prim(k, polys, group, path, over) ==
  [kind |-> k, polys |-> polys, group |-> group, path |-> path, over |-> over]
Uv == [owner |-> "vertex", uv |-> TRUE, values |-> <<"u1", "u1", "u2", "u3", "u2", "u1", "u4", "u2">>]
PointColor == [owner |-> "point", uv |-> FALSE, values |-> <<"c1", "c2", "c1", "c3", "c4">>]
Weld(uv) == [owner |-> "vertex", uv |-> uv, values |-> <<1, 2, 3, 1, 4, 4, 2, 1, 1>>]
Big == [v \in 1..13 |-> v]
MCMeshDetails == {
  [prims |-> <<Prim("open", <<<<1>>>>, "g", "none", <<>>),
               Prim("poly", <<<<2, 3, 4, 5>>>>, "g", "m2", [diffuse |-> "red"]),
               Prim("poly", <<<<6, 7, 8>>>>, "h", "none", <<>>)>>,
   points |-> <<1, 1, 2, 3, 4, 3, 2, 5>>, normals |-> "vertex", sheetAttr |-> FALSE,
   attrs |-> [uv |-> Uv, Cd |-> PointColor, diffuse |-> PointColor]],
  [prims |-> <<Prim("soup", <<<<1, 2, 3>>, <<4, 5, 6, 7>>>>, "g", "m2", <<>>),
               Prim("poly", <<<<8, 9>>>>, "h", "m1", [diffuse |-> "red"])>>,
   points |-> <<3, 4, 5, 6, 5, 4, 3, 1, 2>>, normals |-> "point", sheetAttr |-> FALSE,
   attrs |-> [uv |-> Weld(TRUE), w |-> Weld(FALSE)]],
  [prims |-> <<Prim("poly", <<Big>>, "h", "m1", <<>>), Prim("soup", <<<<14, 15, 16>>>>, "g", "none", <<>>)>>,
   points |-> Big \o <<1, 3, 2>>, normals |-> "none", sheetAttr |-> TRUE, attrs |-> <<>>],
  [prims |-> <<Prim("soup", <<<<1, 2, 3>>, <<4, 5, 6>>>>, "g", "m2", <<>>),
               Prim("soup", <<<<7, 8, 9, 10>>, <<11, 12>>>>, "h", "m3", [diffuse |-> "red"])>>,
   points |-> <<1, 2, 3, 3, 2, 4, 6, 7, 8, 5, 5, 6>>, normals |-> "vertex", sheetAttr |-> FALSE,
   attrs |-> <<>>]}
MeshContext(context, object, g, h, subdiv, partition) ==
  [context |-> context, object |-> object, sheet |-> [g |-> g, h |-> h], subdiv |-> subdiv,
   partition |-> partition]
MCMeshContexts ==
  {MeshContext("none", "none", "none", "none", FALSE, FALSE), MeshContext("none", "none", "m1", "none", TRUE, FALSE),
   MeshContext("m3", "m1", "none", "none", FALSE, FALSE), MeshContext("none", "m1", "none", "m2", FALSE, TRUE),
   MeshContext("none", "m2", "none", "m1", TRUE, FALSE)}

(* Proxy exports of one SOP or two, of one frame, forwards and backwards. *)
Command(by, from, to, animation, overwrite, mkpath, single, numbered, sops) ==
  [by |-> by, first |-> from, last |-> to, animation |-> animation, overwrite |-> overwrite,
   mkpath |-> mkpath, single |-> single, numbered |-> numbered, sops |-> sops]
MCProxyCommands == {
  Command("cmd", 1, 3, TRUE, FALSE, TRUE, TRUE, FALSE, <<"s", "t">>),
  Command("cmd", 3, 1, TRUE, TRUE, FALSE, TRUE, FALSE, <<"s">>),
  Command("cmd", 2, 2, FALSE, FALSE, FALSE, FALSE, FALSE, <<"s", "t">>),
  Command("rop", 1, 2, TRUE, TRUE, FALSE, FALSE, FALSE, <<"s", "t">>),
  Command("rop", 1, 2, TRUE, FALSE, TRUE, TRUE, TRUE, <<"s", "t">>)}

(* OSL code with a texture before its values, one that keeps only some of the names, *)
(* and one that does not compile.                                                    *)
Declared(n, k, default) == [name |-> n, kind |-> k, default |-> default]
MCOslCodes ==
  [a   |-> [compiles |-> TRUE,
            decls |-> <<Declared("tex", "texture", ""), Declared("c", "number", "cd"),
                        Declared("m", "menu", ""), Declared("out", "color out", "")>>],
   b   |-> [compiles |-> TRUE,
            decls |-> <<Declared("c", "number", "0"), Declared("arr", "other", ""),
                        Declared("tex2", "texture", ""), Declared("s", "text", "sd"),
                        Declared("tex", "texture", ""), Declared("cl", "closure out", ""),
                        Declared("o", "other out", "")>>],
   bad |-> [compiles |-> FALSE, decls |-> <<>>]]

(* Proxy files whose shader sets change, and the layered nodes. *)
MCSetFiles == [f |-> {<<>>, <<"a", "b">>, <<"b">>}, g |-> {<<"c">>}]
MCLayerBase ==
  [MtlMulti |-> <<"mtlid_gen", "mtlid_gen_float">>, TexMulti |-> <<"id_gen">>,
   TexLayeredMax |-> <<>>, BRDFLayered |-> <<"transparency">>]
MCLayerInputs == [m |-> "bsdf", t |-> "color", u |-> "color"]
=============================================================================
