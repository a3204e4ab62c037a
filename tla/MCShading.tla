------------------------------ MODULE MCShading ------------------------------
EXTENDS ShaderExport

\* A material output linked to one of two BRDFs, which the user links to the other;
\* "metal" has a texture and is itself a material.
MCShaders ==
  [mat   |-> Shader("matoutput", [Material |-> "surface"], <<>>, {}, <<>>, ""),
   metal |-> Shader("brdf", [reflect |-> "color"], [brdf |-> "bsdf"], {}, <<>>, ""),
   glass |-> Shader("brdf", [refract |-> "color"], [brdf |-> "bsdf"], {}, <<>>, ""),
   noise |-> Shader("texture", <<>>, [color |-> "color"], {}, <<>>, ""),
   sky   |-> Shader("texture", [turbidity |-> "float"], [color |-> "color"], {}, <<>>, "")]
MCMaterials == {"mat", "metal"}
MCLinks ==
  [mat |-> [Material |-> To("metal", "brdf")], metal |-> [reflect |-> To("noise", "color")],
   glass |-> [refract |-> Unlinked], noise |-> <<>>, sky |-> [turbidity |-> Unlinked]]
MCRewirings ==
  [[n \in DOMAIN MCShaders |-> {}] EXCEPT !["mat"] = {<<"Material", To("glass", "brdf")>>}]
=============================================================================
