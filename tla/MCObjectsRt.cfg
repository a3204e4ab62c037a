CONSTANTS
  tree = tree  wood = wood  yard = yard  rock = rock  ball = ball  spray = spray
  bare = bare  lamp = lamp  NoOne = NoOne
  trunk = trunk  twig = twig  frond = frond  scatter = scatter  grid = grid
  stone = stone  round = round  drops = drops  bush = bush
  Bundle <- MCBundle
  Lights = {lamp}
  Root <- MCRoot
  Contents <- MCContents
  RenderPoints <- MCRenderPoints
  LightMask <- MCLightMask
  None = NoOne
  MaxEdits = 2
SPECIFICATION Spec
INVARIANTS GeometryIsCurrent
CHECK_DEADLOCK FALSE
