CONSTANTS
  Geometry = {obj}
  Lights = {lamp}
  Shaders = {mtl}
  Camera = cam
  Rop = rop
  Takes = {Main, Look}
  NoTake = NoTake
  MaxSessions = 3
SPECIFICATION Spec
INVARIANTS NoStrayInterest SceneIsFollowed
CHECK_DEADLOCK FALSE
