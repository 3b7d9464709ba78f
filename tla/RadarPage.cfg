CONSTANTS
  Images = {"dust2", "mirage", "lost"}
  Missing = {"lost"}
  MaxLoads = 3
SPECIFICATION Spec
PROPERTY RightMapShown
PROPERTY MissingMapIsSaid
