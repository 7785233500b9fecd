\* A second Worker whose thread inherits the id of a thread of the first.
CONSTANTS
  Pools = {p1, p2}
  Ids = {i1, i2}
  Models = {m1, m2}
  Shapes = {s1, s2}
  MaxNodes = 1
  Null = Null
  None = None
SPECIFICATION WrapperSpec
INVARIANT ServesOwnModel
