\* Two Workers over three thread ids and two models, each with any two
\* convolutions, tensors shared or not; restarts included.
CONSTANTS
  Pools = {p1, p2}
  Ids = {i1, i2, i3}
  Models = {m1, m2}
  Shapes = {s1, s2}
  MaxNodes = 2
  Null = Null
  None = None
SYMMETRY Interchangeable
SPECIFICATION WrapperSpec
PROPERTIES PreparedByFirstNet SharedStateStable
