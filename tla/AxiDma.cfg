SPECIFICATION Spec
CONSTANTS
  Clients = {c1, c2}
  DmaPages = 2
  PageSize = 2
  MaxNents = 2
  Sizes = {1, 3}
  MapDirs = {"TO_DEVICE", "FROM_DEVICE", "BIDIRECTIONAL"}
  Values = {v1}
  Unset = Unset
  MemremapFails = TRUE
SYMMETRY Symmetry
INVARIANTS AllocationsDisjoint BitmapExact BouncesExact DataIntact DataInv
