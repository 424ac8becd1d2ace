SPECIFICATION Spec
CONSTANTS
  d1 = d1
  d2 = d2
  d3 = d3
  d4 = d4
  shared = shared
  other = other
  Devices <- MCDevices
  Apertures = {shared, other}
  Aperture <- MCAperture
  Pools = {p1, p2, p3, p4}
SYMMETRY Symmetry
INVARIANTS RefsExact HeldAlive OnePoolPerAperture NoPoolLeaked IndInv
